------------------------- MODULE GenerateTestsProofs -------------------------
(***************************************************************************)
(* Proofs about generate_tests.py, for every project, every answer of the  *)
(* model, every limit and number of retries and of runs, with files that   *)
(* someone else writes and a run that is ended at any point.               *)
(***************************************************************************)
EXTENDS GenerateTests, FiniteSetTheorems, SequenceTheorems, WellFoundedInduction, TLAPS

\* The constants as the proofs use them.
LEMMA ConstantFacts ==
  /\ Len(Tree) \in Nat /\ Files \subseteq Nat
  /\ \A f \in Files : /\ Tree[f] \in FileAttr
                      /\ Tree[f].chars \in Nat /\ Tree[f].depth \in Nat
  /\ \A S \in Projects : S \subseteq Files
  /\ MaxFiles \in Nat /\ MaxFiles > 0 /\ MaxContextChars \in Nat
  /\ Retries \in Nat /\ MaxGenerations \in Nat
<1>1. Len(Tree) \in Nat /\ Files \subseteq Nat
  BY TreeAssumption DEF Files
<1>2. ASSUME NEW f \in Files
      PROVE  Tree[f] \in FileAttr /\ Tree[f].chars \in Nat /\ Tree[f].depth \in Nat
  <2>1. Tree[f] \in FileAttr BY TreeAssumption DEF Files
  <2> QED BY <2>1 DEF FileAttr
<1> QED BY <1>1, <1>2, TreeAssumption, LimitAssumption DEF Files

\* The four categories are different.
LEMMA CategoryFacts ==
  /\ CategorySet = {"metadata", "tests", "sources", "headers"}
  /\ \A i \in 1..4 : Category[i] \in CategorySet
  /\ \A i, j \in 1..4 : Category[i] = Category[j] => i = j
  /\ \A c \in CategorySet : \E i \in 1..4 : Category[i] = c
<1>1. 1..4 = {1, 2, 3, 4} OBVIOUS
<1>2. /\ Category[1] = "metadata" /\ Category[2] = "tests"
      /\ Category[3] = "sources" /\ Category[4] = "headers"
  BY DEF Category
<1>3. CategorySet = {"metadata", "tests", "sources", "headers"}
  BY <1>1, <1>2 DEF CategorySet
<1> QED BY <1>1, <1>2, <1>3

LEMMA CategoryOf == \A f : CandidateCategory(f) \in CategorySet
BY CategoryFacts DEF CandidateCategory

-----------------------------------------------------------------------------
(* pop(0) of a sorted bucket                                                *)

\* A set of natural numbers that is not empty has a least element.
LEMMA LeastNat ==
  ASSUME NEW T \in SUBSET Nat, T # {}
  PROVE  \E i \in T : \A j \in T : i <= j
<1>1. PICK i \in T : \A j \in T : <<j, i>> \notin OpToRel(<, Nat)
  BY NatLessThanWellFounded, WFMin
<1>2. i \in T /\ \A j \in T : ~(j < i)
  BY <1>1 DEF OpToRel
<1> QED BY <1>2

\* The scores are bounded.
LEMMA PriorityBound ==
  ASSUME NEW f \in Files
  PROVE  CandidatePriority(f) \in Int /\ 270 - CandidatePriority(f) \in Nat
<1> DEFINE score(yes, n) == IF yes THEN n ELSE 0
           a == score(Tree[f].important, 100)
           b == score(Tree[f].test, 80)
           c == score(Tree[f].api, 40)
           d == score(Tree[f].header, 30)
           e == score(Tree[f].source, 20)
           g == Tree[f].depth
<1>1. g \in Nat BY ConstantFacts
<1>2. a \in 0..100 /\ b \in 0..80 /\ c \in 0..40 /\ d \in 0..30 /\ e \in 0..20
  OBVIOUS
<1>3. CandidatePriority(f) = a + b + c + d + e - g
  BY DEF CandidatePriority
<1> HIDE DEF score, a, b, c, d, e, g
<1> QED BY <1>1, <1>2, <1>3

\* The key orders the files of a bucket, so there is a first one.
LEMMA FirstInBucket ==
  ASSUME NEW S \in SUBSET Files, S # {}
  PROVE  First(S) \in S
<1> DEFINE back(f) == 270 - CandidatePriority(f)
           M == {back(f) : f \in S}
<1>1. PICK m \in M : \A n \in M : m <= n
  <2>1. M \in SUBSET Nat /\ M # {} BY PriorityBound
  <2> QED BY <2>1, LeastNat
<1> DEFINE T == {f \in S : back(f) = m}
<1>2. PICK f \in T : \A g \in T : f <= g
  <2>1. T \in SUBSET Nat /\ T # {} BY <1>1, ConstantFacts
  <2> QED BY <2>1, LeastNat
<1>3. ASSUME NEW g \in S, g # f PROVE Before(f, g)
  <2>1. back(f) <= back(g) BY <1>1, <1>2
  <2>2. /\ CandidatePriority(f) \in Int /\ CandidatePriority(g) \in Int
        /\ f \in Nat /\ g \in Nat
    BY <1>2, PriorityBound, ConstantFacts
  <2>3. back(f) = back(g) => f <= g BY <1>2
  <2> QED BY <1>3, <2>1, <2>2, <2>3 DEF Before
<1>4. \E h \in S : \A g \in S : h = g \/ Before(h, g)
  BY <1>2, <1>3
<1> QED BY <1>4 DEF First

-----------------------------------------------------------------------------
\* Each attempt is one request.
RequestInv == gpc \in {"rank", "select", "answer"} => requests = attempt

\* The parts of the type invariant.
SelectionOK ==
  /\ project \subseteq Files
  /\ buckets \in [CategorySet -> SUBSET Files] /\ turn \in 1..4
  /\ ranked \in Seq(Files) /\ selected \in Seq(Files)
  /\ index \in 0..Len(ranked) /\ used \in Nat
CallOK ==
  /\ gpc \in {"idle", "rank", "select", "answer", "check", "write",
              "generation", "metadata"}
  /\ mode \in {"dry", "file", "live"} /\ force \in BOOLEAN
  /\ attempt \in 0..Retries /\ requests \in 0..Retries + 1
  /\ gen \in 0..MaxGenerations
  /\ why \in {"none", "ok", "dry", "rejected", "empty", "fatal", "transient", "io",
             "killed"}
  /\ RequestInv
AnswerOK ==
  /\ answer \in Suite \cup {NoSuite}
  /\ writer \in [gen : 0..MaxGenerations, suite : Suite \cup {NoSuite},
                 force : BOOLEAN, before : SUBSET GenPath]
  /\ written \in Nat
  /\ gpc \in Writing => \A i \in 1..Len(writer.suite.names) :
                           Target[writer.suite.names[i]] \in GenPath
DiskOK == disk \in [GenPath -> Content] /\ dirs \subseteq GenPath

\* The names of an answer, and where they lead if it is accepted.
LEMMA SuiteNames ==
  ASSUME NEW s \in Suite \cup {NoSuite}
  PROVE  s.names \in Seq(Name) /\ Len(s.names) \in Nat
<1>1. CASE s \in Suite
  BY <1>1, SuiteAssumption
<1>2. CASE s = NoSuite
  <2>1. s.names = <<>> BY <1>2 DEF NoSuite
  <2> QED BY <2>1
<1> QED BY <1>1, <1>2

LEMMA SuiteFinite ==
  ASSUME NEW s \in Suite \cup {NoSuite}
  PROVE  IsFiniteSet(Targets(s)) /\ Cardinality(Targets(s)) \in Nat
<1> DEFINE f == [i \in 1..Len(s.names) |-> Target[s.names[i]]]
<1>1. Len(s.names) \in Nat BY SuiteNames
<1>2. IsFiniteSet(1..Len(s.names)) BY <1>1, FS_Interval
<1>3. f \in Surjection(1..Len(s.names), Targets(s))
  BY Zenon DEF Surjection, Targets, Range
<1> QED BY <1>2, <1>3, FS_Surjection, FS_CardinalityType

LEMMA SafeTargets ==
  ASSUME NEW s \in Suite \cup {NoSuite}, \A i \in 1..Len(s.names) : SafeName(s.names[i])
  PROVE  \A i \in 1..Len(s.names) : Target[s.names[i]] \in GenPath
<1>1. ASSUME NEW i \in 1..Len(s.names)
      PROVE  Target[s.names[i]] \in GenPath
  <2>1. s.names[i] \in Name BY SuiteNames
  <2> QED BY <2>1, PathAssumption DEF SafeName
<1> QED BY <1>1

\* How a write of path p ends: the file is whole and the run goes on at place,
\* or the run is over, with the file whole before, torn, or untouched.
WriteStep(p, place) ==
  /\ \/ disk' = [disk EXCEPT ![p] = Whole(gen)] /\ gpc' = place
     \/ disk' = [disk EXCEPT ![p] = Torn(gen)] /\ gpc' = "idle"
     \/ disk' = disk /\ gpc' = "idle"
  /\ dirs' = dirs \/ dirs' = dirs \cup Above[p]
  /\ why' \in {why, "ok", "io"}
  /\ UNCHANGED <<project, mode, force, selection, call, gen, writer>>

LEMMA WriteFileStep == WriteFile => gpc = "write" /\ WriteStep(Entry, "write")
BY DEF WriteFile, Write, WriteStep, End

LEMMA WriteGenerationStep ==
  WriteGeneration => gpc = "generation" /\ WriteStep(GenJson, "metadata")
BY DEF WriteGeneration, Write, WriteStep, End

LEMMA WriteMetadataStep ==
  WriteMetadata => gpc = "metadata" /\ WriteStep(MetaJson, "idle")
BY DEF WriteMetadata, Write, WriteStep, End

\* What one turn of the round robin does: nothing for an empty bucket, and else
\* one file goes from the bucket to the end of the ranking.
Ranks(c, x) ==
  /\ x \in buckets[c] /\ ranked' = Append(ranked, x)
  /\ buckets' = [buckets EXCEPT ![c] = buckets[c] \ {x}]

LEMMA RankEffect ==
  ASSUME SelectionOK, Rank
  PROVE  /\ Category[turn] \in CategorySet /\ turn' = (turn % 4) + 1 /\ turn' \in 1..4
         /\ \/ buckets[Category[turn]] = {} /\ UNCHANGED <<ranked, buckets>>
            \/ \E x \in Files : Ranks(Category[turn], x)
<1> DEFINE c == Category[turn]
<1>1. turn \in 1..4 /\ c \in CategorySet BY CategoryFacts DEF SelectionOK
<1>2. turn' = (turn % 4) + 1 BY DEF Rank
<1>3. turn' \in 1..4 BY <1>1, <1>2
<1>4. buckets[c] = {} => UNCHANGED <<ranked, buckets>> BY DEF Rank
<1>5. CASE buckets[c] # {}
  <2>1. First(buckets[c]) \in buckets[c] /\ buckets[c] \subseteq Files
    BY <1>1, <1>5, FirstInBucket DEF SelectionOK
  <2>2. /\ ranked' = Append(ranked, First(buckets[c]))
        /\ buckets' = [buckets EXCEPT ![c] = buckets[c] \ {First(buckets[c])}]
    BY <1>5 DEF Rank
  <2> QED BY <1>1, <1>2, <1>3, <2>1, <2>2 DEF Ranks
<1> QED BY <1>1, <1>2, <1>3, <1>4, <1>5

LEMMA WriteKeepsDisk ==
  ASSUME DiskOK, CallOK, NEW p \in GenPath, NEW place, WriteStep(p, place)
  PROVE  DiskOK'
<1>1. Whole(gen) \in Content /\ Torn(gen) \in Content
  BY DEF CallOK, Whole, Torn, Content
<1> QED BY <1>1, PathAssumption DEF DiskOK, WriteStep

\* The selection keeps the types of its variables.
LEMMA SelectionStep ==
  ASSUME SelectionOK, [GenNext]_genVars
  PROVE  SelectionOK'
<1> USE ConstantFacts, CategoryFacts
<1>1. CASE Rank
  <2>1. /\ turn' \in 1..4 /\ UNCHANGED <<project, index, selected, used>>
    BY <1>1, RankEffect DEF Rank
  <2>2. CASE UNCHANGED <<ranked, buckets>>
    BY <2>1, <2>2 DEF SelectionOK
  <2>3. ASSUME NEW x \in Files, Ranks(Category[turn], x) PROVE SelectionOK'
    <3>1. ranked' \in Seq(Files) /\ Len(ranked') = Len(ranked) + 1
      BY <2>3 DEF Ranks, SelectionOK
    <3>2. buckets' \in [CategorySet -> SUBSET Files]
      BY <2>3 DEF Ranks, SelectionOK
    <3> QED BY <2>1, <3>1, <3>2 DEF SelectionOK
  <2> QED BY <1>1, <2>2, <2>3, RankEffect
<1>2. CASE RankEnd
  BY <1>2 DEF SelectionOK, selection, call, output, RankEnd
<1>3. CASE Select
  <2>1. /\ index' = index + 1 /\ index # Len(ranked)
        /\ UNCHANGED <<project, buckets, turn, ranked>>
    BY <1>3 DEF Select, SelectionOver
  <2>2. index' \in 0..Len(ranked) /\ ranked[index + 1] \in Files
    BY <2>1 DEF SelectionOK
  <2>3. \/ UNCHANGED <<selected, used>>
        \/ /\ selected' = Append(selected, ranked[index + 1])
           /\ used' = used + Tree[ranked[index + 1]].chars
    BY <1>3 DEF Select
  <2>4. selected' \in Seq(Files)
    <3> DEFINE f == ranked[index + 1]
    <3>1. selected \in Seq(Files) /\ f \in Files BY <2>2 DEF SelectionOK
    <3>2. selected' = selected \/ selected' = Append(selected, f) BY <2>3
    <3> HIDE ConstantFacts, CategoryFacts DEF f
    <3>3. Append(selected, f) \in Seq(Files) BY <3>1, AppendProperties
    <3> QED BY <3>1, <3>2, <3>3, Zenon
  <2>5. used' \in Nat
    <3>1. used \in Nat /\ Tree[ranked[index + 1]].chars \in Nat
      BY <2>2 DEF SelectionOK
    <3> QED BY <2>3, <3>1
  <2> QED BY <2>1, <2>2, <2>4, <2>5 DEF SelectionOK
<1>4. CASE SelectEnd
  BY <1>4 DEF SelectionOK, selection, call, output, End, SelectEnd
<1>5. CASE TransientError
  BY <1>5 DEF SelectionOK, selection, output, End, TransientError, Request
<1>6. CASE FatalError
  BY <1>6 DEF SelectionOK, selection, output, End, FatalError, Request
<1>7. CASE NoKey
  BY <1>7 DEF SelectionOK, selection, call, output, End, NoKey
<1>8. CASE Reject
  BY <1>8 DEF SelectionOK, selection, call, output, End, Reject
<1>9. CASE Accept
  BY <1>9 DEF SelectionOK, selection, call, Accept
<1>10. CASE WriteFile
  BY <1>10, WriteFileStep DEF WriteStep, SelectionOK, selection
<1>11. CASE WriteEnd
  BY <1>11 DEF SelectionOK, selection, call, output, WriteEnd
<1>12. CASE WriteGeneration
  BY <1>12, WriteGenerationStep DEF WriteStep, SelectionOK, selection
<1>13. CASE WriteMetadata
  BY <1>13, WriteMetadataStep DEF WriteStep, SelectionOK, selection
<1>14. CASE Interrupt
  BY <1>14 DEF SelectionOK, selection, call, output, End, Interrupt
<1>15. ASSUME NEW s \in Suite, Answer(s) PROVE SelectionOK'
  BY <1>15 DEF SelectionOK, selection, output, Answer, Request
<1>16. ASSUME NEW m \in {"dry", "file", "live"}, NEW f \in BOOLEAN, Invoke(m, f) PROVE SelectionOK'
  <2>1. buckets' \in [CategorySet -> SUBSET Files]
    BY <1>16 DEF SelectionOK, Invoke
  <2>2. ranked' \in Seq(Files) /\ selected' \in Seq(Files) /\ Len(ranked') = 0
    BY <1>16 DEF Invoke
  <2>3. turn' \in 1..4 /\ index' = 0 /\ used' \in Nat /\ project' = project
    BY <1>16 DEF Invoke
  <2> QED BY <2>1, <2>2, <2>3 DEF SelectionOK
<1>17. ASSUME NEW p \in GenPath, UserWrites(p) PROVE SelectionOK'
  BY <1>17 DEF SelectionOK, selection, call, UserWrites
<1>18. CASE UNCHANGED genVars
  BY <1>18 DEF SelectionOK, selection, call, output, End, genVars
<1> QED
  BY <1>1, <1>2, <1>3, <1>4, <1>5, <1>6, <1>7, <1>8, <1>9, <1>10, <1>11, <1>12, <1>13,
    <1>14, <1>15, <1>16, <1>17, <1>18 DEF GenNext, GenStep

\* The call keeps the types, and counts its requests.
LEMMA CallStep ==
  ASSUME CallOK, [GenNext]_genVars
  PROVE  CallOK'
<1> USE ConstantFacts
<1>1. CASE Rank
  BY <1>1 DEF CallOK, RequestInv, call, output, Rank
<1>2. CASE RankEnd
  BY <1>2 DEF CallOK, RequestInv, selection, call, output, RankEnd
<1>3. CASE Select
  BY <1>3 DEF CallOK, RequestInv, call, output, Select
<1>4. CASE SelectEnd
  BY <1>4 DEF CallOK, RequestInv, selection, call, output, End, SelectEnd
<1>5. CASE TransientError
  BY <1>5 DEF CallOK, RequestInv, selection, output, End, TransientError, Request
<1>6. CASE FatalError
  BY <1>6 DEF CallOK, RequestInv, selection, output, End, FatalError, Request
<1>7. CASE NoKey
  BY <1>7 DEF CallOK, RequestInv, selection, call, output, End, NoKey
<1>8. CASE Reject
  BY <1>8 DEF CallOK, RequestInv, selection, call, output, End, Reject
<1>9. CASE Accept
  BY <1>9 DEF CallOK, RequestInv, selection, call, Accept
<1>10. CASE WriteFile
  BY <1>10, WriteFileStep DEF WriteStep, CallOK, RequestInv, call
<1>11. CASE WriteEnd
  BY <1>11 DEF CallOK, RequestInv, selection, call, output, WriteEnd
<1>12. CASE WriteGeneration
  BY <1>12, WriteGenerationStep DEF WriteStep, CallOK, RequestInv, call
<1>13. CASE WriteMetadata
  BY <1>13, WriteMetadataStep DEF WriteStep, CallOK, RequestInv, call
<1>14. CASE Interrupt
  BY <1>14 DEF CallOK, RequestInv, selection, call, output, End, Interrupt
<1>15. ASSUME NEW s \in Suite, Answer(s) PROVE CallOK'
  BY <1>15 DEF CallOK, RequestInv, selection, output, Answer, Request
<1>16. ASSUME NEW m \in {"dry", "file", "live"}, NEW f \in BOOLEAN, Invoke(m, f) PROVE CallOK'
  BY <1>16 DEF CallOK, RequestInv, output, Invoke
<1>17. ASSUME NEW p \in GenPath, UserWrites(p) PROVE CallOK'
  BY <1>17 DEF CallOK, RequestInv, selection, call, UserWrites
<1>18. CASE UNCHANGED genVars
  BY <1>18 DEF CallOK, RequestInv, selection, call, output, End, genVars
<1> QED
  BY <1>1, <1>2, <1>3, <1>4, <1>5, <1>6, <1>7, <1>8, <1>9, <1>10, <1>11, <1>12, <1>13,
    <1>14, <1>15, <1>16, <1>17, <1>18 DEF GenNext, GenStep

\* So do the answer and the record of what is written.
LEMMA AnswerStep ==
  ASSUME AnswerOK, CallOK, [GenNext]_genVars
  PROVE  AnswerOK'
<1>1. CASE Rank
  BY <1>1 DEF AnswerOK, CallOK, Writing, call, output, Rank
<1>2. CASE RankEnd
  BY <1>2 DEF AnswerOK, CallOK, Writing, selection, call, output, RankEnd
<1>3. CASE Select
  BY <1>3 DEF AnswerOK, CallOK, Writing, call, output, Select
<1>4. CASE SelectEnd
  BY <1>4 DEF AnswerOK, CallOK, Writing, selection, call, output, End, SelectEnd
<1>5. CASE TransientError
  BY <1>5 DEF AnswerOK, CallOK, Writing, selection, output, End, TransientError,
    Request
<1>6. CASE FatalError
  BY <1>6 DEF AnswerOK, CallOK, Writing, selection, output, End, FatalError, Request
<1>7. CASE NoKey
  BY <1>7 DEF AnswerOK, CallOK, Writing, selection, call, output, End, NoKey
<1>8. CASE Reject
  BY <1>8 DEF AnswerOK, CallOK, Writing, selection, call, output, End, Reject
<1>9. CASE Accept
  <2>1. writer' = [gen |-> gen, suite |-> answer, force |-> force,
                   before |-> {p \in GenPath : Exists(p)}]
        /\ written' = 0 /\ answer' = answer
    BY <1>9 DEF Accept, call
  <2>2. writer'.suite = answer /\ written' \in Nat
        /\ writer' \in [gen : 0..MaxGenerations, suite : Suite \cup {NoSuite},
                        force : BOOLEAN, before : SUBSET GenPath]
    BY <2>1 DEF AnswerOK, CallOK
  <2>3. \A i \in 1..Len(answer.names) : Target[answer.names[i]] \in GenPath
    BY <1>9, SafeTargets DEF Accept, Acceptable, AnswerOK
  <2> QED BY <2>1, <2>2, <2>3 DEF AnswerOK
<1>10. CASE WriteFile
  <2>1. UNCHANGED <<answer, writer>> /\ gpc \in Writing
    BY <1>10, WriteFileStep DEF WriteStep, call, Writing
  <2>2. written' \in Nat BY <1>10 DEF WriteFile, AnswerOK
  <2> QED BY <2>1, <2>2 DEF AnswerOK
<1>11. CASE WriteEnd
  BY <1>11 DEF AnswerOK, CallOK, Writing, selection, call, output, WriteEnd
<1>12. CASE WriteGeneration
  <2>1. UNCHANGED <<answer, writer>> /\ gpc \in Writing
    BY <1>12, WriteGenerationStep DEF WriteStep, call, Writing
  <2>2. written' \in Nat BY <1>12 DEF WriteGeneration, AnswerOK
  <2> QED BY <2>1, <2>2 DEF AnswerOK
<1>13. CASE WriteMetadata
  <2>1. UNCHANGED <<answer, writer>> /\ gpc \in Writing
    BY <1>13, WriteMetadataStep DEF WriteStep, call, Writing
  <2>2. written' \in Nat BY <1>13 DEF WriteMetadata, AnswerOK
  <2> QED BY <2>1, <2>2 DEF AnswerOK
<1>14. CASE Interrupt
  BY <1>14 DEF AnswerOK, CallOK, Writing, selection, call, output, End, Interrupt
<1>15. ASSUME NEW s \in Suite, Answer(s) PROVE AnswerOK'
  BY <1>15 DEF AnswerOK, CallOK, Writing, selection, output, Answer, Request
<1>16. ASSUME NEW m \in {"dry", "file", "live"}, NEW f \in BOOLEAN, Invoke(m, f) PROVE AnswerOK'
  BY <1>16 DEF AnswerOK, CallOK, Writing, output, Invoke
<1>17. ASSUME NEW p \in GenPath, UserWrites(p) PROVE AnswerOK'
  BY <1>17 DEF AnswerOK, CallOK, Writing, selection, call, UserWrites
<1>18. CASE UNCHANGED genVars
  BY <1>18 DEF AnswerOK, CallOK, Writing, selection, call, output, End, genVars
<1> QED
  BY <1>1, <1>2, <1>3, <1>4, <1>5, <1>6, <1>7, <1>8, <1>9, <1>10, <1>11, <1>12, <1>13,
    <1>14, <1>15, <1>16, <1>17, <1>18 DEF GenNext, GenStep

\* So does the output directory.
LEMMA DiskStep ==
  ASSUME DiskOK, CallOK, AnswerOK, [GenNext]_genVars
  PROVE  DiskOK'
<1>1. CASE Rank
  BY <1>1 DEF DiskOK, call, output, Rank
<1>2. CASE RankEnd
  BY <1>2 DEF DiskOK, selection, call, output, RankEnd
<1>3. CASE Select
  BY <1>3 DEF DiskOK, call, output, Select
<1>4. CASE SelectEnd
  BY <1>4 DEF DiskOK, selection, call, output, End, SelectEnd
<1>5. CASE TransientError
  BY <1>5 DEF DiskOK, selection, output, End, TransientError, Request
<1>6. CASE FatalError
  BY <1>6 DEF DiskOK, selection, output, End, FatalError, Request
<1>7. CASE NoKey
  BY <1>7 DEF DiskOK, selection, call, output, End, NoKey
<1>8. CASE Reject
  BY <1>8 DEF DiskOK, selection, call, output, End, Reject
<1>9. CASE Accept
  BY <1>9 DEF DiskOK, selection, call, Accept
<1>10. CASE WriteFile
  <2>1. written < Len(writer.suite.names) BY <1>10 DEF WriteFile
  <2>2. Entry \in GenPath
    BY <1>10, <2>1, SuiteNames DEF AnswerOK, WriteFile, Writing, Entry
  <2> QED BY <1>10, <2>2, WriteKeepsDisk, WriteFileStep
<1>11. CASE WriteEnd
  BY <1>11 DEF DiskOK, selection, call, output, WriteEnd
<1>12. CASE WriteGeneration
  BY <1>12, WriteGenerationStep, WriteKeepsDisk, PathAssumption
<1>13. CASE WriteMetadata
  BY <1>13, WriteMetadataStep, WriteKeepsDisk, PathAssumption
<1>14. CASE Interrupt
  BY <1>14 DEF DiskOK, selection, call, output, End, Interrupt
<1>15. ASSUME NEW s \in Suite, Answer(s) PROVE DiskOK'
  BY <1>15 DEF DiskOK, selection, output, Answer, Request
<1>16. ASSUME NEW m \in {"dry", "file", "live"}, NEW f \in BOOLEAN, Invoke(m, f) PROVE DiskOK'
  BY <1>16 DEF DiskOK, output, Invoke
<1>17. ASSUME NEW p \in GenPath, UserWrites(p) PROVE DiskOK'
  <2>1. disk' = [disk EXCEPT ![p] = UserFile] /\ dirs' = dirs \cup Above[p]
    BY <1>17 DEF UserWrites
  <2>2. UserFile \in Content BY LimitAssumption DEF UserFile, Whole, Content
  <2> QED BY <2>1, <2>2, PathAssumption DEF DiskOK
<1>18. CASE UNCHANGED genVars
  BY <1>18 DEF DiskOK, selection, call, output, End, genVars
<1> QED
  BY <1>1, <1>2, <1>3, <1>4, <1>5, <1>6, <1>7, <1>8, <1>9, <1>10, <1>11, <1>12, <1>13,
    <1>14, <1>15, <1>16, <1>17, <1>18 DEF GenNext, GenStep

GenTypeInv == SelectionOK /\ CallOK /\ AnswerOK /\ DiskOK

LEMMA GenTypeStep ==
  ASSUME GenTypeInv, [GenNext]_genVars
  PROVE  GenTypeInv'
BY SelectionStep, CallStep, AnswerStep, DiskStep DEF GenTypeInv

LEMMA GenTypeInit ==
  ASSUME GenInit
  PROVE  GenTypeInv
<1> USE ConstantFacts DEF GenInit
<1>a. ranked \in Seq(Files) /\ selected \in Seq(Files) /\ Len(ranked) = 0 OBVIOUS
<1>b. buckets \in [CategorySet -> SUBSET Files] /\ turn \in 1..4 OBVIOUS
<1>c. index \in 0..Len(ranked) BY <1>a
<1>d. project \subseteq Files /\ used \in Nat OBVIOUS
<1>1. SelectionOK BY <1>a, <1>b, <1>c, <1>d DEF SelectionOK
<1>e. attempt \in 0..Retries /\ requests \in 0..Retries + 1 /\ RequestInv
  BY DEF RequestInv
<1>f. gen \in 0..MaxGenerations OBVIOUS
<1>g. gpc = "idle" /\ mode = "dry" /\ force \in BOOLEAN /\ why = "none" OBVIOUS
<1>2. CallOK
  <2>1. /\ gpc \in {"idle", "rank", "select", "answer", "check", "write",
                   "generation", "metadata"}
        /\ mode \in {"dry", "file", "live"}
        /\ why \in {"none", "ok", "dry", "rejected", "empty", "fatal", "transient",
                   "io", "killed"}
    BY <1>g
  <2> HIDE ConstantFacts DEF GenInit
  <2> QED BY <1>e, <1>f, <1>g, <2>1, Zenon DEF CallOK
<1>3. AnswerOK
  <2>1. /\ writer \in [gen : 0..MaxGenerations, suite : Suite \cup {NoSuite},
                      force : BOOLEAN, before : SUBSET GenPath]
        /\ written \in Nat
    OBVIOUS
  <2>2. answer \in Suite \cup {NoSuite} /\ gpc \notin Writing BY DEF Writing
  <2> QED BY <2>1, <2>2, Zenon DEF AnswerOK
<1>4. DiskOK BY DEF DiskOK, Absent, Content
<1> QED BY <1>1, <1>2, <1>3, <1>4 DEF GenTypeInv

LEMMA GenTypeAlways == GenSpec => []GenTypeInv
BY GenTypeInit, GenTypeStep, PTL DEF GenSpec

\* Type correctness, and with it the bound on the requests that a run sends.
THEOREM GenTypeCorrect == GenSpec => []GenTypeOK
<1>1. GenTypeInv => GenTypeOK
  BY DEF GenTypeInv, SelectionOK, CallOK, AnswerOK, DiskOK, GenTypeOK
<1> QED BY <1>1, GenTypeAlways, PTL

-----------------------------------------------------------------------------
(* The output directory                                                     *)

\* What is known of the output directory.  Before a run has begun to write, no
\* file has its number; while it writes, writer describes it.
DiskInv ==
  /\ \A p \in GenPath : /\ disk[p].st = "none" => disk[p].gen = 0
                        /\ disk[p].gen <= gen
  /\ writer.gen <= gen
  /\ gpc # "idle" => gen > 0
  /\ gpc \in {"rank", "select", "answer", "check"} =>
       \A p \in GenPath : disk[p].gen < gen
  /\ gpc \in Writing => /\ writer.gen = gen /\ writer.force = force
                        /\ ~force => writer.before = {}

\* What a write leaves at every path, and what someone else's write does.
LEMMA WriteContents ==
  ASSUME DiskOK, CallOK, NEW p \in GenPath, NEW place, WriteStep(p, place)
  PROVE  \A q \in GenPath :
           /\ disk'[q] = disk[q] \/ (q = p /\ disk'[q] \in {Whole(gen), Torn(gen)})
           /\ disk'[q].st = "none" => disk'[q] = disk[q]
           /\ disk'[q].gen \in {disk[q].gen, gen}
BY DEF DiskOK, WriteStep, Whole, Torn

LEMMA UserContents ==
  ASSUME DiskOK, NEW p \in GenPath, UserWrites(p)
  PROVE  /\ \A q \in GenPath : disk'[q] = IF q = p THEN Whole(0) ELSE disk[q]
         /\ disk[p].st = "none" /\ p \notin dirs
BY DEF DiskOK, UserWrites, UserFile, Exists

\* The path that a step of materialize_suite writes.
LEMMA EntryPath ==
  ASSUME GenTypeInv, WriteFile
  PROVE  Entry \in GenPath
<1>1. written < Len(writer.suite.names) /\ gpc \in Writing BY DEF WriteFile, Writing
<1> QED BY <1>1, SuiteNames DEF GenTypeInv, AnswerOK, Entry

\* A step that writes, whichever it is.
LEMMA SomeWrite ==
  ASSUME GenTypeInv, WriteFile \/ WriteGeneration \/ WriteMetadata
  PROVE  /\ gpc \in Writing
         /\ \E p \in GenPath : \E place \in Writing \cup {"idle"} : WriteStep(p, place)
<1>1. CASE WriteFile
  BY <1>1, EntryPath, WriteFileStep DEF Writing
<1>2. CASE WriteGeneration
  BY <1>2, WriteGenerationStep, PathAssumption DEF Writing
<1>3. CASE WriteMetadata
  BY <1>3, WriteMetadataStep, PathAssumption DEF Writing
<1> QED BY <1>1, <1>2, <1>3

LEMMA WriteIsKnown ==
  ASSUME DiskInv, GenTypeInv, gpc \in Writing, NEW p \in GenPath,
         NEW place \in Writing \cup {"idle"}, WriteStep(p, place)
  PROVE  DiskInv'
<1>1. \A q \in GenPath : /\ disk'[q].st = "none" => disk'[q] = disk[q]
                         /\ disk'[q].gen \in {disk[q].gen, gen}
  BY WriteContents DEF GenTypeInv
<1>2. UNCHANGED <<gen, writer, force>> /\ gpc' \in Writing \cup {"idle"}
  BY DEF WriteStep
<1> QED BY <1>1, <1>2 DEF DiskInv, GenTypeInv, CallOK, Writing

\* What is known of the directory stays known.
LEMMA DiskInvStep ==
  ASSUME DiskInv, GenTypeInv, GenTypeInv', [GenNext]_genVars
  PROVE  DiskInv'
<1>1. CASE Rank
  BY <1>1 DEF DiskInv, GenTypeInv, CallOK, Writing, call, output, Rank
<1>2. CASE RankEnd
  BY <1>2 DEF DiskInv, GenTypeInv, CallOK, Writing, selection, call, output, RankEnd
<1>3. CASE Select
  BY <1>3 DEF DiskInv, GenTypeInv, CallOK, Writing, call, output, Select
<1>4. CASE SelectEnd
  BY <1>4 DEF DiskInv, GenTypeInv, CallOK, Writing, selection, call, output, End,
    SelectEnd
<1>5. CASE TransientError
  BY <1>5 DEF DiskInv, GenTypeInv, CallOK, Writing, selection, output, End,
    TransientError, Request
<1>6. CASE FatalError
  BY <1>6 DEF DiskInv, GenTypeInv, CallOK, Writing, selection, output, End,
    FatalError, Request
<1>7. CASE NoKey
  BY <1>7 DEF DiskInv, GenTypeInv, CallOK, Writing, selection, call, output, End,
    NoKey
<1>8. CASE Reject
  BY <1>8 DEF DiskInv, GenTypeInv, CallOK, Writing, selection, call, output, End,
    Reject
<1>9. CASE Accept
  <2>1. /\ gpc = "check" /\ gpc' = "write" /\ UNCHANGED <<disk, gen, force>>
        /\ writer' = [gen |-> gen, suite |-> answer, force |-> force,
                      before |-> {p \in GenPath : Exists(p)}]
        /\ Acceptable(answer)
    BY <1>9 DEF Accept
  <2>2. ~force => writer'.before = {} BY <2>1 DEF Acceptable
  <2>3. writer'.gen = gen /\ writer'.force = force BY <2>1
  <2> QED BY <2>1, <2>2, <2>3 DEF DiskInv, GenTypeInv, CallOK, Writing
<1>10. CASE WriteFile
  <2>1. gpc \in Writing BY <1>10, SomeWrite
  <2>2. PICK p \in GenPath, place \in Writing \cup {"idle"} : WriteStep(p, place)
    BY <1>10, SomeWrite
  <2> QED BY <2>1, <2>2, WriteIsKnown
<1>11. CASE WriteEnd
  BY <1>11 DEF DiskInv, GenTypeInv, CallOK, Writing, selection, call, output, WriteEnd
<1>12. CASE WriteGeneration
  <2>1. gpc \in Writing BY <1>12, SomeWrite
  <2>2. PICK p \in GenPath, place \in Writing \cup {"idle"} : WriteStep(p, place)
    BY <1>12, SomeWrite
  <2> QED BY <2>1, <2>2, WriteIsKnown
<1>13. CASE WriteMetadata
  <2>1. gpc \in Writing BY <1>13, SomeWrite
  <2>2. PICK p \in GenPath, place \in Writing \cup {"idle"} : WriteStep(p, place)
    BY <1>13, SomeWrite
  <2> QED BY <2>1, <2>2, WriteIsKnown
<1>14. CASE Interrupt
  BY <1>14 DEF DiskInv, GenTypeInv, CallOK, Writing, selection, call, output, End,
    Interrupt
<1>15. ASSUME NEW s \in Suite, Answer(s) PROVE DiskInv'
  BY <1>15 DEF DiskInv, GenTypeInv, CallOK, Writing, selection, output, Answer,
    Request
<1>16. ASSUME NEW m \in {"dry", "file", "live"}, NEW f \in BOOLEAN, Invoke(m, f) PROVE DiskInv'
  <2>1. gen' = gen + 1 /\ gpc' = "rank" /\ UNCHANGED <<disk, writer>>
    BY <1>16 DEF Invoke, output
  <2>2. gen \in Nat /\ writer.gen \in Nat
    BY ConstantFacts DEF GenTypeInv, CallOK, AnswerOK
  <2>3. \A p \in GenPath : disk[p].gen \in Nat
    BY ConstantFacts DEF GenTypeInv, DiskOK, Content
  <2> QED BY <2>1, <2>2, <2>3 DEF DiskInv, Writing
<1>17. ASSUME NEW p \in GenPath, UserWrites(p) PROVE DiskInv'
  <2>1. \A q \in GenPath : disk'[q] = IF q = p THEN Whole(0) ELSE disk[q]
    BY <1>17, UserContents DEF GenTypeInv
  <2>2. UNCHANGED <<gen, gpc, writer, force>> /\ gen > 0 BY <1>17 DEF UserWrites
  <2> QED BY <2>1, <2>2 DEF DiskInv, Whole, GenTypeInv, CallOK
<1>18. CASE UNCHANGED genVars
  BY <1>18 DEF DiskInv, GenTypeInv, CallOK, Writing, selection, call, output, End,
    genVars
<1> QED
  BY <1>1, <1>2, <1>3, <1>4, <1>5, <1>6, <1>7, <1>8, <1>9, <1>10, <1>11, <1>12, <1>13,
    <1>14, <1>15, <1>16, <1>17, <1>18 DEF GenNext, GenStep


LEMMA DiskInvInit ==
  ASSUME GenInit
  PROVE  DiskInv
<1>1. gpc = "idle" /\ gen = 0 /\ writer.gen = 0 BY DEF GenInit
<1>2. \A p \in GenPath : disk[p].st = "none" /\ disk[p].gen = 0
  BY DEF GenInit, Absent
<1> QED BY <1>1, <1>2 DEF DiskInv, Writing

LEMMA DiskInvAlways == GenSpec => [](DiskInv /\ GenTypeInv)
<1>1. DiskInv /\ GenTypeInv /\ [GenNext]_genVars => (DiskInv /\ GenTypeInv)'
  BY DiskInvStep, GenTypeStep
<1> QED BY <1>1, DiskInvInit, GenTypeInit, PTL DEF GenSpec

\* Without --force a run begins with nothing and writes only its own number.
LEMMA MixStep ==
  ASSUME NoMixing, DiskInv, GenTypeInv, [GenNext]_genVars
  PROVE  NoMixing'
<1>1. CASE Rank
  BY <1>1 DEF NoMixing, call, output, Rank
<1>2. CASE RankEnd
  BY <1>2 DEF NoMixing, selection, call, output, RankEnd
<1>3. CASE Select
  BY <1>3 DEF NoMixing, call, output, Select
<1>4. CASE SelectEnd
  BY <1>4 DEF NoMixing, selection, call, output, End, SelectEnd
<1>5. CASE TransientError
  BY <1>5 DEF NoMixing, selection, output, End, TransientError, Request
<1>6. CASE FatalError
  BY <1>6 DEF NoMixing, selection, output, End, FatalError, Request
<1>7. CASE NoKey
  BY <1>7 DEF NoMixing, selection, call, output, End, NoKey
<1>8. CASE Reject
  BY <1>8 DEF NoMixing, selection, call, output, End, Reject
<1>9. CASE Accept
  <2>1. /\ UNCHANGED <<disk, force>> /\ Acceptable(answer)
        /\ writer' = [gen |-> gen, suite |-> answer, force |-> force,
                      before |-> {p \in GenPath : Exists(p)}]
    BY <1>9 DEF Accept
  <2>2. writer'.gen = gen /\ writer'.force = force BY <2>1
  <2>3. ~force => \A p \in GenPath : disk[p].gen = 0
    BY <2>1 DEF Acceptable, Exists, DiskInv
  <2> QED BY <2>1, <2>2, <2>3 DEF NoMixing
<1>10. CASE WriteFile
  <2>1. gpc \in Writing BY <1>10, SomeWrite
  <2>2. PICK p \in GenPath, place \in Writing \cup {"idle"} : WriteStep(p, place)
    BY <1>10, SomeWrite
  <2>3. \A q \in GenPath : disk'[q].gen \in {disk[q].gen, gen}
    BY <2>2, WriteContents DEF GenTypeInv
  <2>4. UNCHANGED writer /\ writer.gen = gen BY <2>1, <2>2 DEF WriteStep, DiskInv
  <2> QED BY <2>3, <2>4 DEF NoMixing
<1>11. CASE WriteEnd
  BY <1>11 DEF NoMixing, selection, call, output, WriteEnd
<1>12. CASE WriteGeneration
  <2>1. gpc \in Writing BY <1>12, SomeWrite
  <2>2. PICK p \in GenPath, place \in Writing \cup {"idle"} : WriteStep(p, place)
    BY <1>12, SomeWrite
  <2>3. \A q \in GenPath : disk'[q].gen \in {disk[q].gen, gen}
    BY <2>2, WriteContents DEF GenTypeInv
  <2>4. UNCHANGED writer /\ writer.gen = gen BY <2>1, <2>2 DEF WriteStep, DiskInv
  <2> QED BY <2>3, <2>4 DEF NoMixing
<1>13. CASE WriteMetadata
  <2>1. gpc \in Writing BY <1>13, SomeWrite
  <2>2. PICK p \in GenPath, place \in Writing \cup {"idle"} : WriteStep(p, place)
    BY <1>13, SomeWrite
  <2>3. \A q \in GenPath : disk'[q].gen \in {disk[q].gen, gen}
    BY <2>2, WriteContents DEF GenTypeInv
  <2>4. UNCHANGED writer /\ writer.gen = gen BY <2>1, <2>2 DEF WriteStep, DiskInv
  <2> QED BY <2>3, <2>4 DEF NoMixing
<1>14. CASE Interrupt
  BY <1>14 DEF NoMixing, selection, call, output, End, Interrupt
<1>15. ASSUME NEW s \in Suite, Answer(s) PROVE NoMixing'
  BY <1>15 DEF NoMixing, selection, output, Answer, Request
<1>16. ASSUME NEW m \in {"dry", "file", "live"}, NEW f \in BOOLEAN, Invoke(m, f) PROVE NoMixing'
  BY <1>16 DEF NoMixing, output, Invoke
<1>17. ASSUME NEW p \in GenPath, UserWrites(p) PROVE NoMixing'
  <2>1. \A q \in GenPath : disk'[q] = IF q = p THEN Whole(0) ELSE disk[q]
    BY <1>17, UserContents DEF GenTypeInv
  <2>2. UNCHANGED writer BY <1>17 DEF UserWrites
  <2> QED BY <2>1, <2>2 DEF NoMixing, Whole
<1>18. CASE UNCHANGED genVars
  BY <1>18 DEF NoMixing, selection, call, output, End, genVars
<1> QED
  BY <1>1, <1>2, <1>3, <1>4, <1>5, <1>6, <1>7, <1>8, <1>9, <1>10, <1>11, <1>12, <1>13,
    <1>14, <1>15, <1>16, <1>17, <1>18 DEF GenNext, GenStep

\* Without --force a directory never holds files of two generations, whichever
\* runs failed half way or were killed before.
THEOREM OneGeneration == GenSpec => []NoMixing
<1>1. GenInit => NoMixing
  <2>1. GenInit => writer.gen = 0 BY DEF GenInit
  <2> QED BY <2>1 DEF NoMixing
<1>2. NoMixing /\ DiskInv /\ GenTypeInv /\ [GenNext]_genVars => NoMixing'
  BY MixStep
<1> QED BY <1>1, <1>2, DiskInvAlways, PTL DEF GenSpec

\* What NothingOverwritten says of one step.
Kept ==
  ~force => \A p \in GenPath :
    disk[p].st # "none" /\ (gpc \in Writing => p \in writer.before) => disk'[p] = disk[p]

\* Only a run that writes and someone else touch a file.
LEMMA OverwriteStep ==
  ASSUME DiskInv, GenTypeInv, [GenNext]_genVars
  PROVE  Kept
<1>1. CASE Rank
  BY <1>1 DEF Kept, call, output, Rank
<1>2. CASE RankEnd
  BY <1>2 DEF Kept, selection, call, output, RankEnd
<1>3. CASE Select
  BY <1>3 DEF Kept, call, output, Select
<1>4. CASE SelectEnd
  BY <1>4 DEF Kept, selection, call, output, End, SelectEnd
<1>5. CASE TransientError
  BY <1>5 DEF Kept, selection, output, End, TransientError, Request
<1>6. CASE FatalError
  BY <1>6 DEF Kept, selection, output, End, FatalError, Request
<1>7. CASE NoKey
  BY <1>7 DEF Kept, selection, call, output, End, NoKey
<1>8. CASE Reject
  BY <1>8 DEF Kept, selection, call, output, End, Reject
<1>9. CASE Accept
  BY <1>9 DEF Kept, selection, call, Accept
<1>10. CASE WriteFile
  BY <1>10, SomeWrite DEF DiskInv, Kept
<1>11. CASE WriteEnd
  BY <1>11 DEF Kept, selection, call, output, WriteEnd
<1>12. CASE WriteGeneration
  BY <1>12, SomeWrite DEF DiskInv, Kept
<1>13. CASE WriteMetadata
  BY <1>13, SomeWrite DEF DiskInv, Kept
<1>14. CASE Interrupt
  BY <1>14 DEF Kept, selection, call, output, End, Interrupt
<1>15. ASSUME NEW s \in Suite, Answer(s) PROVE Kept
  BY <1>15 DEF Kept, selection, output, Answer, Request
<1>16. ASSUME NEW m \in {"dry", "file", "live"}, NEW f \in BOOLEAN, Invoke(m, f) PROVE Kept
  BY <1>16 DEF Kept, output, Invoke
<1>17. ASSUME NEW p \in GenPath, UserWrites(p) PROVE Kept
  BY <1>17, UserContents DEF GenTypeInv, Kept
<1>18. CASE UNCHANGED genVars
  BY <1>18 DEF Kept, selection, call, output, End, genVars
<1> QED
  BY <1>1, <1>2, <1>3, <1>4, <1>5, <1>6, <1>7, <1>8, <1>9, <1>10, <1>11, <1>12, <1>13,
    <1>14, <1>15, <1>16, <1>17, <1>18 DEF GenNext, GenStep

\* Without --force no step changes a file that the program found there.
THEOREM FilesKept == GenSpec => NothingOverwritten
<1>1. DiskInv /\ GenTypeInv /\ [GenNext]_genVars => [Kept]_genVars
  BY OverwriteStep
<1>2. [][Kept]_genVars => NothingOverwritten BY PTL DEF NothingOverwritten, Kept
<1> QED BY <1>1, <1>2, DiskInvAlways, PTL DEF GenSpec

-----------------------------------------------------------------------------
(* generation_metadata.json                                                 *)

\* The files that the last run to write has completed.
Filled == {p \in GenPath : disk[p] = Whole(writer.gen)}
Done(n) == {Target[writer.suite.names[i]] : i \in 1..n}
MetaInv == writer.gen > 0 /\ Unlinked(writer.suite) =>
  /\ Targets(writer.suite) \subseteq GenPath \ {GenJson, MetaJson}
  /\ Cardinality(Targets(writer.suite)) = Len(writer.suite.names)
  /\ gpc = "write" => /\ written <= Len(writer.suite.names)
                      /\ Filled = Done(written)
  /\ gpc = "generation" => Filled = Targets(writer.suite)
  /\ gpc = "metadata" => Filled = Targets(writer.suite) \cup {GenJson}
  /\ gpc \notin Writing /\ MetaJson \in Filled =>
       Filled = Targets(writer.suite) \cup {GenJson, MetaJson}

\* The paths of directory d that hold a whole file of run g.
Complete(d, g) == {p \in GenPath : d[p] = Whole(g)}

\* A write adds its path to the completed files, or ends the run.
LEMMA FilledByWrite ==
  ASSUME GenTypeInv, writer.gen = gen, NEW p \in GenPath, NEW place, WriteStep(p, place),
         MetaJson \notin Filled
  PROVE  /\ gpc' = place \/ gpc' = "idle"
         /\ gpc' # "idle" => Filled' = Filled \cup {p}
         /\ p # MetaJson => MetaJson \notin Filled'
         /\ MetaJson \in Filled' => Filled' = Filled \cup {p}
<1>1. UNCHANGED writer BY DEF WriteStep
<1>2. Filled' = Complete(disk', gen) /\ Filled = Complete(disk, gen)
  BY <1>1 DEF Filled, Complete
<1>3. disk \in [GenPath -> Content] BY DEF GenTypeInv, DiskOK
<1>4. CASE disk' = [disk EXCEPT ![p] = Whole(gen)] /\ gpc' = place
  <2>1. Filled' = Filled \cup {p} BY <1>2, <1>3, <1>4 DEF Complete
  <2> QED BY <1>4, <2>1
<1>5. CASE disk' = [disk EXCEPT ![p] = Torn(gen)] /\ gpc' = "idle"
  <2>1. Torn(gen) # Whole(gen) BY DEF Torn, Whole
  <2>2. Filled' = Filled \ {p} BY <1>2, <1>3, <1>5, <2>1 DEF Complete
  <2> QED BY <1>5, <2>2
<1>6. CASE disk' = disk /\ gpc' = "idle"
  BY <1>2, <1>6 DEF Complete
<1> QED BY <1>4, <1>5, <1>6 DEF WriteStep

\* The files of the suite that are written come from its entries, one by one.
LEMMA DoneTargets ==
  ASSUME AnswerOK, written <= Len(writer.suite.names)
  PROVE  Done(written) \subseteq Targets(writer.suite)
<1>1. written \in Nat /\ Len(writer.suite.names) \in Nat
  BY SuiteNames DEF AnswerOK
<1> QED BY <1>1 DEF Done, Targets

LEMMA MoreDone ==
  ASSUME AnswerOK, written < Len(writer.suite.names)
  PROVE  /\ Entry \in Targets(writer.suite)
         /\ Done(written + 1) = Done(written) \cup {Entry}
<1>1. written \in Nat /\ Len(writer.suite.names) \in Nat
  BY SuiteNames DEF AnswerOK
<1>2. 1..(written + 1) = (1..written) \cup {written + 1} BY <1>1
<1>3. written + 1 \in 1..Len(writer.suite.names) BY <1>1
<1> QED BY <1>2, <1>3 DEF Done, Targets, Entry

\* Until its last write a run has no metadata.
LEMMA NotYet ==
  ASSUME MetaInv, AnswerOK, writer.gen > 0, Unlinked(writer.suite), gpc \in Writing
  PROVE  MetaJson \notin Filled
<1>1. CASE gpc = "write" BY <1>1, DoneTargets DEF MetaInv
<1>2. CASE gpc = "generation" BY <1>2 DEF MetaInv
<1>3. CASE gpc = "metadata" BY <1>3, PathAssumption DEF MetaInv
<1> QED BY <1>1, <1>2, <1>3 DEF Writing

\* A step that neither writes nor begins to.
LEMMA NoWriter ==
  ASSUME MetaInv, UNCHANGED <<disk, writer>>, gpc \notin Writing, gpc' \notin Writing
  PROVE  MetaInv'
<1>1. UNCHANGED <<Targets(writer.suite), Filled, Unlinked(writer.suite)>>
  BY DEF Targets, Filled, Unlinked
<1> QED BY <1>1 DEF MetaInv, Writing

\* The files are completed in the order of the entries, generation.json and
\* the metadata after them.
LEMMA MetaStep ==
  ASSUME MetaInv, DiskInv, GenTypeInv, [GenNext]_genVars
  PROVE  MetaInv'
<1>1. CASE Rank
  BY NoWriter, <1>1 DEF Writing, call, output, Rank
<1>2. CASE RankEnd
  BY NoWriter, <1>2 DEF Writing, selection, call, output, RankEnd
<1>3. CASE Select
  BY NoWriter, <1>3 DEF Writing, call, output, Select
<1>4. CASE SelectEnd
  BY NoWriter, <1>4 DEF Writing, selection, call, output, End, SelectEnd
<1>5. CASE TransientError
  BY NoWriter, <1>5 DEF Writing, selection, output, End, TransientError, Request
<1>6. CASE FatalError
  BY NoWriter, <1>6 DEF Writing, selection, output, End, FatalError, Request
<1>7. CASE NoKey
  BY NoWriter, <1>7 DEF Writing, selection, call, output, End, NoKey
<1>8. CASE Reject
  BY NoWriter, <1>8 DEF Writing, selection, call, output, End, Reject
<1>9. CASE Accept
  <2>1. /\ gpc = "check" /\ gpc' = "write" /\ UNCHANGED disk /\ Acceptable(answer)
        /\ writer' = [gen |-> gen, suite |-> answer, force |-> force,
                      before |-> {p \in GenPath : Exists(p)}]
        /\ written' = 0
    BY <1>9 DEF Accept
  <2>2. writer'.gen = gen /\ writer'.suite = answer BY <2>1
  <2>3. \A p \in GenPath : disk[p].gen < gen BY <2>1 DEF DiskInv
  <2>4. Filled' = {}
    <3>1. gen \in Nat BY ConstantFacts DEF GenTypeInv, CallOK
    <3>2. Filled' = Complete(disk, gen) BY <2>1, <2>2 DEF Filled, Complete
    <3> QED BY <2>3, <3>1, <3>2 DEF Complete, Whole
  <2>5. Done(written)' = {}
    <3>1. Done(written)' = {Target[answer.names[i]] : i \in 1..0}
      BY <2>1, <2>2 DEF Done
    <3>2. 1..0 = {} OBVIOUS
    <3> QED BY <3>1, <3>2
  <2>6. answer \in Suite \cup {NoSuite} BY DEF GenTypeInv, AnswerOK
  <2>7. Unlinked(answer) => Targets(answer) \subseteq GenPath \ {GenJson, MetaJson}
    BY <2>1, <2>6, SafeTargets DEF Acceptable, Targets, Unlinked
  <2>8. Cardinality(Targets(answer)) = Len(answer.names) /\ 0 <= Len(answer.names)
    BY <2>1, <2>6, SuiteNames DEF Acceptable
  <2>9. /\ Targets(writer.suite)' = Targets(answer)
        /\ Unlinked(writer.suite)' = Unlinked(answer)
    BY <2>2 DEF Targets, Unlinked
  <2> QED BY <2>1, <2>2, <2>4, <2>5, <2>7, <2>8, <2>9 DEF MetaInv, Writing
<1>10. CASE WriteFile
  <2>1. /\ written < Len(writer.suite.names) /\ written' = written + 1
        /\ gpc = "write" /\ WriteStep(Entry, "write")
    BY <1>10, WriteFileStep DEF WriteFile
  <2>2. gpc \in Writing /\ Entry \in GenPath BY <1>10, <2>1, EntryPath DEF Writing
  <2> SUFFICES ASSUME writer.gen > 0, Unlinked(writer.suite) PROVE MetaInv'
    BY <2>1 DEF MetaInv, Unlinked, Targets, WriteStep
  <2>3. Entry \in Targets(writer.suite) /\ Done(written + 1) = Done(written) \cup {Entry}
    BY <2>1, MoreDone DEF GenTypeInv
  <2>4. MetaJson \notin Done(written) /\ MetaJson # Entry
    BY <2>1, <2>3, DoneTargets DEF MetaInv, GenTypeInv
  <2>5. Filled = Done(written) BY <2>1 DEF MetaInv
  <2>6. /\ gpc' = "write" => Filled' = Filled \cup {Entry}
        /\ gpc' # "write" => gpc' = "idle" /\ MetaJson \notin Filled'
    BY <2>1, <2>2, <2>4, <2>5, FilledByWrite DEF DiskInv
  <2>7. UNCHANGED <<writer, Targets(writer.suite)>> BY <2>1 DEF WriteStep, Targets
  <2>8. gpc' = "write" => Filled' = Done(written)'
    <3>1. Done(written)' = Done(written + 1) BY <2>1, <2>7 DEF Done
    <3> QED BY <3>1, <2>3, <2>5, <2>6
  <2>9. written' <= Len(writer.suite.names)
    BY <2>1, SuiteNames DEF GenTypeInv, AnswerOK
  <2> QED BY <2>6, <2>7, <2>8, <2>9 DEF MetaInv, Writing
<1>11. CASE WriteEnd
  <2>1. /\ written = Len(writer.suite.names) /\ gpc = "write" /\ gpc' = "generation"
        /\ UNCHANGED <<writer, disk>>
    BY <1>11 DEF WriteEnd, output
  <2>2. UNCHANGED <<writer, Targets(writer.suite), Filled>> BY <2>1 DEF Targets, Filled
  <2>3. Done(written) = Targets(writer.suite) BY <2>1 DEF Done, Targets
  <2> QED BY <2>1, <2>2, <2>3 DEF MetaInv, Writing
<1>12. CASE WriteGeneration
  <2>1. gpc = "generation" /\ WriteStep(GenJson, "metadata") BY <1>12, WriteGenerationStep
  <2> SUFFICES ASSUME writer.gen > 0, Unlinked(writer.suite) PROVE MetaInv'
    BY <2>1 DEF MetaInv, Unlinked, Targets, WriteStep
  <2>2. gpc \in Writing /\ GenJson \in GenPath /\ MetaJson # GenJson
    BY <2>1, PathAssumption DEF Writing
  <2>3. Filled = Targets(writer.suite) /\ MetaJson \notin Filled BY <2>1 DEF MetaInv
  <2>4. /\ gpc' = "metadata" => Filled' = Filled \cup {GenJson}
        /\ gpc' # "metadata" => gpc' = "idle" /\ MetaJson \notin Filled'
    BY <2>1, <2>2, <2>3, FilledByWrite DEF DiskInv
  <2>5. UNCHANGED <<writer, Targets(writer.suite)>> BY <2>1 DEF WriteStep, Targets
  <2> QED BY <2>3, <2>4, <2>5 DEF MetaInv, Writing
<1>13. CASE WriteMetadata
  <2>1. gpc = "metadata" /\ WriteStep(MetaJson, "idle") BY <1>13, WriteMetadataStep
  <2> SUFFICES ASSUME writer.gen > 0, Unlinked(writer.suite) PROVE MetaInv'
    BY <2>1 DEF MetaInv, Unlinked, Targets, WriteStep
  <2>2. gpc \in Writing /\ MetaJson \in GenPath BY <2>1, PathAssumption DEF Writing
  <2>3. Filled = Targets(writer.suite) \cup {GenJson} BY <2>1 DEF MetaInv
  <2>4. MetaJson \notin Filled BY <2>3, PathAssumption DEF MetaInv
  <2>5. MetaJson \in Filled' => Filled' = Filled \cup {MetaJson}
    BY <2>1, <2>2, <2>4, FilledByWrite DEF DiskInv
  <2>6. UNCHANGED <<writer, Targets(writer.suite)>> /\ gpc' = "idle"
    BY <2>1 DEF WriteStep, Targets
  <2> QED BY <2>3, <2>5, <2>6 DEF MetaInv, Writing
<1>14. CASE Interrupt
  <2>1. gpc' = "idle" /\ UNCHANGED <<writer, written, disk>>
    BY <1>14 DEF Interrupt, End, output
  <2>2. UNCHANGED <<Targets(writer.suite), Filled, Unlinked(writer.suite)>>
    BY <2>1 DEF Targets, Filled, Unlinked
  <2>3. writer.gen > 0 /\ Unlinked(writer.suite) /\ gpc \in Writing => MetaJson \notin Filled
    BY NotYet DEF GenTypeInv
  <2> QED BY <2>1, <2>2, <2>3 DEF MetaInv, Writing
<1>15. ASSUME NEW s \in Suite, Answer(s) PROVE MetaInv'
  BY NoWriter, <1>15 DEF Writing, selection, output, Answer, Request
<1>16. ASSUME NEW m \in {"dry", "file", "live"}, NEW f \in BOOLEAN, Invoke(m, f) PROVE MetaInv'
  BY NoWriter, <1>16 DEF Writing, output, Invoke
<1>17. ASSUME NEW p \in GenPath, UserWrites(p) PROVE MetaInv'
  <2>1. UNCHANGED <<writer, written, gpc>> BY <1>17 DEF UserWrites
  <2> SUFFICES ASSUME writer.gen > 0, Unlinked(writer.suite) PROVE MetaInv'
    BY <2>1 DEF MetaInv, Unlinked, Targets
  <2>2. Filled' = Filled
    <3>1. /\ \A q \in GenPath : disk'[q] = IF q = p THEN Whole(0) ELSE disk[q]
          /\ disk[p].st = "none"
      BY <1>17, UserContents DEF GenTypeInv
    <3>2. disk[p] # Whole(writer.gen) /\ Whole(0) # Whole(writer.gen)
      BY <3>1 DEF Whole
    <3> QED BY <2>1, <3>1, <3>2 DEF Filled
  <2>3. UNCHANGED <<Targets(writer.suite), Done(written)>> BY <2>1 DEF Targets, Done
  <2> QED BY <2>1, <2>2, <2>3 DEF MetaInv
<1>18. CASE UNCHANGED genVars
  <2>1. UNCHANGED <<writer, written, disk, gpc>> BY <1>18 DEF genVars, output
  <2>2. UNCHANGED <<Targets(writer.suite), Filled, Unlinked(writer.suite), Done(written)>>
    BY <2>1 DEF Targets, Filled, Unlinked, Done
  <2> QED BY <2>1, <2>2 DEF MetaInv
<1> QED
  BY <1>1, <1>2, <1>3, <1>4, <1>5, <1>6, <1>7, <1>8, <1>9, <1>10, <1>11, <1>12, <1>13,
    <1>14, <1>15, <1>16, <1>17, <1>18 DEF GenNext, GenStep

\* When the metadata of the last generation is there, so is all it describes.
THEOREM MetadataLast == GenSpec => []MetadataMeansComplete
<1>1. GenInit => MetaInv
  <2>1. GenInit => writer.gen = 0 BY DEF GenInit
  <2> QED BY <2>1 DEF MetaInv
<1>2. MetaInv /\ DiskInv /\ GenTypeInv /\ [GenNext]_genVars => MetaInv'
  BY MetaStep
<1>3. MetaInv /\ GenTypeInv => MetadataMeansComplete
  <2> SUFFICES ASSUME MetaInv, GenTypeInv, writer.gen > 0, Unlinked(writer.suite),
                      disk[MetaJson] = Whole(writer.gen)
               PROVE  /\ \A p \in Targets(writer.suite) \cup {GenJson} :
                           disk[p] = Whole(writer.gen)
                      /\ Cardinality({p \in GenPath : disk[p] = Whole(writer.gen)})
                           = Len(writer.suite.names) + 2
    BY DEF MetadataMeansComplete
  <2> DEFINE T == Targets(writer.suite)
  <2>1. MetaJson \in Filled BY PathAssumption DEF Filled
  <2>2. gpc \notin Writing BY <2>1, NotYet DEF GenTypeInv
  <2>3. /\ Filled = T \cup {GenJson, MetaJson} /\ Cardinality(T) = Len(writer.suite.names)
        /\ T \subseteq GenPath \ {GenJson, MetaJson}
    BY <2>1, <2>2 DEF MetaInv
  <2>4. Cardinality(Filled) = Len(writer.suite.names) + 2
    <3>1. IsFiniteSet(T) /\ Cardinality(T) \in Nat
      BY SuiteFinite DEF GenTypeInv, AnswerOK
    <3>2. /\ IsFiniteSet(T \cup {GenJson})
          /\ Cardinality(T \cup {GenJson}) = Cardinality(T) + 1
      BY <2>3, <3>1, FS_AddElement
    <3>3. Cardinality((T \cup {GenJson}) \cup {MetaJson}) = Cardinality(T) + 1 + 1
      <4>1. MetaJson \notin T \cup {GenJson} BY <2>3, PathAssumption
      <4> QED BY <3>2, <4>1, FS_AddElement
    <3>4. Filled = (T \cup {GenJson}) \cup {MetaJson} BY <2>3
    <3>5. \A n \in Nat : n + 1 + 1 = n + 2 OBVIOUS
    <3>6. Cardinality(Filled) = Cardinality(T) + 2 BY <3>1, <3>3, <3>4, <3>5
    <3> QED BY <2>3, <3>6
  <2> QED BY <2>3, <2>4 DEF Filled
<1> QED BY <1>1, <1>2, <1>3, DiskInvAlways, PTL DEF GenSpec

-----------------------------------------------------------------------------
(* The selection                                                            *)

\* Every candidate is in its bucket or in the ranking; the buckets are empty
\* once the ranking is over.
RankInv ==
  /\ \A c \in CategorySet : \A f \in buckets[c] : CandidateCategory(f) = c
  /\ gpc \in {"rank", "select", "answer"} =>
       \A f \in project : IsCandidate(f) =>
         f \in buckets[CandidateCategory(f)] \/ \E i \in 1..Len(ranked) : ranked[i] = f
  /\ gpc \in {"select", "answer"} => \A c \in CategorySet : buckets[c] = {}

\* A file of the ranking that has been looked at was unreadable or was selected,
\* or it did not fit, and still does not.
Settled(f) ==
  \/ ~Readable(f)
  \/ \E j \in 1..Len(selected) : selected[j] = f
  \/ used + Tree[f].chars > MaxContextChars
SelectInv ==
  /\ gpc = "rank" => index = 0 /\ selected = <<>> /\ used = 0
  /\ gpc \in {"rank", "select", "answer"} =>
       /\ used <= MaxContextChars /\ Len(selected) <= MaxFiles
       /\ \A i \in 1..index : Settled(ranked[i])
  /\ gpc = "answer" => SelectionOver

\* The round robin: the categories before turn have had one more turn than the
\* others, and while a category has candidates left it has used all its turns.
Ahead(i) == IF i < turn THEN 1 ELSE 0
TurnInv ==
  \A i, j \in 1..4 : buckets[Category[i]] # {} =>
    Share(Category[j]) + Ahead(i) <= Share(Category[i]) + Ahead(j)

\* How many files of sequence s are in category c, and what one more does.
ShareOf(s, c) == Cardinality({i \in 1..Len(s) : CandidateCategory(s[i]) = c})

LEMMA ShareGrows ==
  ASSUME NEW s \in Seq(Files), NEW x \in Files, NEW c
  PROVE  /\ ShareOf(s, c) \in Nat
         /\ CandidateCategory(x) = c => ShareOf(Append(s, x), c) = ShareOf(s, c) + 1
         /\ CandidateCategory(x) # c => ShareOf(Append(s, x), c) = ShareOf(s, c)
<1> DEFINE In(z) == {i \in 1..Len(z) : CandidateCategory(z[i]) = c}
           y == Append(s, x)
           n == Len(s) + 1
<1>1. Len(s) \in Nat BY LenProperties
<1>2. /\ Len(y) = n /\ y[n] = x /\ \A i \in 1..Len(s) : y[i] = s[i]
  BY AppendProperties
<1>3. IsFiniteSet(In(s)) /\ Cardinality(In(s)) \in Nat
  <2>1. IsFiniteSet(1..Len(s)) BY <1>1, FS_Interval
  <2>2. In(s) \subseteq 1..Len(s) OBVIOUS
  <2> QED BY <2>1, <2>2, FS_Subset, FS_CardinalityType
<1>4. 1..n = (1..Len(s)) \cup {n} /\ n \notin 1..Len(s) BY <1>1
<1>5. ASSUME CandidateCategory(x) = c PROVE In(y) = In(s) \cup {n} /\ n \notin In(s)
  <2> HIDE DEF y, n
  <2> QED BY <1>2, <1>4, <1>5
<1>6. ASSUME CandidateCategory(x) # c PROVE In(y) = In(s)
  <2> HIDE DEF y, n
  <2> QED BY <1>2, <1>4, <1>6
<1>7. CandidateCategory(x) = c => Cardinality(In(y)) = Cardinality(In(s)) + 1
  <2> HIDE DEF In, n
  <2> QED BY <1>3, <1>5, FS_AddElement
<1> QED BY <1>3, <1>6, <1>7 DEF ShareOf

LEMMA ShareType ==
  ASSUME NEW s \in Seq(Files), NEW c
  PROVE  ShareOf(s, c) \in Nat
<1> DEFINE S == {i \in 1..Len(s) : CandidateCategory(s[i]) = c}
<1>1. IsFiniteSet(1..Len(s)) BY LenProperties, FS_Interval
<1>2. S \subseteq 1..Len(s) OBVIOUS
<1> QED BY <1>1, <1>2, FS_Subset, FS_CardinalityType DEF ShareOf

\* A file stays settled when another is selected.
SettledIn(f, s, u) ==
  \/ ~Readable(f)
  \/ \E j \in 1..Len(s) : s[j] = f
  \/ u + Tree[f].chars > MaxContextChars

LEMMA SettledStays ==
  ASSUME NEW s \in Seq(Files), NEW u \in Nat, NEW g \in Files
  PROVE  /\ Len(Append(s, g)) = Len(s) + 1
         /\ SettledIn(g, Append(s, g), u + Tree[g].chars)
         /\ \A f \in Files : SettledIn(f, s, u) => SettledIn(f, Append(s, g), u + Tree[g].chars)
<1> DEFINE y == Append(s, g)
<1>1. /\ Len(s) \in Nat /\ Len(y) = Len(s) + 1 /\ y[Len(s) + 1] = g
      /\ \A i \in 1..Len(s) : y[i] = s[i]
  BY AppendProperties, LenProperties
<1>2. Len(s) + 1 \in 1..Len(y) /\ \A i \in 1..Len(s) : i \in 1..Len(y) BY <1>1
<1> HIDE DEF y
<1>3. SettledIn(g, y, u + Tree[g].chars) BY <1>1, <1>2 DEF SettledIn
<1>4. ASSUME NEW f \in Files, SettledIn(f, s, u) PROVE SettledIn(f, y, u + Tree[g].chars)
  <2>1. CASE u + Tree[f].chars > MaxContextChars
    <3>1. Tree[f].chars \in Nat /\ Tree[g].chars \in Nat /\ MaxContextChars \in Nat
      BY ConstantFacts
    <3>2. (u + Tree[g].chars) + Tree[f].chars > MaxContextChars BY <2>1, <3>1
    <3> QED BY <3>2 DEF SettledIn
  <2>2. ASSUME NEW j \in 1..Len(s), s[j] = f PROVE SettledIn(f, y, u + Tree[g].chars)
    BY <1>1, <1>2, <2>2 DEF SettledIn
  <2> QED BY <1>4, <2>1, <2>2 DEF SettledIn
<1> QED BY <1>1, <1>3, <1>4 DEF y

LEMMA WriteSelects ==
  ASSUME GenTypeInv, WriteFile \/ WriteGeneration \/ WriteMetadata
  PROVE  /\ gpc \in Writing /\ gpc' \in Writing \cup {"idle"}
         /\ UNCHANGED <<project, selection>>
BY SomeWrite DEF WriteStep

LEMMA SameTurn ==
  ASSUME TurnInv, UNCHANGED <<buckets, ranked, turn>>
  PROVE  TurnInv'
<1>1. \A c : Share(c)' = Share(c) BY DEF Share
<1>2. \A i : Ahead(i)' = Ahead(i) BY DEF Ahead
<1> QED BY <1>1, <1>2 DEF TurnInv

\* No candidate is lost on its way from its bucket to the ranking.
LEMMA RankStep ==
  ASSUME RankInv, GenTypeInv, [GenNext]_genVars
  PROVE  RankInv'
<1>1. CASE Rank
  <2>1. gpc = "rank" /\ gpc' = "rank" /\ UNCHANGED project BY <1>1 DEF Rank
  <2>2. SelectionOK /\ Len(ranked) \in Nat BY LenProperties DEF GenTypeInv, SelectionOK
  <2>3. CASE UNCHANGED <<ranked, buckets>>
    BY <2>1, <2>3 DEF RankInv
  <2>4. ASSUME NEW x \in Files, Ranks(Category[turn], x), Category[turn] \in CategorySet
        PROVE  RankInv'
    <3>1. /\ Len(ranked') = Len(ranked) + 1 /\ ranked'[Len(ranked) + 1] = x
          /\ \A i \in 1..Len(ranked) : ranked'[i] = ranked[i]
      BY <2>2, <2>4, AppendProperties DEF Ranks, SelectionOK
    <3>2. \A c \in CategorySet : buckets'[c] \subseteq buckets[c]
      BY <2>2, <2>4 DEF Ranks, SelectionOK
    <3>3. \A c \in CategorySet : \A f \in buckets[c] : f = x \/ f \in buckets'[c]
      BY <2>2, <2>4 DEF Ranks, SelectionOK
    <3>4. ASSUME NEW f \in project, IsCandidate(f)
          PROVE  \/ f \in buckets'[CandidateCategory(f)]
                 \/ \E i \in 1..Len(ranked') : ranked'[i] = f
      <4>1. CASE f \in buckets[CandidateCategory(f)]
        <5>1. f = x \/ f \in buckets'[CandidateCategory(f)] BY <3>3, <4>1, CategoryOf
        <5>2. Len(ranked) + 1 \in 1..Len(ranked') BY <2>2, <3>1
        <5> QED BY <3>1, <5>1, <5>2
      <4>2. ASSUME NEW i \in 1..Len(ranked), ranked[i] = f
            PROVE  \E k \in 1..Len(ranked') : ranked'[k] = f
        <5>1. i \in 1..Len(ranked') BY <2>2, <3>1
        <5> QED BY <3>1, <4>2, <5>1
      <4> QED BY <2>1, <3>4, <4>1, <4>2 DEF RankInv
    <3> QED BY <2>1, <3>2, <3>4 DEF RankInv
  <2> QED BY <1>1, <2>2, <2>3, <2>4, RankEffect
<1>2. CASE RankEnd
  BY <1>2 DEF RankInv, selection, call, output, RankEnd
<1>3. CASE Select
  BY <1>3 DEF RankInv, call, output, Select
<1>4. CASE SelectEnd
  BY <1>4 DEF RankInv, selection, call, output, End, SelectEnd
<1>5. CASE TransientError
  BY <1>5 DEF RankInv, selection, output, End, TransientError, Request
<1>6. CASE FatalError
  BY <1>6 DEF RankInv, selection, output, End, FatalError, Request
<1>7. CASE NoKey
  BY <1>7 DEF RankInv, selection, call, output, End, NoKey
<1>8. CASE Reject
  BY <1>8 DEF RankInv, selection, call, output, End, Reject
<1>9. CASE Accept
  BY <1>9 DEF RankInv, selection, call, Accept
<1>10. CASE WriteFile
  BY <1>10, WriteSelects DEF RankInv, selection, Writing
<1>11. CASE WriteEnd
  BY <1>11 DEF RankInv, selection, call, output, WriteEnd
<1>12. CASE WriteGeneration
  BY <1>12, WriteSelects DEF RankInv, selection, Writing
<1>13. CASE WriteMetadata
  BY <1>13, WriteSelects DEF RankInv, selection, Writing
<1>14. CASE Interrupt
  BY <1>14 DEF RankInv, selection, call, output, End, Interrupt
<1>15. ASSUME NEW s \in Suite, Answer(s) PROVE RankInv'
  BY <1>15 DEF RankInv, selection, output, Answer, Request
<1>16. ASSUME NEW m \in {"dry", "file", "live"}, NEW f \in BOOLEAN, Invoke(m, f) PROVE RankInv'
  <2>1. /\ gpc' = "rank" /\ UNCHANGED project
        /\ buckets' = [c \in CategorySet |->
                         {g \in project : IsCandidate(g) /\ CandidateCategory(g) = c}]
    BY <1>16 DEF Invoke
  <2>2. \A c \in CategorySet : \A g : g \in buckets'[c] <=>
          g \in project /\ IsCandidate(g) /\ CandidateCategory(g) = c
    BY <2>1
  <2> QED BY <2>1, <2>2, CategoryOf DEF RankInv
<1>17. ASSUME NEW p \in GenPath, UserWrites(p) PROVE RankInv'
  BY <1>17 DEF RankInv, selection, call, UserWrites
<1>18. CASE UNCHANGED genVars
  BY <1>18 DEF RankInv, selection, call, output, End, genVars
<1> QED
  BY <1>1, <1>2, <1>3, <1>4, <1>5, <1>6, <1>7, <1>8, <1>9, <1>10, <1>11, <1>12, <1>13,
    <1>14, <1>15, <1>16, <1>17, <1>18 DEF GenNext, GenStep

\* What has been looked at is settled.
LEMMA SelectStep ==
  ASSUME SelectInv, GenTypeInv, [GenNext]_genVars
  PROVE  SelectInv'
<1>1. CASE Rank
  BY <1>1 DEF SelectInv, Settled, SelectionOver, call, output, Rank
<1>2. CASE RankEnd
  BY <1>2 DEF SelectInv, Settled, SelectionOver, selection, call, output, RankEnd
<1>3. CASE Select
  <2> DEFINE f == ranked[index + 1]
  <2>1. /\ gpc = "select" /\ index' = index + 1 /\ UNCHANGED <<gpc, ranked>>
        /\ index # Len(ranked) /\ Len(selected) < MaxFiles
    <3>1. Len(selected) \in Nat BY LenProperties DEF GenTypeInv, SelectionOK
    <3> QED BY <1>3, <3>1, ConstantFacts DEF Select, SelectionOver
  <2>2. /\ selected \in Seq(Files) /\ used \in Nat /\ f \in Files /\ index \in Nat
        /\ \A i \in 1..index : ranked[i] \in Files
    BY <2>1 DEF GenTypeInv, SelectionOK
  <2>3. /\ used <= MaxContextChars
        /\ \A i \in 1..index : SettledIn(ranked[i], selected, used)
    BY <2>1 DEF SelectInv, Settled, SettledIn
  <2>4. CASE Readable(f) /\ used + Tree[f].chars <= MaxContextChars
    <3>1. selected' = Append(selected, f) /\ used' = used + Tree[f].chars
      BY <1>3, <2>4 DEF Select
    <3>2. /\ \A i \in 1..index : SettledIn(ranked[i], selected', used')
          /\ SettledIn(f, selected', used') /\ Len(selected') = Len(selected) + 1
      BY <2>2, <2>3, <3>1, SettledStays
    <3>3. \A i \in 1..(index + 1) : i \in 1..index \/ i = index + 1 BY <2>2
    <3>4. \A i \in 1..(index + 1) : SettledIn(ranked[i], selected', used') BY <3>2, <3>3
    <3>5. Len(selected') <= MaxFiles /\ used' <= MaxContextChars
      <4>1. Len(selected) \in Nat /\ MaxFiles \in Nat BY <2>2, LenProperties, ConstantFacts
      <4> QED BY <2>1, <2>4, <3>1, <3>2, <4>1
    <3> QED BY <2>1, <3>4, <3>5 DEF SelectInv, Settled, SettledIn
  <2>5. CASE ~(Readable(f) /\ used + Tree[f].chars <= MaxContextChars)
    <3>1. selected' = selected /\ used' = used BY <1>3, <2>5 DEF Select
    <3>2. SettledIn(f, selected, used)
      <4>1. Tree[f].chars \in Nat /\ MaxContextChars \in Nat BY <2>2, ConstantFacts
      <4> QED BY <2>2, <2>5, <4>1 DEF SettledIn
    <3>3. \A i \in 1..(index + 1) : i \in 1..index \/ i = index + 1 BY <2>2
    <3>4. \A i \in 1..(index + 1) : SettledIn(ranked[i], selected, used)
      BY <2>3, <3>2, <3>3
    <3>5. Len(selected) <= MaxFiles BY <2>1 DEF SelectInv
    <3> QED BY <2>1, <2>3, <3>1, <3>4, <3>5 DEF SelectInv, Settled, SettledIn
  <2> QED BY <2>4, <2>5
<1>4. CASE SelectEnd
  BY <1>4 DEF SelectInv, Settled, SelectionOver, selection, call, output, End,
    SelectEnd
<1>5. CASE TransientError
  BY <1>5 DEF SelectInv, Settled, SelectionOver, selection, output, End,
    TransientError, Request
<1>6. CASE FatalError
  BY <1>6 DEF SelectInv, Settled, SelectionOver, selection, output, End, FatalError,
    Request
<1>7. CASE NoKey
  BY <1>7 DEF SelectInv, Settled, SelectionOver, selection, call, output, End, NoKey
<1>8. CASE Reject
  BY <1>8 DEF SelectInv, Settled, SelectionOver, selection, call, output, End, Reject
<1>9. CASE Accept
  BY <1>9 DEF SelectInv, Settled, SelectionOver, selection, call, Accept
<1>10. CASE WriteFile
  BY <1>10, WriteSelects DEF SelectInv, Settled, SelectionOver, selection, Writing
<1>11. CASE WriteEnd
  BY <1>11 DEF SelectInv, Settled, SelectionOver, selection, call, output, WriteEnd
<1>12. CASE WriteGeneration
  BY <1>12, WriteSelects DEF SelectInv, Settled, SelectionOver, selection, Writing
<1>13. CASE WriteMetadata
  BY <1>13, WriteSelects DEF SelectInv, Settled, SelectionOver, selection, Writing
<1>14. CASE Interrupt
  BY <1>14 DEF SelectInv, Settled, SelectionOver, selection, call, output, End,
    Interrupt
<1>15. ASSUME NEW s \in Suite, Answer(s) PROVE SelectInv'
  BY <1>15 DEF SelectInv, Settled, SelectionOver, selection, output, Answer, Request
<1>16. ASSUME NEW m \in {"dry", "file", "live"}, NEW f \in BOOLEAN, Invoke(m, f) PROVE SelectInv'
  <2>1. gpc' = "rank" /\ index' = 0 /\ selected' = <<>> /\ used' = 0
    BY <1>16 DEF Invoke
  <2>2. 1..0 = {} /\ Len(<<>>) = 0 OBVIOUS
  <2> QED BY <2>1, <2>2, ConstantFacts DEF SelectInv
<1>17. ASSUME NEW p \in GenPath, UserWrites(p) PROVE SelectInv'
  BY <1>17 DEF SelectInv, Settled, SelectionOver, selection, call, UserWrites
<1>18. CASE UNCHANGED genVars
  BY <1>18 DEF SelectInv, Settled, SelectionOver, selection, call, output, End,
    genVars
<1> QED
  BY <1>1, <1>2, <1>3, <1>4, <1>5, <1>6, <1>7, <1>8, <1>9, <1>10, <1>11, <1>12, <1>13,
    <1>14, <1>15, <1>16, <1>17, <1>18 DEF GenNext, GenStep

\* The turns go round.
LEMMA TurnStep ==
  ASSUME TurnInv, RankInv, GenTypeInv, [GenNext]_genVars
  PROVE  TurnInv'
<1>1. CASE Rank
  <2>1. SelectionOK /\ turn \in 1..4 BY DEF GenTypeInv, SelectionOK
  <2>2. turn' = IF turn = 4 THEN 1 ELSE turn + 1 BY <1>1, <2>1 DEF Rank
  <2> DEFINE a(j) == ShareOf(ranked, Category[j])
             b(j) == ShareOf(ranked', Category[j])
             left(j) == buckets[Category[j]] # {}
             next(j) == buckets'[Category[j]] # {}
  <2>3. \A j \in 1..4 : a(j) \in Nat BY <2>1, ShareType DEF SelectionOK
  <2>4. \A i, j \in 1..4 : left(i) => a(j) + Ahead(i) <= a(i) + Ahead(j)
    BY DEF TurnInv, Share, ShareOf
  <2>5. \A i, j \in 1..4 : next(i) => b(j) + Ahead(i)' <= b(i) + Ahead(j)'
    <3>1. CASE buckets[Category[turn]] = {} /\ UNCHANGED <<ranked, buckets>>
      <4>1. \A j \in 1..4 : b(j) = a(j) /\ (next(j) => left(j) /\ j # turn) BY <3>1
      <4> HIDE DEF a, b, left, next
      <4> QED BY <2>1, <2>2, <2>3, <2>4, <4>1 DEF Ahead
    <3>2. ASSUME NEW x \in Files, Ranks(Category[turn], x)
          PROVE  \A i, j \in 1..4 : next(i) => b(j) + Ahead(i)' <= b(i) + Ahead(j)'
      <4>1. \A j \in 1..4 : CandidateCategory(x) = Category[j] <=> j = turn
        BY <2>1, <3>2, CategoryFacts DEF Ranks, RankInv
      <4>2. \A j \in 1..4 : b(j) = IF j = turn THEN a(j) + 1 ELSE a(j)
        BY <2>1, <3>2, <4>1, ShareGrows DEF Ranks, SelectionOK
      <4>3. \A j \in 1..4 : next(j) => left(j)
        BY <2>1, <3>2, CategoryFacts DEF Ranks, SelectionOK
      <4> HIDE DEF a, b, left, next
      <4> QED BY <2>1, <2>2, <2>3, <2>4, <4>2, <4>3 DEF Ahead
    <3> QED BY <1>1, <2>1, <3>1, <3>2, RankEffect
  <2> QED BY <2>5 DEF TurnInv, Share, ShareOf
<1>2. CASE RankEnd
  BY SameTurn, <1>2 DEF selection, selection, call, output, RankEnd
<1>3. CASE Select
  BY SameTurn, <1>3 DEF call, output, Select
<1>4. CASE SelectEnd
  BY SameTurn, <1>4 DEF selection, selection, call, output, End, SelectEnd
<1>5. CASE TransientError
  BY SameTurn, <1>5 DEF selection, selection, output, End, TransientError, Request
<1>6. CASE FatalError
  BY SameTurn, <1>6 DEF selection, selection, output, End, FatalError, Request
<1>7. CASE NoKey
  BY SameTurn, <1>7 DEF selection, selection, call, output, End, NoKey
<1>8. CASE Reject
  BY SameTurn, <1>8 DEF selection, selection, call, output, End, Reject
<1>9. CASE Accept
  BY SameTurn, <1>9 DEF selection, selection, call, Accept
<1>10. CASE WriteFile
  BY <1>10, WriteSelects, SameTurn DEF selection
<1>11. CASE WriteEnd
  BY SameTurn, <1>11 DEF selection, selection, call, output, WriteEnd
<1>12. CASE WriteGeneration
  BY <1>12, WriteSelects, SameTurn DEF selection
<1>13. CASE WriteMetadata
  BY <1>13, WriteSelects, SameTurn DEF selection
<1>14. CASE Interrupt
  BY SameTurn, <1>14 DEF selection, selection, call, output, End, Interrupt
<1>15. ASSUME NEW s \in Suite, Answer(s) PROVE TurnInv'
  BY SameTurn, <1>15 DEF selection, selection, output, Answer, Request
<1>16. ASSUME NEW m \in {"dry", "file", "live"}, NEW f \in BOOLEAN, Invoke(m, f) PROVE TurnInv'
  <2>1. turn' = 1 /\ ranked' = <<>> BY <1>16 DEF Invoke
  <2>2. \A j \in 1..4 : Share(Category[j])' = 0 /\ Ahead(j)' = 0
    <3>1. 1..Len(<<>>) = {} OBVIOUS
    <3>2. Cardinality({}) = 0 BY FS_EmptySet
    <3> QED BY <2>1, <3>1, <3>2 DEF Share, Ahead
  <2> QED BY <2>2 DEF TurnInv
<1>17. ASSUME NEW p \in GenPath, UserWrites(p) PROVE TurnInv'
  BY SameTurn, <1>17 DEF selection, selection, call, UserWrites
<1>18. CASE UNCHANGED genVars
  BY SameTurn, <1>18 DEF selection, call, output, End, genVars
<1> QED
  BY <1>1, <1>2, <1>3, <1>4, <1>5, <1>6, <1>7, <1>8, <1>9, <1>10, <1>11, <1>12, <1>13,
    <1>14, <1>15, <1>16, <1>17, <1>18 DEF GenNext, GenStep

\* The prompt is within its limits, wastes none of them, and no category drowns
\* another.
THEOREM SelectionIsFair == GenSpec => []SelectionFair
<1> DEFINE I == RankInv /\ SelectInv /\ TurnInv
<1>1. GenInit => I
  <2> SUFFICES ASSUME GenInit PROVE I OBVIOUS
  <2>1. gpc = "idle" /\ \A c \in CategorySet : buckets[c] = {} BY DEF GenInit
  <2>2. RankInv /\ SelectInv BY <2>1 DEF RankInv, SelectInv
  <2>3. TurnInv BY <2>1, CategoryFacts DEF TurnInv
  <2> QED BY <2>2, <2>3
<1>2. I /\ GenTypeInv /\ [GenNext]_genVars => I'
  BY RankStep, SelectStep, TurnStep
<1>3. I /\ GenTypeInv => SelectionFair
  <2> SUFFICES ASSUME I, GenTypeInv PROVE SelectionFair OBVIOUS
  <2>1. ASSUME gpc = "answer", Len(selected) < MaxFiles, NEW f \in project
        PROVE  \/ ~IsCandidate(f) \/ ~Readable(f)
               \/ \E i \in 1..Len(selected) : selected[i] = f
               \/ used + Tree[f].chars > MaxContextChars
    <3> SUFFICES ASSUME IsCandidate(f) PROVE Settled(f) BY DEF Settled
    <3>1. Len(selected) \in Nat /\ MaxFiles \in Nat
      BY LenProperties, ConstantFacts DEF GenTypeInv, SelectionOK
    <3>2. index = Len(ranked) BY <2>1, <3>1 DEF SelectInv, SelectionOver
    <3>3. \E i \in 1..Len(ranked) : ranked[i] = f BY <2>1, CategoryOf DEF RankInv
    <3> QED BY <2>1, <3>2, <3>3 DEF SelectInv
  <2>2. ASSUME NEW c \in CategorySet, NEW d \in CategorySet, buckets[c] # {}
        PROVE  Share(d) <= Share(c) + 1
    <3>1. PICK i \in 1..4, j \in 1..4 : Category[i] = c /\ Category[j] = d
      BY CategoryFacts
    <3>2. Share(d) + Ahead(i) <= Share(c) + Ahead(j) BY <2>2, <3>1 DEF TurnInv
    <3>3. Share(c) \in Nat /\ Share(d) \in Nat
      BY ShareType DEF GenTypeInv, SelectionOK, Share, ShareOf
    <3>4. Ahead(i) \in {0, 1} /\ Ahead(j) \in {0, 1} BY DEF Ahead
    <3> QED BY <3>2, <3>3, <3>4
  <2>3. gpc = "answer" => used <= MaxContextChars /\ Len(selected) <= MaxFiles
    BY DEF SelectInv
  <2> QED BY <2>1, <2>2, <2>3 DEF SelectionFair
<1> QED BY <1>1, <1>2, <1>3, GenTypeAlways, PTL DEF GenSpec
==============================================================================
