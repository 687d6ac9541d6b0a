------------------------ MODULE VerifyPipelineProofs ------------------------
(***************************************************************************)
(* Proofs about verify_llm_pipeline.sh.  The script does not change what   *)
(* its parts promise: its specification implements that of the generator,  *)
(* so that what GenerateTestsProofs proves holds in the pipeline, and it   *)
(* keeps the invariant of WrapRestoreProofs, taken here as WP for the one  *)
(* executable of the demo.  On top of that come the script's own results.  *)
(***************************************************************************)
EXTENDS VerifyPipeline, GenerateTestsProofs

WP == INSTANCE WrapRestoreProofs WITH
        Bin <- {Demo}, MaxVersion <- 1, Relinks <- FALSE,
        CanKill <- TRUE, CanFail <- TRUE

-----------------------------------------------------------------------------
(* The generator in the pipeline                                            *)

\* Every step of the pipeline is one of the generator or leaves it alone.
LEMMA GenPart ==
  ASSUME [PipelineNext]_pvars
  PROVE  [GenNext]_genVars
<1>1. CASE GeneratorStep
  BY <1>1 DEF GeneratorStep, GenNext
<1>2. CASE User
  BY <1>2 DEF User, GenNext
<1>3. CASE Setup
  BY <1>3 DEF pvars, fixed, docs, wrapVars, Then, Leave, Setup
<1>4. CASE CallGenerator
  BY <1>4 DEF CallGenerator, GenNext
<1>5. CASE GeneratorReturns
  BY <1>5 DEF pvars, fixed, docs, wrapVars, Then, Leave, GeneratorReturns
<1>6. CASE CopyTests
  BY <1>6 DEF pvars, fixed, docs, wrapVars, Then, Leave, CopyTests
<1>7. CASE MakeAll
  BY <1>7 DEF pvars, fixed, docs, Then, Leave, MakeAll
<1>8. CASE CallWrap
  BY <1>8 DEF pvars, fixed, docs, Then, Leave, CallWrap
<1>9. CASE WrapStep
  BY <1>9 DEF pvars, fixed, control, docs, WrapStep
<1>10. CASE WrapReturns
  BY <1>10 DEF pvars, fixed, docs, Then, Leave, WrapReturns
<1>11. CASE SetWrapped
  BY <1>11 DEF pvars, fixed, docs, wrapVars, Then, Leave, SetWrapped
<1>12. CASE RunCase
  BY <1>12 DEF pvars, fixed, RunCase
<1>13. CASE CaseDies
  BY <1>13 DEF pvars, fixed, wrapVars, CaseDies
<1>14. CASE CaseUnsaved
  BY <1>14 DEF pvars, fixed, wrapVars, CaseUnsaved
<1>15. CASE CheckEnd
  BY <1>15 DEF pvars, fixed, docs, wrapVars, Then, Leave, CheckEnd
<1>16. CASE Save
  BY <1>16 DEF pvars, fixed, wrapVars, Then, Leave, Save
<1>17. CASE Remove
  BY <1>17 DEF pvars, fixed, Then, Leave, Remove
<1>18. CASE Compare
  BY <1>18 DEF pvars, fixed, wrapVars, Leave, Compare
<1>19. CASE Trap
  BY <1>19 DEF pvars, fixed, docs, wrapVars, Trap
<1>20. CASE RestoreStep
  BY <1>20 DEF pvars, fixed, control, docs, RestoreStep
<1>21. CASE RestoreReturns
  BY <1>21 DEF pvars, fixed, docs, RestoreReturns
<1>22. CASE Interrupted
  BY <1>22 DEF Interrupted, GenNext
<1>23. CASE Crash
  BY <1>23 DEF Crash, GenNext
<1>24. CASE UNCHANGED pvars
  BY <1>24 DEF pvars, fixed, control, docs, wrapVars, pipeline
<1> QED
  BY <1>1, <1>2, <1>3, <1>4, <1>5, <1>6, <1>7, <1>8, <1>9, <1>10, <1>11, <1>12, <1>13,
    <1>14, <1>15, <1>16, <1>17, <1>18, <1>19, <1>20, <1>21, <1>22, <1>23, <1>24 DEF
    PipelineNext, Script

\* verify_llm_pipeline.sh uses the generator as its own specification allows.
THEOREM PipelineRunsGenerator == PipelineSpec => GenSpec
<1>1. PipelineInit => GenInit BY DEF PipelineInit
<1>2. [PipelineNext]_pvars => [GenNext]_genVars BY GenPart
<1> QED BY <1>1, <1>2, PTL DEF PipelineSpec, GenSpec

\* The prompt of every generation in the pipeline is fair.
THEOREM PipelineSelectionFair == PipelineSpec => []SelectionFair
BY PipelineRunsGenerator, SelectionIsFair, PTL

\* In the pipeline, too, metadata means a complete suite,
THEOREM PipelineMetadata == PipelineSpec => []MetadataMeansComplete
BY PipelineRunsGenerator, MetadataLast, PTL

\* a directory that was filled without --force holds one generation,
THEOREM PipelineOneGeneration == PipelineSpec => []NoMixing
BY PipelineRunsGenerator, OneGeneration, PTL

\* and nothing that the generator finds is overwritten without --force.
THEOREM PipelineFilesKept == PipelineSpec => NothingOverwritten
BY PipelineRunsGenerator, FilesKept, PTL

-----------------------------------------------------------------------------
(* The wrap and restore scripts in the pipeline                             *)

\* W and WP name the same specification.
LEMMA WrapSteps ==
  /\ W!Link(Demo) => WP!Next
  /\ W!RunTest(Demo) => WP!Next
  /\ W!WrapStart => WP!Next
  /\ W!RestoreStart => WP!Next
  /\ W!WrapEnd => WP!Next
  /\ W!RestoreEnd => WP!Next
  /\ W!Kill => WP!Next
  /\ W!CommandFails => WP!Next
  /\ \A p \in W!Path :
       (\/ W!WrapSkip(p) \/ W!WrapMove(p) \/ W!WrapWrite(p) \/ W!WrapInstall(p)
        \/ W!WrapWriteFails(p) \/ W!RestoreSkip(p) \/ W!RestoreRemove(p)
        \/ W!RestoreMove(p)) => WP!Next
<1> USE DEF W!Exit, WP!Exit, W!envVars, WP!envVars, W!Path, WP!Path, WP!Next
<1>1. W!WrapStart => WP!Next BY DEF W!WrapStart, WP!WrapStart
<1>2. W!WrapEnd => WP!Next BY DEF W!WrapEnd, WP!WrapEnd
<1>3. W!RestoreStart => WP!Next BY DEF W!RestoreStart, WP!RestoreStart
<1>4. W!RestoreEnd => WP!Next BY DEF W!RestoreEnd, WP!RestoreEnd
<1>5. W!Kill => WP!Next BY DEF W!Kill, WP!Kill
<1>6. W!CommandFails => WP!Next BY DEF W!CommandFails, WP!CommandFails
<1>7. W!Link(Demo) => WP!Next BY DEF W!Link, WP!Link, W!Elf, WP!Elf
<1>8. W!RunTest(Demo) => WP!Next BY DEF W!RunTest, WP!RunTest
<1>9. ASSUME NEW p \in W!Path, W!WrapSkip(p) PROVE WP!Next
  BY <1>9 DEF W!WrapSkip, WP!WrapSkip, W!Wrappable, WP!Wrappable, W!Orig, WP!Orig
<1>10. ASSUME NEW p \in W!Path, W!WrapMove(p) PROVE WP!Next
  BY <1>10 DEF W!WrapMove, WP!WrapMove, W!Wrappable, WP!Wrappable, W!Orig, WP!Orig,
    W!None, WP!None
<1>11. ASSUME NEW p \in W!Path, W!WrapWrite(p) PROVE WP!Next
  BY <1>11 DEF W!WrapWrite, WP!WrapWrite
<1>12. ASSUME NEW p \in W!Path, W!WrapInstall(p) PROVE WP!Next
  BY <1>12 DEF W!WrapInstall, WP!WrapInstall, W!Wrapper, WP!Wrapper
<1>13. ASSUME NEW p \in W!Path, W!WrapWriteFails(p) PROVE WP!Next
  BY <1>13 DEF W!WrapWriteFails, WP!WrapWriteFails, W!Orig, WP!Orig, W!None, WP!None
<1>14. ASSUME NEW p \in W!Path, W!RestoreSkip(p) PROVE WP!Next
  BY <1>14 DEF W!RestoreSkip, WP!RestoreSkip, W!Restorable, WP!Restorable, W!Base,
    WP!Base
<1>15. ASSUME NEW p \in W!Path, W!RestoreRemove(p) PROVE WP!Next
  BY <1>15 DEF W!RestoreRemove, WP!RestoreRemove, W!Restorable, WP!Restorable, W!Base,
    WP!Base, W!None, WP!None
<1>16. ASSUME NEW p \in W!Path, W!RestoreMove(p) PROVE WP!Next
  BY <1>16 DEF W!RestoreMove, WP!RestoreMove, W!Base, WP!Base, W!None, WP!None
<1> QED BY <1>1, <1>2, <1>3, <1>4, <1>5, <1>6, <1>7, <1>8, <1>9, <1>10, <1>11, <1>12,
    <1>13, <1>14, <1>15, <1>16

\* Besides, the script removes the documents of the demo.
Emptied ==
  /\ UNCHANGED <<fs, tmp, script, step, at, todo, linked, artifact>>
  /\ json' = [json EXCEPT ![Demo] = {}]

\* Every step of the pipeline is one of the scripts, leaves the tree alone or
\* empties the documents.
LEMMA WrapPart ==
  ASSUME [PipelineNext]_pvars
  PROVE  [WP!Next]_wrapVars \/ Emptied
<1>1. CASE GeneratorStep
  BY <1>1 DEF pvars, fixed, control, docs, wrapVars, pipeline, GeneratorStep
<1>2. CASE User
  BY <1>2 DEF pvars, fixed, control, docs, wrapVars, pipeline, User
<1>3. CASE Setup
  BY <1>3 DEF pvars, fixed, docs, wrapVars, Then, Leave, Setup
<1>4. CASE CallGenerator
  BY <1>4 DEF pvars, fixed, docs, wrapVars, CallGenerator
<1>5. CASE GeneratorReturns
  BY <1>5 DEF pvars, fixed, docs, wrapVars, Then, Leave, GeneratorReturns
<1>6. CASE CopyTests
  BY <1>6 DEF pvars, fixed, docs, wrapVars, Then, Leave, CopyTests
<1>7. CASE MakeAll
  BY <1>7, WrapSteps DEF MakeAll
<1>8. CASE CallWrap
  BY <1>8, WrapSteps DEF CallWrap
<1>9. CASE WrapStep
  BY <1>9, WrapSteps DEF WrapStep
<1>10. CASE WrapReturns
  BY <1>10, WrapSteps DEF WrapReturns
<1>11. CASE SetWrapped
  BY <1>11 DEF pvars, fixed, docs, wrapVars, Then, Leave, SetWrapped
<1>12. CASE RunCase
  BY <1>12, WrapSteps DEF RunCase
<1>13. CASE CaseDies
  BY <1>13 DEF pvars, fixed, wrapVars, CaseDies
<1>14. CASE CaseUnsaved
  BY <1>14 DEF pvars, fixed, wrapVars, CaseUnsaved
<1>15. CASE CheckEnd
  BY <1>15 DEF pvars, fixed, docs, wrapVars, Then, Leave, CheckEnd
<1>16. CASE Save
  BY <1>16 DEF pvars, fixed, wrapVars, Then, Leave, Save
<1>17. CASE Remove
  BY <1>17 DEF Remove, Emptied
<1>18. CASE Compare
  BY <1>18 DEF pvars, fixed, wrapVars, Leave, Compare
<1>19. CASE Trap
  BY <1>19, WrapSteps DEF Trap
<1>20. CASE RestoreStep
  BY <1>20, WrapSteps DEF RestoreStep
<1>21. CASE RestoreReturns
  BY <1>21, WrapSteps DEF RestoreReturns
<1>22. CASE Interrupted
  BY <1>22, WrapSteps DEF Interrupted
<1>23. CASE Crash
  BY <1>23, WrapSteps DEF Crash
<1>24. CASE UNCHANGED pvars
  BY <1>24 DEF pvars, fixed, control, docs, wrapVars, pipeline
<1> QED
  BY <1>1, <1>2, <1>3, <1>4, <1>5, <1>6, <1>7, <1>8, <1>9, <1>10, <1>11, <1>12, <1>13,
    <1>14, <1>15, <1>16, <1>17, <1>18, <1>19, <1>20, <1>21, <1>22, <1>23, <1>24 DEF
    PipelineNext, Script


\* So the invariant of the two scripts holds throughout: no executable is lost,
\* no wrapper stands alone, and every variable has its type.
LEMMA WrapInvariant == PipelineSpec => []WP!IInv
<1>1. PipelineInit => WP!IInv
  <2>1. W!Init => WP!Init
    BY DEF W!Init, WP!Init, W!Path, WP!Path, W!None, WP!None
  <2> QED BY <2>1, WP!InitIInv DEF PipelineInit
<1>2. WP!IInv /\ Emptied => WP!IInv'
  <2> SUFFICES ASSUME WP!IInv, Emptied PROVE WP!IInv' OBVIOUS
  <2>1. WP!TypeOK' BY DEF Emptied, WP!IInv, WP!TypeOK
  <2>2. WP!StepInv' BY DEF Emptied, WP!IInv, WP!StepInv, WP!OnlyInBackup
  <2>3. WP!NoDoubleWrap' /\ WP!WrapperHasTarget' /\ WP!NoElfLost'
    BY DEF Emptied, WP!IInv, WP!NoDoubleWrap, WP!WrapperHasTarget, WP!NoElfLost
  <2> QED BY <2>1, <2>2, <2>3 DEF WP!IInv
<1>3. WP!IInv /\ [WP!Next]_wrapVars => WP!IInv'
  BY WP!NextKeepsIInv DEF wrapVars, WP!vars
<1>4. WP!IInv /\ [PipelineNext]_pvars => WP!IInv'
  BY <1>2, <1>3, WrapPart
<1> QED BY <1>1, <1>4, PTL DEF PipelineSpec

-----------------------------------------------------------------------------
(* The script's own variables                                               *)

\* The edges of the test cases.
Executed == UNION {Edges[c] : c \in DOMAIN Edges}

Places == Early \cup Testing \cup {"off", "wrap", "wrapping", "set", "save", "remove",
                                   "save2", "compare", "trap", "restoring"}
ControlOK ==
  /\ caller \in {"user", "verify"} /\ root \in {"empty", "used"}
  /\ vpc \in Places
  /\ status \in {"none", "failed", "interrupted", "crashed", "passed", "too few", "rejected"}
  /\ wrapped \in {0, 1} /\ next \in Nat /\ next > 0 /\ last \in BOOLEAN
  /\ blame \subseteq {"wrap", "restore", "crash"}
ListsOK == /\ lists.native \in Seq(DOMAIN Edges) /\ lists.generated \in Seq(DOMAIN Edges)
           /\ DOMAIN ran = {"native", "generated"}
DocOK == icall \in Document \cup {NoDoc} /\ icall.entries \subseteq Executed

LEMMA ExecutedFacts ==
  /\ Executed \subseteq Text \X Text
  /\ \A e \in Executed : Address[e[1]] # Invalid /\ Address[e[2]] # Invalid
BY CasesAssumption DEF Executed

\* The case that make check runs next.
LEMMA CaseOfList ==
  ASSUME ListsOK, ControlOK, vpc \in Testing, next <= Len(lists[vpc])
  PROVE  lists[vpc][next] \in DOMAIN Edges
<1>1. lists[vpc] \in Seq(DOMAIN Edges)
  BY DEF ListsOK, Testing
<1>2. next \in Nat /\ next > 0 BY DEF ControlOK
<1>3. Len(lists[vpc]) \in Nat BY <1>1, LenProperties
<1>4. next \in 1..Len(lists[vpc]) BY <1>2, <1>3
<1> QED BY <1>1, <1>4, ElementOfSeq

\* The documents that MyPinTool, a case that dies and rm leave behind.
LEMMA ObjectFacts ==
  ASSUME NEW E \in SUBSET Executed
  PROVE  /\ Object(E) \in Document /\ Object(E).entries = E /\ Object(E).kind # "torn"
         /\ Object(E).kind = "object" \/ E = {}
<1>1. E \subseteq Text \X Text BY ExecutedFacts
<1>2. Object(E).entries = E BY DEF Object
<1>3. CASE E = {}
  BY <1>1, <1>2, <1>3 DEF Object, Document
<1>4. CASE E # {}
  BY <1>1, <1>2, <1>4 DEF Object, Document
<1> QED BY <1>3, <1>4

LEMMA OtherDocs ==
  /\ TornDoc \in Document /\ TornDoc.entries = {} /\ TornDoc.kind = "torn"
  /\ NoDoc.entries = {} /\ NoDoc.kind = "absent"
BY DEF TornDoc, NoDoc, Document

\* Where the script goes on.
LEMMA ThenFacts ==
  ASSUME NEW ok, NEW place \in Places, Then(ok, place), ControlOK
  PROVE  /\ vpc' \in {place, "off", "trap"} /\ vpc' \in Places
         /\ status' \in {status, "failed"}
         /\ blame' \in {blame, blame \cup {"wrap"}}
<1>1. CASE ok
  <2>1. vpc' = place /\ status' = status /\ blame' = blame BY <1>1 DEF Then
  <2> QED BY <2>1
<1>2. CASE ~ok
  <2>1. Leave("failed") BY <1>2 DEF Then
  <2>2. vpc' \in {"off", "trap"} BY <2>1 DEF Leave
  <2>3. vpc' \in Places BY <2>2 DEF Places
  <2>4. status' = "failed" BY <2>1 DEF Leave
  <2>5. blame' \in {blame, blame \cup {"wrap"}} BY <2>1 DEF Leave
  <2> QED BY <2>2, <2>3, <2>4, <2>5
<1> QED BY <1>1, <1>2

\* The control variables keep their types.
LEMMA ControlStep ==
  ASSUME ControlOK, [PipelineNext]_pvars
  PROVE  ControlOK'
<1>1. CASE GeneratorStep
  BY <1>1 DEF ControlOK, Places, Early, Testing, fixed, control, docs, wrapVars,
    pipeline, GeneratorStep
<1>2. CASE User
  BY <1>2 DEF ControlOK, Places, Early, Testing, fixed, control, docs, wrapVars,
    pipeline, User
<1>3. CASE Setup
  BY <1>3 DEF ControlOK, Places, Early, Testing, fixed, docs, wrapVars, Then, Leave,
    Setup
<1>4. CASE CallGenerator
  BY <1>4 DEF ControlOK, Places, Early, Testing, fixed, docs, wrapVars, CallGenerator
<1>5. CASE GeneratorReturns
  BY <1>5 DEF ControlOK, Places, Early, Testing, fixed, docs, wrapVars, Then, Leave,
    GeneratorReturns
<1>6. CASE CopyTests
  BY <1>6 DEF ControlOK, Places, Early, Testing, fixed, docs, wrapVars, Then, Leave,
    CopyTests
<1>7. CASE MakeAll
  BY <1>7 DEF ControlOK, Places, Early, Testing, fixed, docs, Then, Leave, MakeAll
<1>8. CASE CallWrap
  BY <1>8 DEF ControlOK, Places, Early, Testing, fixed, docs, Then, Leave, CallWrap
<1>9. CASE WrapStep
  BY <1>9 DEF ControlOK, Places, Early, Testing, fixed, control, docs, WrapStep
<1>10. CASE WrapReturns
  BY <1>10 DEF ControlOK, Places, Early, Testing, fixed, docs, Then, Leave,
    WrapReturns
<1>11. CASE SetWrapped
  <2>1. Then(TRUE, "native") /\ {"native", "generated"} \subseteq Places
    BY <1>11 DEF SetWrapped, Places, Testing
  <2>2. vpc' \in Places /\ status' \in {status, "failed"}
        /\ blame' \in {blame, blame \cup {"wrap"}}
    BY <2>1, ThenFacts
  <2>3. next' = 1 /\ last' = TRUE /\ wrapped' \in {wrapped, 1} /\ UNCHANGED <<caller, root>>
    BY <1>11 DEF SetWrapped, fixed
  <2>4. next' \in Nat /\ next' > 0 /\ last' \in BOOLEAN BY <2>3
  <2> QED BY <2>2, <2>3, <2>4 DEF ControlOK
<1>12. CASE RunCase
  <2>1. next' \in Nat /\ next' > 0
    <3>1. next' = next + 1 BY <1>12 DEF RunCase
    <3>2. next \in Nat /\ next > 0 BY DEF ControlOK
    <3> QED BY <3>1, <3>2
  <2>3. last' \in BOOLEAN BY <1>12 DEF RunCase
  <2>2. UNCHANGED <<caller, root, vpc, status, wrapped, blame>> BY <1>12 DEF RunCase, fixed
  <2> QED BY <2>1, <2>3, <2>2 DEF ControlOK
<1>13. CASE CaseDies
  <2>1. next' \in Nat /\ next' > 0
    <3>1. next' = next + 1 BY <1>13 DEF CaseDies
    <3>2. next \in Nat /\ next > 0 BY DEF ControlOK
    <3> QED BY <3>1, <3>2
  <2>3. last' \in BOOLEAN BY <1>13 DEF CaseDies
  <2>2. UNCHANGED <<caller, root, vpc, status, wrapped, blame>> BY <1>13 DEF CaseDies, fixed
  <2> QED BY <2>1, <2>3, <2>2 DEF ControlOK
<1>14. CASE CaseUnsaved
  <2>1. next' \in Nat /\ next' > 0
    <3>1. next' = next + 1 BY <1>14 DEF CaseUnsaved
    <3>2. next \in Nat /\ next > 0 BY DEF ControlOK
    <3> QED BY <3>1, <3>2
  <2>3. last' \in BOOLEAN BY <1>14 DEF CaseUnsaved
  <2>2. UNCHANGED <<caller, root, vpc, status, wrapped, blame>> BY <1>14 DEF CaseUnsaved, fixed
  <2> QED BY <2>1, <2>3, <2>2 DEF ControlOK
<1>15. CASE CheckEnd
  BY <1>15 DEF ControlOK, Places, Early, Testing, fixed, docs, wrapVars, Then, Leave,
    CheckEnd
<1>16. CASE Save
  BY <1>16 DEF ControlOK, Places, Early, Testing, fixed, wrapVars, Then, Leave, Save
<1>17. CASE Remove
  <2>1. Then(disk[TestFile].st # "none", "generated") /\ {"native", "generated"} \subseteq Places
    BY <1>17 DEF Remove, Places, Testing
  <2>2. vpc' \in Places /\ status' \in {status, "failed"}
        /\ blame' \in {blame, blame \cup {"wrap"}}
    BY <2>1, ThenFacts
  <2>3. next' = 1 /\ last' = TRUE /\ wrapped' \in {wrapped, 1} /\ UNCHANGED <<caller, root>>
    BY <1>17 DEF Remove, fixed
  <2>4. next' \in Nat /\ next' > 0 /\ last' \in BOOLEAN BY <2>3
  <2> QED BY <2>2, <2>3, <2>4 DEF ControlOK
<1>18. CASE Compare
  BY <1>18 DEF ControlOK, Places, Early, Testing, fixed, wrapVars, Leave, Compare
<1>19. CASE Trap
  BY <1>19 DEF ControlOK, Places, Early, Testing, fixed, docs, wrapVars, Trap
<1>20. CASE RestoreStep
  BY <1>20 DEF ControlOK, Places, Early, Testing, fixed, control, docs, RestoreStep
<1>21. CASE RestoreReturns
  BY <1>21 DEF ControlOK, Places, Early, Testing, fixed, docs, RestoreReturns
<1>22. CASE Interrupted
  BY <1>22 DEF ControlOK, Places, Early, Testing, fixed, docs, wrapVars, Leave,
    Interrupted
<1>23. CASE Crash
  BY <1>23 DEF ControlOK, Places, Early, Testing, fixed, docs, wrapVars, Crash
<1>24. CASE UNCHANGED pvars
  BY <1>24 DEF ControlOK, pvars, pipeline, fixed, control
<1> QED
  BY <1>1, <1>2, <1>3, <1>4, <1>5, <1>6, <1>7, <1>8, <1>9, <1>10, <1>11, <1>12, <1>13,
    <1>14, <1>15, <1>16, <1>17, <1>18, <1>19, <1>20, <1>21, <1>22, <1>23, <1>24 DEF
    PipelineNext, Script

\* The case files do not change.
LEMMA ListsStep ==
  ASSUME ListsOK, ControlOK, [PipelineNext]_pvars
  PROVE  ListsOK'
<1>1. CASE GeneratorStep
  BY <1>1 DEF ListsOK, fixed, control, docs, wrapVars, pipeline, GeneratorStep
<1>2. CASE User
  BY <1>2 DEF ListsOK, fixed, control, docs, wrapVars, pipeline, User
<1>3. CASE Setup
  BY <1>3 DEF ListsOK, fixed, docs, wrapVars, Then, Leave, Setup
<1>4. CASE CallGenerator
  BY <1>4 DEF ListsOK, fixed, docs, wrapVars, CallGenerator
<1>5. CASE GeneratorReturns
  BY <1>5 DEF ListsOK, fixed, docs, wrapVars, Then, Leave, GeneratorReturns
<1>6. CASE CopyTests
  BY <1>6 DEF ListsOK, fixed, docs, wrapVars, Then, Leave, CopyTests
<1>7. CASE MakeAll
  BY <1>7 DEF ListsOK, fixed, docs, Then, Leave, MakeAll
<1>8. CASE CallWrap
  BY <1>8 DEF ListsOK, fixed, docs, Then, Leave, CallWrap
<1>9. CASE WrapStep
  BY <1>9 DEF ListsOK, fixed, control, docs, WrapStep
<1>10. CASE WrapReturns
  BY <1>10 DEF ListsOK, fixed, docs, Then, Leave, WrapReturns
<1>11. CASE SetWrapped
  BY <1>11 DEF ListsOK, fixed, docs, wrapVars, Then, Leave, SetWrapped
<1>12. CASE RunCase
  BY <1>12 DEF ListsOK, fixed, RunCase
<1>13. CASE CaseDies
  BY <1>13 DEF ListsOK, fixed, wrapVars, CaseDies
<1>14. CASE CaseUnsaved
  BY <1>14 DEF ListsOK, fixed, wrapVars, CaseUnsaved
<1>15. CASE CheckEnd
  BY <1>15 DEF ListsOK, fixed, docs, wrapVars, Then, Leave, CheckEnd
<1>16. CASE Save
  BY <1>16 DEF ListsOK, fixed, wrapVars, Then, Leave, Save
<1>17. CASE Remove
  BY <1>17 DEF ListsOK, fixed, Then, Leave, Remove
<1>18. CASE Compare
  BY <1>18 DEF ListsOK, fixed, wrapVars, Leave, Compare
<1>19. CASE Trap
  BY <1>19 DEF ListsOK, fixed, docs, wrapVars, Trap
<1>20. CASE RestoreStep
  BY <1>20 DEF ListsOK, fixed, control, docs, RestoreStep
<1>21. CASE RestoreReturns
  BY <1>21 DEF ListsOK, fixed, docs, RestoreReturns
<1>22. CASE Interrupted
  BY <1>22 DEF ListsOK, fixed, docs, wrapVars, Leave, Interrupted
<1>23. CASE Crash
  BY <1>23 DEF ListsOK, fixed, docs, wrapVars, Crash
<1>24. CASE UNCHANGED pvars
  BY <1>24 DEF ListsOK, fixed, control, docs, wrapVars, pipeline, pvars
<1> QED
  BY <1>1, <1>2, <1>3, <1>4, <1>5, <1>6, <1>7, <1>8, <1>9, <1>10, <1>11, <1>12, <1>13,
    <1>14, <1>15, <1>16, <1>17, <1>18, <1>19, <1>20, <1>21, <1>22, <1>23, <1>24 DEF
    PipelineNext, Script

\* The document only holds what the cases execute.
LEMMA DocStep ==
  ASSUME DocOK, ListsOK, ControlOK, [PipelineNext]_pvars
  PROVE  DocOK'
<1>1. CASE GeneratorStep
  BY <1>1 DEF DocOK, fixed, control, docs, wrapVars, pipeline, GeneratorStep
<1>2. CASE User
  BY <1>2 DEF DocOK, fixed, control, docs, wrapVars, pipeline, User
<1>3. CASE Setup
  BY <1>3 DEF DocOK, fixed, docs, wrapVars, Then, Leave, Setup
<1>4. CASE CallGenerator
  BY <1>4 DEF DocOK, fixed, docs, wrapVars, CallGenerator
<1>5. CASE GeneratorReturns
  BY <1>5 DEF DocOK, fixed, docs, wrapVars, Then, Leave, GeneratorReturns
<1>6. CASE CopyTests
  BY <1>6 DEF DocOK, fixed, docs, wrapVars, Then, Leave, CopyTests
<1>7. CASE MakeAll
  BY <1>7 DEF DocOK, fixed, docs, Then, Leave, MakeAll
<1>8. CASE CallWrap
  BY <1>8 DEF DocOK, fixed, docs, Then, Leave, CallWrap
<1>9. CASE WrapStep
  BY <1>9 DEF DocOK, fixed, control, docs, WrapStep
<1>10. CASE WrapReturns
  BY <1>10 DEF DocOK, fixed, docs, Then, Leave, WrapReturns
<1>11. CASE SetWrapped
  BY <1>11 DEF DocOK, fixed, docs, wrapVars, Then, Leave, SetWrapped
<1>12. CASE RunCase
  <2> DEFINE c == lists[vpc][next]
  <2>1. c \in DOMAIN Edges BY <1>12, CaseOfList DEF RunCase
  <2>2. Edges[c] \subseteq Executed BY <2>1 DEF Executed
  <2>3. icall' = Object(icall.entries \cup Edges[c]) BY <1>12 DEF RunCase
  <2> QED BY <2>2, <2>3, ObjectFacts DEF DocOK
<1>13. CASE CaseDies
  <2>1. icall' = icall \/ icall' = TornDoc BY <1>13 DEF CaseDies
  <2> QED BY <2>1, OtherDocs DEF DocOK
<1>14. CASE CaseUnsaved
  <2>1. icall' = icall \/ icall' = TornDoc BY <1>14 DEF CaseUnsaved
  <2> QED BY <2>1, OtherDocs DEF DocOK
<1>15. CASE CheckEnd
  BY <1>15 DEF DocOK, fixed, docs, wrapVars, Then, Leave, CheckEnd
<1>16. CASE Save
  BY <1>16 DEF DocOK, fixed, wrapVars, Then, Leave, Save
<1>17. CASE Remove
  <2>1. icall' = NoDoc BY <1>17 DEF Remove
  <2> QED BY <2>1, OtherDocs DEF DocOK
<1>18. CASE Compare
  BY <1>18 DEF DocOK, fixed, wrapVars, Leave, Compare
<1>19. CASE Trap
  BY <1>19 DEF DocOK, fixed, docs, wrapVars, Trap
<1>20. CASE RestoreStep
  BY <1>20 DEF DocOK, fixed, control, docs, RestoreStep
<1>21. CASE RestoreReturns
  BY <1>21 DEF DocOK, fixed, docs, RestoreReturns
<1>22. CASE Interrupted
  BY <1>22 DEF DocOK, fixed, docs, wrapVars, Leave, Interrupted
<1>23. CASE Crash
  BY <1>23 DEF DocOK, fixed, docs, wrapVars, Crash
<1>24. CASE UNCHANGED pvars
  BY <1>24 DEF DocOK, fixed, control, docs, wrapVars, pipeline, pvars
<1> QED
  BY <1>1, <1>2, <1>3, <1>4, <1>5, <1>6, <1>7, <1>8, <1>9, <1>10, <1>11, <1>12, <1>13,
    <1>14, <1>15, <1>16, <1>17, <1>18, <1>19, <1>20, <1>21, <1>22, <1>23, <1>24 DEF
    PipelineNext, Script


PipelineInv == ControlOK /\ ListsOK /\ DocOK /\ WP!IInv

LEMMA PipelineInvariant == PipelineSpec => []PipelineInv
<1>1. PipelineInit => ControlOK /\ ListsOK /\ DocOK
  <2> SUFFICES ASSUME PipelineInit PROVE ControlOK /\ ListsOK /\ DocOK OBVIOUS
  <2>1. ControlOK
    <3>1. /\ caller \in {"user", "verify"} /\ root \in {"empty", "used"}
          /\ vpc \in {"setup", "off"}
      BY DEF PipelineInit
    <3>2. next \in Nat /\ next > 0 /\ last \in BOOLEAN BY DEF PipelineInit
    <3>3. status = "none" /\ wrapped = 0 /\ blame = {} BY DEF PipelineInit
    <3> QED BY <3>1, <3>2, <3>3 DEF ControlOK, Places, Early
  <2>2. ListsOK
    <3>1. lists.native \in NativeLists /\ lists.generated \in GeneratedLists
      BY DEF PipelineInit
    <3>2. DOMAIN ran = {"native", "generated"} BY DEF PipelineInit
    <3> QED BY <3>1, <3>2, CasesAssumption DEF ListsOK
  <2>3. DocOK
    <3>1. icall = Object(Executed) \/ icall = NoDoc BY DEF PipelineInit, Executed
    <3> QED BY <3>1, ObjectFacts, OtherDocs DEF DocOK
  <2> QED BY <2>1, <2>2, <2>3
<1>2. ControlOK /\ ListsOK /\ DocOK /\ [PipelineNext]_pvars
        => (ControlOK /\ ListsOK /\ DocOK)'
  BY ControlStep, ListsStep, DocStep
<1> QED BY <1>1, <1>2, WrapInvariant, PTL DEF PipelineSpec, PipelineInv

\* Type correctness of the pipeline and of its parts in it.
THEOREM PipelineTypeCorrect == PipelineSpec => []PipelineTypeOK
<1>1. PipelineInv /\ GenTypeOK => PipelineTypeOK
  <2>1. WP!TypeOK => W!TypeOK
    BY DEF WP!TypeOK, W!TypeOK, WP!Path, W!Path, WP!Content, W!Content
  <2> QED BY <2>1 DEF PipelineInv, ControlOK, DocOK, Places, WP!IInv, PipelineTypeOK
<1> QED BY <1>1, PipelineInvariant, PipelineRunsGenerator, GenTypeCorrect, PTL

-----------------------------------------------------------------------------
(* The demo's executable                                                    *)

\* The three places where the demo's executable may be.
Plain   == fs[<<Demo, 0>>] = W!Elf(1) /\ fs[<<Demo, 1>>] = W!None
Covered == fs[<<Demo, 0>>] = W!Wrapper /\ fs[<<Demo, 1>>] = W!Elf(1)
Between == fs[<<Demo, 0>>] = W!None /\ fs[<<Demo, 1>>] = W!Elf(1)

\* Where the wrap and the restore script are in their loops.
WrapLoop ==
  /\ step \in {"pick", "moved", "written"}
  /\ step = "pick" => Covered \/ (Plain /\ <<Demo, 0>> \in todo)
  /\ step # "pick" => Between /\ at = {<<Demo, 0>>}
RestoreLoop ==
  /\ step \in {"pick", "removed"}
  /\ step = "pick" => Plain \/ (Covered /\ <<Demo, 1>> \in todo)
  /\ step # "pick" => Between /\ at = {<<Demo, 1>>}

Running == Testing \cup {"save", "remove", "save2", "compare"}

\* Where the executable is at every point of the script, and which of its two
\* helpers is running.
DemoInv ==
  /\ vpc = "wrapping" => script = "wrap" /\ wrapped = 0 /\ WrapLoop
  /\ vpc = "restoring" => script = "restore" /\ RestoreLoop
  /\ vpc \notin {"wrapping", "restoring"} => script = "none" /\ step = "pick"
  /\ vpc \in Early => linked[Demo] = 0 /\ wrapped = 0 /\ fs[<<Demo, 1>>] = W!None
  /\ vpc = "wrap" => Plain /\ wrapped = 0
  /\ vpc = "set" => Covered /\ wrapped = 0
  /\ vpc \in Running => Covered /\ wrapped = 1
  /\ vpc = "trap" => \/ wrapped = 1 /\ Covered
                     \/ wrapped = 0 /\ (blame = {} => Plain)
  /\ vpc = "off" /\ blame = {} => linked[Demo] = 0 \/ Plain

LEMMA DemoPaths ==
  /\ W!Path = {<<Demo, 0>>, <<Demo, 1>>, <<Demo, 2>>}
  /\ <<Demo, 0>> # <<Demo, 1>> /\ <<Demo, 0>> # <<Demo, 2>> /\ <<Demo, 1>> # <<Demo, 2>>
  /\ W!Orig(<<Demo, 0>>) = <<Demo, 1>> /\ W!Base(<<Demo, 1>>) = <<Demo, 0>>
<1>1. 0..2 = {0, 1, 2} OBVIOUS
<1> QED BY <1>1 DEF W!Path, W!Orig, W!Base

LEMMA Kinds ==
  /\ W!None.kind = "none" /\ W!Wrapper.kind = "wrapper" /\ \A v : W!Elf(v).kind = "elf"
BY DEF W!None, W!Wrapper, W!Elf

\* The scripts' invariant, as it is used here.
LEMMA TreeFacts ==
  ASSUME PipelineInv
  PROVE  /\ DOMAIN fs = W!Path
         /\ fs[<<Demo, 2>>].kind = "none"
         /\ script = "none" => step = "pick"
         /\ script = "restore" => <<Demo, 0>> \notin todo
<1>1. DOMAIN fs = W!Path
  BY DEF PipelineInv, WP!IInv, WP!TypeOK, WP!Path, W!Path
<1>2. fs[<<Demo, 2>>].kind = "none"
  BY DEF PipelineInv, WP!IInv, WP!NoDoubleWrap
<1>3. script = "none" => step = "pick"
  BY DEF PipelineInv, WP!IInv, WP!StepInv
<1>4. ASSUME script = "restore", <<Demo, 0>> \in todo PROVE FALSE
  <2>1. <<Demo, 0>>[2] > 0 BY <1>4 DEF PipelineInv, WP!IInv, WP!StepInv
  <2> QED BY <2>1
<1> QED BY <1>1, <1>2, <1>3, <1>4

\* A step of the wrap script takes the executable one place further.
LEMMA WrapLoopStep ==
  ASSUME PipelineInv, WrapLoop, NEW p \in W!Path,
         W!WrapSkip(p) \/ W!WrapMove(p) \/ W!WrapWrite(p) \/ W!WrapInstall(p)
  PROVE  WrapLoop' /\ script' = script
<1> USE DemoPaths, Kinds, TreeFacts DEF WrapLoop, Plain, Covered, Between
<1>1. CASE W!WrapSkip(p)
  BY <1>1 DEF W!WrapSkip, W!Wrappable
<1>2. CASE W!WrapMove(p)
  BY <1>2 DEF W!WrapMove, W!Wrappable
<1>3. CASE W!WrapWrite(p)
  BY <1>3 DEF W!WrapWrite
<1>4. CASE W!WrapInstall(p)
  BY <1>4 DEF W!WrapInstall
<1> QED BY <1>1, <1>2, <1>3, <1>4

\* So does a step of the restore script, backwards.
LEMMA RestoreLoopStep ==
  ASSUME PipelineInv, RestoreLoop, NEW p \in W!Path,
         W!RestoreSkip(p) \/ W!RestoreRemove(p) \/ W!RestoreMove(p)
  PROVE  RestoreLoop' /\ script' = script
<1> USE DemoPaths, Kinds, TreeFacts DEF RestoreLoop, Plain, Covered, Between
<1>1. CASE W!RestoreSkip(p)
  BY <1>1 DEF W!RestoreSkip, W!Restorable
<1>2. CASE W!RestoreRemove(p)
  BY <1>2 DEF W!RestoreRemove, W!Restorable
<1>3. CASE W!RestoreMove(p)
  BY <1>3 DEF W!RestoreMove
<1> QED BY <1>1, <1>2, <1>3

\* The scripts begin and end.
LEMMA LoopEnds ==
  /\ Plain /\ step = "pick" /\ W!WrapStart => WrapLoop' /\ script' = "wrap"
  /\ Covered /\ step = "pick" /\ W!RestoreStart => RestoreLoop' /\ script' = "restore"
  /\ WrapLoop /\ W!WrapEnd => Covered' /\ script' = "none" /\ step' = "pick"
  /\ RestoreLoop /\ W!RestoreEnd => Plain' /\ script' = "none" /\ step' = "pick"
  /\ W!Kill \/ W!CommandFails => /\ script' = "none" /\ step' = "pick"
                                /\ UNCHANGED <<fs, linked>>
  /\ \A p \in W!Path : W!WrapWriteFails(p) => script' = "none" /\ step' = "pick"
<1> USE DemoPaths DEF Plain, Covered, Between, WrapLoop, RestoreLoop, W!Exit, W!envVars
<1>1. Plain /\ step = "pick" /\ W!WrapStart => WrapLoop' /\ script' = "wrap"
  BY DEF W!WrapStart
<1>2. Covered /\ step = "pick" /\ W!RestoreStart => RestoreLoop' /\ script' = "restore"
  BY DEF W!RestoreStart
<1>3. WrapLoop /\ W!WrapEnd => Covered' /\ script' = "none" /\ step' = "pick"
  BY DEF W!WrapEnd
<1>4. RestoreLoop /\ W!RestoreEnd => Plain' /\ script' = "none" /\ step' = "pick"
  BY DEF W!RestoreEnd
<1>5. W!Kill \/ W!CommandFails => /\ script' = "none" /\ step' = "pick"
                                 /\ UNCHANGED <<fs, linked>>
  BY DEF W!Kill, W!CommandFails
<1>6. \A p \in W!Path : W!WrapWriteFails(p) => script' = "none" /\ step' = "pick"
  BY DEF W!WrapWriteFails
<1> QED BY <1>1, <1>2, <1>3, <1>4, <1>5, <1>6

\* Where the executable is when nothing touches it.
LEMMA SamePlaces ==
  ASSUME UNCHANGED <<fs, step, at, todo>>
  PROVE  /\ Plain' = Plain /\ Covered' = Covered
         /\ WrapLoop' = WrapLoop /\ RestoreLoop' = RestoreLoop
BY DEF Plain, Covered, Between, WrapLoop, RestoreLoop

\* The script always knows where the executable is.
LEMMA DemoStep ==
  ASSUME DemoInv, PipelineInv, [PipelineNext]_pvars
  PROVE  DemoInv'
<1>1. CASE GeneratorStep
  BY SamePlaces, <1>1 DEF DemoInv, Early, Testing, Running, fixed, control, docs,
    wrapVars, pipeline, GeneratorStep
<1>2. CASE User
  BY SamePlaces, <1>2 DEF DemoInv, Early, Testing, Running, fixed, control, docs,
    wrapVars, pipeline, User
<1>3. CASE Setup
  BY SamePlaces, <1>3 DEF DemoInv, Early, Testing, Running, fixed, docs, wrapVars,
    Then, Leave, Setup
<1>4. CASE CallGenerator
  BY SamePlaces, <1>4 DEF DemoInv, Early, Testing, Running, fixed, docs, wrapVars,
    CallGenerator
<1>5. CASE GeneratorReturns
  BY SamePlaces, <1>5 DEF DemoInv, Early, Testing, Running, fixed, docs, wrapVars,
    Then, Leave, GeneratorReturns
<1>6. CASE CopyTests
  BY SamePlaces, <1>6 DEF DemoInv, Early, Testing, Running, fixed, docs, wrapVars,
    Then, Leave, CopyTests
<1>7. CASE MakeAll
  <2>1. vpc = "make" /\ vpc' = "wrap" /\ wrapped' = wrapped /\ W!Link(Demo)
    BY <1>7 DEF MakeAll, Then
  <2>2. linked[Demo] = 0 /\ wrapped = 0 /\ fs[<<Demo, 1>>] = W!None /\ script = "none"
    BY <2>1 DEF DemoInv, Early
  <2>3. UNCHANGED <<script, step>> /\ fs' = [fs EXCEPT ![<<Demo, 0>>] = W!Elf(0 + 1)]
    BY <2>1, <2>2 DEF W!Link
  <2>4. Plain' BY <2>2, <2>3, TreeFacts, DemoPaths DEF Plain
  <2> QED BY <2>1, <2>2, <2>3, <2>4, TreeFacts DEF DemoInv, Early, Testing, Running
<1>8. CASE CallWrap
  <2>1. /\ vpc = "wrap" /\ vpc' = "wrapping" /\ wrapped' = wrapped /\ W!WrapStart
    BY <1>8 DEF CallWrap, Then
  <2> QED BY <2>1, LoopEnds DEF DemoInv, Early, Testing, Running
<1>9. CASE WrapStep
  <2>1. vpc = "wrapping" /\ UNCHANGED <<vpc, wrapped>>
    BY <1>9 DEF WrapStep, control
  <2>2. WrapLoop' /\ script' = script BY <1>9, <2>1, WrapLoopStep DEF WrapStep, DemoInv
  <2> QED BY <2>1, <2>2 DEF DemoInv, Early, Testing, Running
<1>10. CASE WrapReturns
  <2>1. vpc = "wrapping" /\ wrapped' = wrapped /\ wrapped = 0 /\ WrapLoop
    BY <1>10 DEF WrapReturns, DemoInv
  <2>2. CASE W!WrapEnd /\ Then(TRUE, "set")
    BY <2>1, <2>2, LoopEnds DEF DemoInv, Early, Testing, Running, Then
  <2>3. CASE (W!CommandFails \/ \E p \in W!Path : W!WrapWriteFails(p)) /\ Leave("failed")
    <3>1. script' = "none" /\ step' = "pick" BY <2>3, LoopEnds
    <3>2. vpc' = "trap" /\ "wrap" \in blame' BY <2>1, <2>3 DEF Leave, Early
    <3> QED BY <2>1, <3>1, <3>2 DEF DemoInv, Early, Testing, Running
  <2> QED BY <1>10, <2>2, <2>3 DEF WrapReturns
<1>11. CASE SetWrapped
  BY SamePlaces, <1>11 DEF DemoInv, Early, Testing, Running, fixed, docs, wrapVars,
    Then, Leave, SetWrapped
<1>12. CASE RunCase
  <2>1. UNCHANGED <<vpc, wrapped, blame, fs, script, step, at, todo, linked>>
    BY <1>12 DEF RunCase, W!RunTest
  <2> QED BY <2>1, SamePlaces DEF DemoInv
<1>13. CASE CaseDies
  BY SamePlaces, <1>13 DEF DemoInv, Early, Testing, Running, fixed, wrapVars, CaseDies
<1>14. CASE CaseUnsaved
  BY SamePlaces, <1>14 DEF DemoInv, Early, Testing, Running, fixed, wrapVars,
    CaseUnsaved
<1>15. CASE CheckEnd
  BY SamePlaces, <1>15 DEF DemoInv, Early, Testing, Running, fixed, docs, wrapVars,
    Then, Leave, CheckEnd
<1>16. CASE Save
  BY SamePlaces, <1>16 DEF DemoInv, Early, Testing, Running, fixed, wrapVars, Then,
    Leave, Save
<1>17. CASE Remove
  BY SamePlaces, <1>17 DEF DemoInv, Early, Testing, Running, fixed, Then, Leave,
    Remove
<1>18. CASE Compare
  BY SamePlaces, <1>18 DEF DemoInv, Early, Testing, Running, fixed, wrapVars, Leave,
    Compare
<1>19. CASE Trap
  <2>1. vpc = "trap" /\ script = "none" /\ step = "pick" /\ UNCHANGED <<wrapped, blame>>
    BY <1>19 DEF Trap, DemoInv
  <2>2. CASE wrapped = 0 /\ vpc' = "off" /\ UNCHANGED wrapVars
    BY <2>1, <2>2, SamePlaces DEF DemoInv, Early, Testing, Running, wrapVars
  <2>3. CASE wrapped = 1 /\ W!RestoreStart /\ vpc' = "restoring"
    BY <2>1, <2>3, LoopEnds DEF DemoInv, Early, Testing, Running
  <2> QED BY <1>19, <2>2, <2>3 DEF Trap
<1>20. CASE RestoreStep
  <2>1. vpc = "restoring" /\ UNCHANGED <<vpc, wrapped>>
    BY <1>20 DEF RestoreStep, control
  <2>2. RestoreLoop' /\ script' = script
    BY <1>20, <2>1, RestoreLoopStep DEF RestoreStep, DemoInv
  <2> QED BY <2>1, <2>2 DEF DemoInv, Early, Testing, Running
<1>21. CASE RestoreReturns
  <2>1. vpc = "restoring" /\ vpc' = "off" /\ RestoreLoop
    BY <1>21 DEF RestoreReturns, DemoInv
  <2>2. CASE W!RestoreEnd
    BY <2>1, <2>2, LoopEnds DEF DemoInv, Early, Testing, Running
  <2>3. CASE W!CommandFails /\ blame' = blame \cup {"restore"}
    BY <2>1, <2>3, LoopEnds DEF DemoInv, Early, Testing, Running
  <2> QED BY <1>21, <2>2, <2>3 DEF RestoreReturns
<1>22. CASE Interrupted
  <2>1. /\ vpc \notin {"off", "trap", "restoring"} /\ Leave("interrupted")
        /\ wrapped' = wrapped
    BY <1>22 DEF Interrupted
  <2>2. script' = "none" /\ step' = "pick" /\ UNCHANGED <<fs, linked>>
    BY <1>22, LoopEnds, TreeFacts DEF Interrupted, wrapVars
  <2>3. Plain' = Plain /\ Covered' = Covered BY <2>2 DEF Plain, Covered
  <2>4. CASE vpc \in Early
    BY <2>1, <2>2, <2>4 DEF Leave, DemoInv, Early, Testing, Running
  <2>5. CASE vpc \in {"wrapping", "set"}
    BY <2>1, <2>2, <2>5 DEF Leave, DemoInv, Early, Testing, Running
  <2>6. CASE vpc = "wrap" \/ vpc \in Running
    BY <2>1, <2>2, <2>3, <2>6 DEF Leave, DemoInv, Early, Testing, Running
  <2> QED BY <2>1, <2>4, <2>5, <2>6 DEF PipelineInv, ControlOK, Places, Running
<1>23. CASE Crash
  <2>1. vpc' = "off" /\ "crash" \in blame' BY <1>23 DEF Crash
  <2>2. script' = "none" /\ step' = "pick"
    BY <1>23, LoopEnds, TreeFacts DEF Crash, wrapVars
  <2> QED BY <2>1, <2>2 DEF DemoInv, Early, Testing, Running
<1>24. CASE UNCHANGED pvars
  BY SamePlaces, <1>24 DEF DemoInv, Early, Testing, Running, fixed, control, docs,
    wrapVars, pipeline, pvars
<1> QED
  BY <1>1, <1>2, <1>3, <1>4, <1>5, <1>6, <1>7, <1>8, <1>9, <1>10, <1>11, <1>12, <1>13,
    <1>14, <1>15, <1>16, <1>17, <1>18, <1>19, <1>20, <1>21, <1>22, <1>23, <1>24 DEF
    PipelineNext, Script


\* Whatever fails or interrupts the script, the trap puts the executable back.
THEOREM DemoIsRestored == PipelineSpec => []DemoRestored
<1>1. PipelineInit => DemoInv
  <2> SUFFICES ASSUME PipelineInit PROVE DemoInv OBVIOUS
  <2>1. /\ vpc \in {"setup", "off"} /\ wrapped = 0
        /\ script = "none" /\ step = "pick" /\ linked[Demo] = 0
    BY DEF PipelineInit, W!Init
  <2>2. fs[<<Demo, 1>>] = W!None BY DemoPaths DEF PipelineInit, W!Init
  <2> QED BY <2>1, <2>2 DEF DemoInv, Early, Testing, Running
<1>2. DemoInv /\ PipelineInv /\ [PipelineNext]_pvars => DemoInv'
  BY DemoStep
<1>3. DemoInv => DemoRestored
  BY DEF DemoInv, DemoRestored, Plain
<1> QED BY <1>1, <1>2, <1>3, PipelineInvariant, PTL DEF PipelineSpec

-----------------------------------------------------------------------------
(* The verdict                                                              *)

\* A document says what the cases of a list have executed; so does a directory.
Says(doc, S) ==
  doc.kind # "torn" => /\ Pairs(doc.entries) = S
                       /\ doc.kind = "object" \/ doc.entries = {}
Holds(dir, S) == Loadable(dir) /\ LoadPairs(dir) = S

\* What the documents say at every point of the script.
VerdictInv ==
  /\ vpc = "setup" /\ root = "empty" => icall = NoDoc
  /\ vpc \in (Early \ {"setup"}) \cup {"wrap", "wrapping", "set"} => icall = NoDoc
  /\ vpc \in Early \cup {"wrap", "wrapping", "set"} => ran.native = {}
  /\ vpc \in Early \cup {"wrap", "wrapping", "set", "native", "save", "remove"} =>
       ran.generated = {}
  /\ vpc \in {"native", "save"} => Says(icall, ran.native)
  /\ vpc \in {"generated", "save2"} => Says(icall, ran.generated)
  /\ vpc \in {"remove", "generated", "save2", "compare"} => Holds(baseline, ran.native)
  /\ vpc = "compare" => Holds(candidate, ran.generated)
  /\ vpc \notin {"trap", "restoring", "off"} => summary = {} /\ status = "none"
  /\ VerdictExact

\* The pairs of a document grow with its edges.
LEMMA PairsGrow ==
  /\ Pairs({}) = {}
  /\ \A A, B : Pairs(A \cup B) = Pairs(A) \cup Pairs(B)
BY DEF Pairs

\* cp: what jq lets through is loaded as it was recorded.
LEMMA SavedDocument ==
  ASSUME DocOK, NEW S, Says(icall, S), Usable(icall)
  PROVE  Holds([id \in {Json} |-> icall], S)
<1> DEFINE dir == [id \in {Json} |-> icall]
<1>1. DOMAIN dir = {Json} /\ dir[Json] = icall OBVIOUS
<1>2. icall.kind = "object" /\ Pairs(icall.entries) = S BY DEF Usable, Says
<1>3. \A e \in icall.entries : Address[e[1]] # Invalid /\ Address[e[2]] # Invalid
  BY ExecutedFacts DEF DocOK
<1> HIDE DEF dir
<1>4. Loadable(dir) BY <1>1, <1>2, <1>3 DEF Loadable
<1>5. LoadPairs(dir) = Pairs(icall.entries)
  <2>1. LoadPairs(dir)
          = UNION {{<<id, Address[e[1]], Address[e[2]]>> : e \in dir[id].entries} :
                     id \in {Json}}
    BY <1>1 DEF LoadPairs
  <2>2. \A x : x \in LoadPairs(dir) <=>
          x \in {<<Json, Address[e[1]], Address[e[2]]>> : e \in icall.entries}
    BY <1>1, <2>1
  <2> QED BY <2>2 DEF Pairs
<1> QED BY <1>2, <1>4, <1>5 DEF Holds, dir

\* Steps that leave the documents alone.
LEMMA SameVerdict ==
  ASSUME VerdictExact, UNCHANGED <<summary, ran>>,
         status' = status \/ status' \notin {"rejected", "passed"}
  PROVE  VerdictExact'
BY DEF VerdictExact

\* The documents follow the cases.
LEMMA VerdictStep ==
  ASSUME VerdictInv, PipelineInv, [PipelineNext]_pvars
  PROVE  VerdictInv'
<1>1. CASE GeneratorStep
  BY SameVerdict, <1>1 DEF VerdictInv, Early, Testing, fixed, control, docs, wrapVars,
    pipeline, GeneratorStep
<1>2. CASE User
  BY SameVerdict, <1>2 DEF VerdictInv, Early, Testing, fixed, control, docs, wrapVars,
    pipeline, User
<1>3. CASE Setup
  BY SameVerdict, <1>3 DEF VerdictInv, Early, Testing, fixed, docs, wrapVars, Then,
    Leave, Setup
<1>4. CASE CallGenerator
  BY SameVerdict, <1>4 DEF VerdictInv, Early, Testing, fixed, docs, wrapVars,
    CallGenerator
<1>5. CASE GeneratorReturns
  BY SameVerdict, <1>5 DEF VerdictInv, Early, Testing, fixed, docs, wrapVars, Then,
    Leave, GeneratorReturns
<1>6. CASE CopyTests
  BY SameVerdict, <1>6 DEF VerdictInv, Early, Testing, fixed, docs, wrapVars, Then,
    Leave, CopyTests
<1>7. CASE MakeAll
  BY SameVerdict, <1>7 DEF VerdictInv, Early, Testing, fixed, docs, Then, Leave,
    MakeAll
<1>8. CASE CallWrap
  BY SameVerdict, <1>8 DEF VerdictInv, Early, Testing, fixed, docs, Then, Leave,
    CallWrap
<1>9. CASE WrapStep
  BY SameVerdict, <1>9 DEF VerdictInv, Early, Testing, fixed, control, docs, WrapStep
<1>10. CASE WrapReturns
  BY SameVerdict, <1>10 DEF VerdictInv, Early, Testing, fixed, docs, Then, Leave,
    WrapReturns
<1>11. CASE SetWrapped
  <2>1. vpc = "set" /\ vpc' = "native" /\ UNCHANGED <<docs, status>>
    BY <1>11 DEF SetWrapped, Then
  <2>2. Says(NoDoc, {}) BY PairsGrow, OtherDocs DEF Says
  <2> QED BY <2>1, <2>2, SameVerdict DEF VerdictInv, docs, Early
<1>12. CASE RunCase
  <2> DEFINE E == Edges[lists[vpc][next]]
  <2>1. /\ vpc \in Testing /\ icall.kind # "torn" /\ next <= Len(lists[vpc])
        /\ icall' = Object(icall.entries \cup E)
        /\ ran' = [ran EXCEPT ![vpc] = ran[vpc] \cup Pairs(E)]
        /\ UNCHANGED <<vpc, status, baseline, candidate, summary>>
    BY <1>12 DEF RunCase
  <2>2. icall.entries \cup E \in SUBSET Executed
    <3>1. lists[vpc][next] \in DOMAIN Edges BY <2>1, CaseOfList DEF PipelineInv
    <3>2. E \subseteq Executed BY <3>1 DEF Executed
    <3> QED BY <3>2 DEF PipelineInv, DocOK
  <2>3. Pairs(icall.entries) = ran[vpc] BY <2>1 DEF VerdictInv, Says, Testing
  <2>4. Says(icall', ran[vpc] \cup Pairs(E))
    BY <2>1, <2>2, <2>3, ObjectFacts, PairsGrow DEF Says
  <2>5. DOMAIN ran = {"native", "generated"} BY DEF PipelineInv, ListsOK
  <2>6. status = "none" /\ summary = {} BY <2>1 DEF VerdictInv, Testing
  <2>7. VerdictExact' BY <2>1, <2>6 DEF VerdictExact
  <2>8. CASE vpc = "native"
    <3>1. ran'.native = ran[vpc] \cup Pairs(E) /\ ran'.generated = ran.generated
      BY <2>1, <2>5, <2>8
    <3> QED BY <2>1, <2>4, <2>6, <2>7, <2>8, <3>1 DEF VerdictInv, Early
  <2>9. CASE vpc = "generated"
    <3>1. ran'.generated = ran[vpc] \cup Pairs(E) /\ ran'.native = ran.native
      BY <2>1, <2>5, <2>9
    <3> QED BY <2>1, <2>4, <2>6, <2>7, <2>9, <3>1 DEF VerdictInv, Early
  <2> QED BY <2>1, <2>8, <2>9 DEF Testing
<1>13. CASE CaseDies
  <2>1. /\ vpc \in Testing
        /\ icall' = icall \/ icall' = TornDoc
        /\ UNCHANGED <<vpc, status, baseline, candidate, summary, ran>>
    BY <1>13 DEF CaseDies
  <2>2. \A S : Says(TornDoc, S) BY OtherDocs DEF Says
  <2> QED BY <2>1, <2>2, SameVerdict DEF VerdictInv, Early, Testing
<1>14. CASE CaseUnsaved
  <2>1. /\ vpc \in Testing
        /\ icall' = icall \/ icall' = TornDoc
        /\ UNCHANGED <<vpc, status, baseline, candidate, summary, ran>>
    BY <1>14 DEF CaseUnsaved
  <2>2. \A S : Says(TornDoc, S) BY OtherDocs DEF Says
  <2> QED BY <2>1, <2>2, SameVerdict DEF VerdictInv, Early, Testing
<1>15. CASE CheckEnd
  BY SameVerdict, <1>15 DEF VerdictInv, Early, Testing, fixed, docs, wrapVars, Then,
    Leave, CheckEnd
<1>16. CASE Save
  <2>1. UNCHANGED <<icall, summary, ran>> BY <1>16 DEF Save
  <2>2. CASE ~Usable(icall)
    <3>1. vpc' = "trap" /\ status' = "failed" BY <1>16, <2>2 DEF Save, Then, Leave, Early
    <3> QED BY <2>1, <3>1, SameVerdict DEF VerdictInv, Early
  <2>3. CASE Usable(icall) /\ vpc = "save"
    <3>1. /\ vpc' = "remove" /\ UNCHANGED <<status, candidate>>
          /\ baseline' = [id \in {Json} |-> icall]
      BY <1>16, <2>3 DEF Save, Then
    <3>2. Holds(baseline', ran.native)
      BY <2>3, <3>1, SavedDocument DEF VerdictInv, PipelineInv
    <3> QED BY <2>1, <2>3, <3>1, <3>2, SameVerdict DEF VerdictInv, Early
  <2>4. CASE Usable(icall) /\ vpc = "save2"
    <3>1. /\ vpc' = "compare" /\ UNCHANGED <<status, baseline>>
          /\ candidate' = [id \in {Json} |-> icall]
      BY <1>16, <2>4 DEF Save, Then
    <3>2. Holds(candidate', ran.generated)
      BY <2>4, <3>1, SavedDocument DEF VerdictInv, PipelineInv
    <3> QED BY <2>1, <2>4, <3>1, <3>2, SameVerdict DEF VerdictInv, Early
  <2> QED BY <1>16, <2>2, <2>3, <2>4 DEF Save
<1>17. CASE Remove
  <2>1. /\ vpc = "remove" /\ icall' = NoDoc /\ UNCHANGED <<baseline, summary, ran>>
        /\ \/ vpc' = "generated" /\ status' = status
           \/ vpc' = "trap" /\ status' = "failed"
    BY <1>17 DEF Remove, Then, Leave, Early
  <2>2. Says(NoDoc, {}) BY PairsGrow, OtherDocs DEF Says
  <2> QED BY <2>1, <2>2, SameVerdict DEF VerdictInv, Early
<1>18. CASE Compare
  <2> DEFINE s == Summary(ran.native, ran.generated)
  <2>1. vpc = "compare" /\ UNCHANGED <<icall, ran>> BY <1>18 DEF Compare
  <2>2. Holds(baseline, ran.native) /\ Holds(candidate, ran.generated)
    BY <2>1 DEF VerdictInv
  <2>3. summary' = {s} /\ vpc' = "trap"
        /\ status' = IF Enough(s) THEN "passed" ELSE "too few"
    BY <1>18, <2>1, <2>2 DEF Compare, Holds, Leave, Early
  <2>4. s.new_pair_count = Cardinality(ran.generated \ ran.native) BY DEF Summary
  <2>5. status' = "passed" => Cardinality(ran.generated \ ran.native) >= RequireNew
    BY <2>3, <2>4 DEF Enough
  <2>6. VerdictExact' BY <2>1, <2>3, <2>5 DEF VerdictExact
  <2> QED BY <2>1, <2>3, <2>6 DEF VerdictInv, Early
<1>19. CASE Trap
  BY SameVerdict, <1>19 DEF VerdictInv, Early, Testing, fixed, docs, wrapVars, Trap
<1>20. CASE RestoreStep
  BY SameVerdict, <1>20 DEF VerdictInv, Early, Testing, fixed, control, docs,
    RestoreStep
<1>21. CASE RestoreReturns
  BY SameVerdict, <1>21 DEF VerdictInv, Early, Testing, fixed, docs, RestoreReturns
<1>22. CASE Interrupted
  BY SameVerdict, <1>22 DEF VerdictInv, Early, Testing, fixed, docs, wrapVars, Leave,
    Interrupted
<1>23. CASE Crash
  BY SameVerdict, <1>23 DEF VerdictInv, Early, Testing, fixed, docs, wrapVars, Crash
<1>24. CASE UNCHANGED pvars
  BY SameVerdict, <1>24 DEF VerdictInv, Early, Testing, fixed, control, docs,
    wrapVars, pipeline, pvars
<1> QED
  BY <1>1, <1>2, <1>3, <1>4, <1>5, <1>6, <1>7, <1>8, <1>9, <1>10, <1>11, <1>12, <1>13,
    <1>14, <1>15, <1>16, <1>17, <1>18, <1>19, <1>20, <1>21, <1>22, <1>23, <1>24 DEF
    PipelineNext, Script

\* The summary is exact, and "passed" means RequireNew new pairs.
THEOREM VerdictIsExact == PipelineSpec => []VerdictExact
<1>1. PipelineInit => VerdictInv
  <2> SUFFICES ASSUME PipelineInit PROVE VerdictInv OBVIOUS
  <2>1. vpc \in {"setup", "off"} /\ status = "none" /\ summary = {}
        /\ ran.native = {} /\ ran.generated = {}
        /\ (root = "empty" => icall = NoDoc)
    BY DEF PipelineInit
  <2>2. VerdictExact BY <2>1 DEF VerdictExact
  <2> QED BY <2>1, <2>2 DEF VerdictInv, Early
<1>2. VerdictInv /\ PipelineInv /\ [PipelineNext]_pvars => VerdictInv'
  BY VerdictStep
<1>3. VerdictInv => VerdictExact
  BY DEF VerdictInv
<1> QED BY <1>1, <1>2, <1>3, PipelineInvariant, PTL DEF PipelineSpec
==============================================================================
