--------------------------- MODULE VerifyPipeline ---------------------------
(***************************************************************************)
(* verify_llm_pipeline.sh: the test generator, the wrap and restore        *)
(* scripts, MyPinTool and the pair comparison put together on the demo     *)
(* project.  The script runs under set -e; from "wrap" on an EXIT trap     *)
(* restores the demo's executable.  The module composes GenerateTests,     *)
(* WrapRestore (as W, for the one executable) and ComparePairs.            *)
(*                                                                         *)
(* caller tells the two ways the generator is used apart: by this script,  *)
(* or by a user, any number of times and without this script.              *)
(***************************************************************************)
EXTENDS GenerateTests, ComparePairs

CONSTANTS
  Offline,      \* offline_response.json
  TestDir,      \* tests, below the output directory of the generator
  TestFile,     \* tests/generated_cases.txt
  Edges,        \* Edges[c]: the indirect calls that test case c executes
  NativeLists,  \* what tests/native_cases.txt may hold
  GeneratedLists, \* what the generated file may hold
  RequireNew    \* --require-new

ASSUME OfflineAssumption ==
  /\ Offline \in Suite /\ {TestDir, TestFile} \subseteq GenPath
\* MyPinTool writes every address as a number.
ASSUME CasesAssumption ==
  /\ \A c \in DOMAIN Edges : \A e \in Edges[c] :
       e \in Text \X Text /\ Invalid \notin {Address[e[1]], Address[e[2]]}
  /\ NativeLists \cup GeneratedLists \subseteq Seq(DOMAIN Edges)
  /\ RequireNew \in Nat

VARIABLES
  caller,     \* user or verify
  root,       \* OUTPUT_ROOT before the start: empty or used
  lists,      \* the two case files
  vpc,        \* where the script is
  status,     \* how it ended
  wrapped,    \* wrapped
  next,       \* the next case of make check
  last,       \* did the loop's last command succeed?
  icall,      \* "$ICALL_JSON"; the ijump document exists and goes with it
  baseline,   \* BASELINE_DIR
  candidate,  \* CANDIDATE_DIR
  summary,    \* comparison.json, a set of at most one summary
  ran,        \* history: the pairs the cases of each list have executed, but for
              \* those of a case whose document was not written
  blame,      \* history: what kept the trap from restoring
  fs, tmp, script, step, at, todo, linked, json, artifact

Demo == "icall_demo"
Json == "icall_demo.orig_icall.json"

W == INSTANCE WrapRestore WITH
       Bin <- {Demo}, MaxVersion <- 1, Relinks <- FALSE,
       CanKill <- TRUE, CanFail <- TRUE

wrapVars == <<fs, tmp, script, step, at, todo, linked, json, artifact>>
docs     == <<icall, baseline, candidate, summary, ran>>
control  == <<vpc, status, wrapped, next, last, blame>>
fixed    == <<caller, root, lists>>
pipeline == <<fixed, control, docs, wrapVars>>
pvars    == <<genVars, pipeline>>

NoDoc     == [kind |-> "absent", entries |-> {}]
TornDoc   == [kind |-> "torn", entries |-> {}]
Object(E) == [kind |-> IF E = {} THEN "null" ELSE "object", entries |-> E]
NoFiles   == [id \in {} |-> NoDoc]

PipelineInit ==
  /\ GenInit /\ W!Init
  /\ caller \in {"user", "verify"}
  /\ root \in (IF caller = "verify" THEN {"empty", "used"} ELSE {"empty"})
  /\ lists \in [native : NativeLists, generated : GeneratedLists]
  /\ caller = "user" => lists = CHOOSE l \in [native : NativeLists,
                                              generated : GeneratedLists] : TRUE
  /\ vpc = IF caller = "verify" THEN "setup" ELSE "off"
  /\ status = "none" /\ wrapped = 0 /\ next = 1 /\ last = TRUE /\ blame = {}
  /\ icall = IF root = "used" THEN Object(UNION {Edges[c] : c \in DOMAIN Edges}) ELSE NoDoc
  /\ baseline = NoFiles /\ candidate = NoFiles /\ summary = {}
  /\ ran = [native |-> {}, generated |-> {}]

Early   == {"setup", "dry", "drying", "gen", "generating", "copy", "make"}
Testing == {"native", "generated"}

\* The script exits: the trap runs once it is set.
Leave(s) ==
  /\ status' = s
  /\ vpc' = IF vpc \in Early THEN "off" ELSE "trap"
  /\ blame' = IF vpc \in {"wrapping", "set"} THEN blame \cup {"wrap"} ELSE blame

\* The next command, or, under set -e, the end.
Then(ok, place) ==
  IF ok THEN vpc' = place /\ UNCHANGED <<status, blame>> ELSE Leave("failed")

-----------------------------------------------------------------------------
(* [1/7], [2/7]: the generator                                              *)

\* "Output directory must be empty"; the project is copied.
Setup ==
  /\ vpc = "setup"
  /\ Then(root = "empty", "dry")
  /\ UNCHANGED <<genVars, fixed, wrapped, next, last, docs, wrapVars>>

CallGenerator ==
  /\ \/ vpc = "dry" /\ Invoke("dry", FALSE) /\ vpc' = "drying"
     \/ vpc = "gen" /\ Invoke("file", FALSE) /\ vpc' = "generating"
  /\ UNCHANGED <<fixed, status, wrapped, next, last, blame, docs, wrapVars>>

GeneratorReturns ==
  /\ gpc = "idle"
  /\ \/ vpc = "drying" /\ Then(why = "dry", "gen")
     \/ vpc = "generating" /\ Then(why = "ok", "copy")
  /\ UNCHANGED <<genVars, fixed, wrapped, next, last, docs, wrapVars>>

\* A step of the generator, whoever has called it; the script has it read the
\* checked-in answer.
GeneratorStep ==
  /\ GenStep
  /\ caller = "verify" => answer' \in {NoSuite, Offline}
  /\ UNCHANGED pipeline

\* cp -a "$GENERATED_DIR/tests/." "$PROJECT_DIR/tests/"
CopyTests ==
  /\ vpc = "copy"
  /\ Then(TestDir \in dirs, "make")
  /\ UNCHANGED <<genVars, fixed, wrapped, next, last, docs, wrapVars>>

-----------------------------------------------------------------------------
(* [3/7], [4/7]: build and wrap                                             *)

MakeAll ==
  /\ vpc = "make"
  /\ W!Link(Demo)
  /\ Then(TRUE, "wrap")
  /\ UNCHANGED <<genVars, fixed, wrapped, next, last, docs>>

CallWrap ==
  /\ vpc = "wrap"
  /\ W!WrapStart
  /\ Then(TRUE, "wrapping")
  /\ UNCHANGED <<genVars, fixed, wrapped, next, last, docs>>

WrapStep ==
  /\ vpc = "wrapping"
  /\ \E p \in W!Path : W!WrapSkip(p) \/ W!WrapMove(p) \/ W!WrapWrite(p) \/ W!WrapInstall(p)
  /\ UNCHANGED <<genVars, fixed, control, docs>>

WrapReturns ==
  /\ vpc = "wrapping"
  /\ \/ W!WrapEnd /\ Then(TRUE, "set")
     \/ (W!CommandFails \/ \E p \in W!Path : W!WrapWriteFails(p)) /\ Leave("failed")
  /\ UNCHANGED <<genVars, fixed, wrapped, next, last, docs>>

\* The flag is forgotten.
SetWrappedForgotten ==
  /\ vpc = "set"
  /\ Then(TRUE, "native")
  /\ next' = 1 /\ last' = TRUE
  /\ UNCHANGED <<genVars, fixed, wrapped, docs, wrapVars>>

\* wrapped=1; make check starts.
SetWrapped ==
  /\ vpc = "set"
  /\ wrapped' = 1
  /\ Then(TRUE, "native")
  /\ next' = 1 /\ last' = TRUE
  /\ UNCHANGED <<genVars, fixed, docs, wrapVars>>

-----------------------------------------------------------------------------
(* [5/7], [6/7]: make check, jq and cp                                      *)

Pairs(E) == {<<Json, Address[e[1]], Address[e[2]]>> : e \in E}

\* A case runs under Pin and ends, with any exit status: its edges are merged
\* into the document and written back.
RunCase ==
  /\ vpc \in Testing /\ next <= Len(lists[vpc])
  /\ icall.kind # "torn"
  /\ W!RunTest(Demo)
  /\ LET E == Edges[lists[vpc][next]] IN
       /\ icall' = Object(icall.entries \cup E)
       /\ ran' = [ran EXCEPT ![vpc] = @ \cup Pairs(E)]
  /\ last' \in BOOLEAN
  /\ next' = next + 1
  /\ UNCHANGED <<genVars, fixed, vpc, status, wrapped, blame, baseline, candidate, summary>>

\* A case dies before its edges are written, or while they are; and every case
\* that finds a torn document aborts as it reads it.
CaseDies ==
  /\ vpc \in Testing /\ next <= Len(lists[vpc])
  /\ \/ UNCHANGED icall
     \/ icall' = TornDoc
  /\ last' = FALSE
  /\ next' = next + 1
  /\ UNCHANGED <<genVars, fixed, vpc, status, wrapped, blame, baseline, candidate,
                 summary, ran, wrapVars>>

\* A case runs to its end, but the lock, the open or the write of its document
\* fails: MyPinTool says nothing, and the exit status is that of the case.
CaseUnsaved ==
  /\ vpc \in Testing /\ next <= Len(lists[vpc])
  /\ icall.kind # "torn"
  /\ \/ UNCHANGED icall
     \/ icall' = TornDoc
  /\ last' \in BOOLEAN
  /\ next' = next + 1
  /\ UNCHANGED <<genVars, fixed, vpc, status, wrapped, blame, baseline, candidate,
                 summary, ran, wrapVars>>

\* The loop's exit status is that of its last case.
CheckEnd ==
  /\ vpc \in Testing /\ next > Len(lists[vpc])
  /\ Then(last, IF vpc = "native" THEN "save" ELSE "save2")
  /\ UNCHANGED <<genVars, fixed, wrapped, next, last, docs, wrapVars>>

\* jq -e 'type == "object" and length > 0'
Usable(doc) == doc.kind = "object"

\* jq, and cp to the baseline or the candidate.
Save ==
  /\ \/ /\ vpc = "save" /\ Then(Usable(icall), "remove")
        /\ baseline' = IF Usable(icall) THEN [id \in {Json} |-> icall] ELSE baseline
        /\ UNCHANGED candidate
     \/ /\ vpc = "save2" /\ Then(Usable(icall), "compare")
        /\ candidate' = IF Usable(icall) THEN [id \in {Json} |-> icall] ELSE candidate
        /\ UNCHANGED baseline
  /\ UNCHANGED <<genVars, fixed, wrapped, next, last, icall, summary, ran, wrapVars>>

\* rm is forgotten.
RemoveForgotten ==
  /\ vpc = "remove"
  /\ Then(TRUE, "generated")
  /\ next' = 1 /\ last' = TRUE
  /\ UNCHANGED <<genVars, fixed, wrapped, docs, wrapVars>>

\* rm -f -- "$ICALL_JSON" "$IJUMP_JSON"; make check looks for the copied file.
Remove ==
  /\ vpc = "remove"
  /\ icall' = NoDoc /\ json' = [json EXCEPT ![Demo] = {}]
  /\ Then(disk[TestFile].st # "none", "generated")
  /\ next' = 1 /\ last' = TRUE
  /\ UNCHANGED <<genVars, fixed, wrapped, baseline, candidate, summary, ran,
                 fs, tmp, script, step, at, todo, linked, artifact>>

-----------------------------------------------------------------------------
(* [7/7] and the trap                                                       *)

\* The exit status of compare_icall_pairs.
Enough(s) == s.new_pair_count >= RequireNew

\* The summary is written before it is judged.
Compare ==
  /\ vpc = "compare"
  /\ IF Loadable(baseline) /\ Loadable(candidate)
     THEN LET s == Summary(LoadPairs(baseline), LoadPairs(candidate)) IN
            /\ summary' = {s}
            /\ Leave(IF Enough(s) THEN "passed" ELSE "too few")
     ELSE Leave("rejected") /\ UNCHANGED summary
  /\ UNCHANGED <<genVars, fixed, wrapped, next, last, icall, baseline, candidate, ran, wrapVars>>

\* restore_binary: nothing to do, or restore_wrapped_elfs.sh is called.
Trap ==
  /\ vpc = "trap"
  /\ \/ wrapped = 0 /\ vpc' = "off" /\ UNCHANGED wrapVars
     \/ wrapped = 1 /\ W!RestoreStart /\ vpc' = "restoring"
  /\ UNCHANGED <<genVars, fixed, status, wrapped, next, last, blame, docs>>

RestoreStep ==
  /\ vpc = "restoring"
  /\ \E p \in W!Path : W!RestoreSkip(p) \/ W!RestoreRemove(p) \/ W!RestoreMove(p)
  /\ UNCHANGED <<genVars, fixed, control, docs>>

\* restore_wrapped_elfs.sh ... || true
RestoreReturns ==
  /\ vpc = "restoring"
  /\ \/ W!RestoreEnd /\ UNCHANGED blame
     \/ W!CommandFails /\ blame' = blame \cup {"restore"}
  /\ vpc' = "off"
  /\ UNCHANGED <<genVars, fixed, status, wrapped, next, last, docs>>

-----------------------------------------------------------------------------
\* A command of the script itself fails, or ^C ends it and what it is running.
Interrupted ==
  /\ vpc \notin {"off", "trap", "restoring"}
  /\ Leave("interrupted")
  /\ IF script = "none" THEN UNCHANGED wrapVars ELSE W!Kill
  /\ IF gpc = "idle" THEN UNCHANGED genVars ELSE Interrupt
  /\ UNCHANGED <<fixed, wrapped, next, last, docs>>

\* The script is killed, or interrupted once more in its trap.
Crash ==
  /\ vpc # "off"
  /\ vpc' = "off" /\ status' = "crashed" /\ blame' = blame \cup {"crash"}
  /\ IF script = "none" THEN UNCHANGED wrapVars ELSE W!Kill
  /\ IF gpc = "idle" THEN UNCHANGED genVars ELSE Interrupt
  /\ UNCHANGED <<fixed, wrapped, next, last, docs>>

\* The generator on its own.
User == caller = "user" /\ UNCHANGED pipeline
        /\ \/ \E m \in {"dry", "file", "live"}, f \in BOOLEAN : Invoke(m, f)
           \/ Interrupt
           \/ \E p \in GenPath : UserWrites(p)

Script ==
  \/ Setup \/ CallGenerator \/ GeneratorReturns \/ CopyTests
  \/ MakeAll \/ CallWrap \/ WrapStep \/ WrapReturns \/ SetWrapped
  \/ RunCase \/ CaseDies \/ CaseUnsaved \/ CheckEnd \/ Save \/ Remove
  \/ Compare \/ Trap \/ RestoreStep \/ RestoreReturns

PipelineNext == GeneratorStep \/ User \/ Script \/ Interrupted \/ Crash

\* Every command of the script and of the generator ends: make check runs a
\* program that terminates, and a request has a timeout.
PipelineSpec ==
  /\ PipelineInit /\ [][PipelineNext]_pvars
  /\ WF_pvars(GeneratorStep) /\ WF_pvars(Script)

-----------------------------------------------------------------------------
(* Properties.                                                              *)

\* Type invariant of the module.
PipelineTypeOK ==
  /\ GenTypeOK /\ W!TypeOK
  /\ caller \in {"user", "verify"} /\ root \in {"empty", "used"}
  /\ vpc \in Early \cup Testing \cup {"off", "wrap", "wrapping", "set", "save", "remove",
                                      "save2", "compare", "trap", "restoring"}
  /\ status \in {"none", "failed", "interrupted", "crashed", "passed", "too few", "rejected"}
  /\ wrapped \in {0, 1} /\ next \in Nat /\ last \in BOOLEAN
  /\ icall \in Document \cup {NoDoc}
  /\ blame \subseteq {"wrap", "restore", "crash"}

\* What the summary says is what the two runs of make check have executed under
\* Pin and MyPinTool has saved, and nothing else: no pair of the baseline, of an
\* earlier verification or of a case that died is counted for the candidate, and
\* no pair that was saved is lost to a later case.  And "passed" is only printed
\* when the generated cases have RequireNew saved pairs that the native ones have
\* not.  (The pairs of a save that fails silently are in neither: a native case
\* whose save failed makes its pairs look new.)  The jq tests keep away from the
\* comparison what it would reject: torn documents, and null, which MyPinTool
\* writes for a run without indirect calls.
VerdictExact ==
  /\ status # "rejected"
  /\ \A s \in summary : s = Summary(ran.native, ran.generated)
  /\ status = "passed" => Cardinality(ran.generated \ ran.native) >= RequireNew

\* Whatever fails or interrupts the script, the demo's executable is back in
\* its place when the script has ended, unless the wrap script did not reach
\* its end, the restore script failed, or the script was killed.
DemoRestored ==
  vpc = "off" /\ blame = {} /\ linked[Demo] = 1 =>
    fs[<<Demo, 0>>] = W!Elf(1) /\ fs[<<Demo, 1>>] = W!None

\* The script ends, with its trap; and every run of the generator, whoever calls
\* it, ends: its retries are bounded and every request has a timeout.
PipelineEnds ==
  /\ vpc # "off" ~> vpc = "off"
  /\ gpc # "idle" ~> gpc = "idle"
=============================================================================
