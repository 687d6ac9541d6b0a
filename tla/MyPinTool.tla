----------------------------- MODULE MyPinTool -----------------------------
(***************************************************************************)
(* MyPinTool.cpp: several runs (processes) of one non-PIE executable under *)
(* Pin, each with its own in-memory edge maps, sharing the two output      *)
(* files <image>_ijump.json and <image>_icall.json.  One action is one     *)
(* analysis callback or one system call of Fini; the runs interleave       *)
(* between them.                                                           *)
(***************************************************************************)
EXTENDS Naturals

CONSTANTS
  Proc,             \* the runs of the executable, forked children included
  Transfer,         \* the taken control transfers the program can execute
  TextBase,         \* first address of the main executable's .text
  TextHigh,         \* first address after it
  OverlappingFini,  \* may two runs be inside Fini at the same time?
  CanKill,          \* may a run die without reaching the end of Fini?
  CanFail           \* may open, flock or write fail (EMFILE, EINTR, ENOSPC)?

Kind == {"ijump", "icall"}                    \* in the order Fini takes them
Op   == {"icall", "ijump", "ret", "direct"}   \* the branch instructions

ASSUME TransferAssumption == Transfer \subseteq [ip : Nat, tgt : Nat, op : Op]
ASSUME TextAssumption     == TextBase \in Nat /\ TextHigh \in Nat
ASSUME FlagAssumption     == /\ OverlappingFini \in BOOLEAN
                             /\ CanKill \in BOOLEAN
                             /\ CanFail \in BOOLEAN

VARIABLES
  pc,       \* pc[p]: where run p is
  cur,      \* cur[p]: the kind Fini is loading or saving
  text,     \* text[p]: textSectionBase and textSectionHigh
  edges,    \* edges[p][k]: IndirectJumpEdges and IndirectCallEdges
  file,     \* file[k]: the output file of kind k
  holders,  \* holders[k]: the runs that hold the flock on that file
  taken     \* taken[p]: history, the transfers run p has executed

vars == <<pc, cur, text, edges, file, holders, taken>>

FiniPc  == {"load", "open", "flock", "trunc", "dump", "unlock"}
EndPc   == {"done", "aborted", "killed"}
Pc      == {"idle", "run"} \cup FiniPc \cup EndPc
Edge    == {<<t.ip, t.tgt>> : t \in Transfer}

(* A file is absent; torn (empty, or a strict prefix of a document, which   *)
(* the parser rejects); the document null; or a non-empty JSON object.      *)
FileState == {"absent", "torn", "null", "object"}
File      == [st : FileState, edges : SUBSET Edge]
TornFile  == [st |-> "torn", edges |-> {}]

Init ==
  /\ pc = [p \in Proc |-> "idle"]
  /\ cur = [p \in Proc |-> "ijump"]
  /\ text = [p \in Proc |-> [base |-> 0, high |-> 0]]
  /\ edges = [p \in Proc |-> [k \in Kind |-> {}]]
  /\ file = [k \in Kind |-> [st |-> "absent", edges |-> {}]]
  /\ holders = [k \in Kind |-> {}]
  /\ taken = [p \in Proc |-> {}]

-----------------------------------------------------------------------------
(* Instrumentation and recording.                                           *)

\* main and ImageLoad: the tool learns where .text is before any instruction
\* of the image runs.
ImageLoad(p) ==
  /\ pc[p] = "idle"
  /\ pc' = [pc EXCEPT ![p] = "run"]
  /\ text' = [text EXCEPT ![p] = [base |-> TextBase, high |-> TextHigh]]
  /\ UNCHANGED <<cur, edges, file, holders, taken>>

\* The same range with its end included.
InTextClosed(p, a) == text[p].base <= a /\ a <= text[p].high

\* The range test of Instruction and, for both ends, of RecordIndirectEdge.
InText(p, a) == text[p].base <= a /\ a < text[p].high

\* Instruction without the returns.
InstructionNoReturn(p, t) == t.op \in {"icall", "ijump"} /\ InText(p, t.ip)

\* Instruction: INS_IsIndirectControlFlow holds of calls and jumps through a
\* register or memory, and of returns.
Instruction(p, t) == t.op \in {"icall", "ijump", "ret"} /\ InText(p, t.ip)

\* isCall selects the map: everything that is not a call counts as a jump.
KindOf(t) == IF t.op = "icall" THEN "icall" ELSE "ijump"

RecordIndirectEdge(p, t) ==
  IF Instruction(p, t) /\ InText(p, t.ip) /\ InText(p, t.tgt)
  THEN [edges[p] EXCEPT ![KindOf(t)] = @ \cup {<<t.ip, t.tgt>>}]
  ELSE edges[p]

\* The program takes a branch.  The mutex makes the recording atomic among
\* the threads of p; a repeated transfer changes nothing.
Take(p, t) ==
  /\ pc[p] = "run"
  /\ t \notin taken[p]
  /\ taken' = [taken EXCEPT ![p] = @ \cup {t}]
  /\ edges' = [edges EXCEPT ![p] = RecordIndirectEdge(p, t)]
  /\ UNCHANGED <<pc, cur, text, file, holders>>

\* The program forks: the child runs under Pin with a copy of the maps.
Fork(p, c) ==
  /\ pc[p] = "run" /\ pc[c] = "idle"
  /\ pc' = [pc EXCEPT ![c] = "run"]
  /\ text' = [text EXCEPT ![c] = text[p]]
  /\ edges' = [edges EXCEPT ![c] = edges[p]]
  /\ taken' = [taken EXCEPT ![c] = taken[p]]
  /\ UNCHANGED <<cur, file, holders>>

\* The program exits and Pin calls Fini.
Exit(p) ==
  /\ pc[p] = "run"
  /\ OverlappingFini \/ \A q \in Proc : pc[q] \notin FiniPc
  /\ pc' = [pc EXCEPT ![p] = "load"]
  /\ UNCHANGED <<cur, text, edges, file, holders, taken>>

-----------------------------------------------------------------------------
(* LoadEdgesFromJSON, for ijump and then for icall.                         *)

\* Fini with the second load forgotten.
AfterLoadSkipsIcall(p) ==
  cur' = [cur EXCEPT ![p] = "ijump"] /\ pc' = [pc EXCEPT ![p] = "open"]

\* The load of cur[p] returns: Fini goes on to the next load or to the saves.
AfterLoad(p) ==
  IF cur[p] = "ijump"
  THEN cur' = [cur EXCEPT ![p] = "icall"] /\ UNCHANGED pc
  ELSE cur' = [cur EXCEPT ![p] = "ijump"] /\ pc' = [pc EXCEPT ![p] = "open"]

\* A load that replaces the map instead of adding to it.
LoadReplaces(p) ==
  /\ pc[p] = "load"
  /\ file[cur[p]].st # "torn"
  /\ edges' = [edges EXCEPT ![p][cur[p]] = file[cur[p]].edges]
  /\ AfterLoad(p)
  /\ UNCHANGED <<text, file, holders, taken>>

\* No file: nothing to merge.  null has no items.  No lock is taken.
LoadEdgesFromJSON(p) ==
  /\ pc[p] = "load"
  /\ file[cur[p]].st # "torn"
  /\ edges' = [edges EXCEPT ![p][cur[p]] = @ \cup file[cur[p]].edges]
  /\ AfterLoad(p)
  /\ UNCHANGED <<text, file, holders, taken>>

\* in >> j meets an incomplete document.  Pin tools are built without
\* exceptions, so the parse error aborts the process.
LoadAborts(p) ==
  /\ pc[p] = "load"
  /\ file[cur[p]].st = "torn"
  /\ pc' = [pc EXCEPT ![p] = "aborted"]
  /\ UNCHANGED <<cur, text, edges, file, holders, taken>>

\* if (!in) return;  the file exists and cannot be opened.
LoadCannotOpen(p) ==
  /\ CanFail
  /\ pc[p] = "load"
  /\ file[cur[p]].st # "absent"
  /\ AfterLoad(p)
  /\ UNCHANGED <<text, edges, file, holders, taken>>

-----------------------------------------------------------------------------
(* SaveEdgesAsJSON, for ijump and then for icall.                           *)

\* The save of cur[p] returns.
AfterSave(p) ==
  IF cur[p] = "ijump"
  THEN /\ cur' = [cur EXCEPT ![p] = "icall"]
       /\ pc' = [pc EXCEPT ![p] = "open"]
  ELSE /\ pc' = [pc EXCEPT ![p] = "done"]
       /\ UNCHANGED cur

\* Fini holds the lock already, from before its load: flock on a second
\* descriptor of the same file then waits for its own process.
OpenLockFileHeld(p) ==
  /\ pc[p] = "open"
  /\ holders[cur[p]] = {}
  /\ holders' = [holders EXCEPT ![cur[p]] = {p}]
  /\ file' = [file EXCEPT ![cur[p]] = IF @.st = "absent" THEN TornFile ELSE @]
  /\ pc' = [pc EXCEPT ![p] = "flock"]
  /\ UNCHANGED <<cur, text, edges, taken>>

\* The constructor of FileLock: open with O_CREAT leaves an empty file where
\* there was none, before the lock is taken.
OpenLockFile(p) ==
  /\ pc[p] = "open"
  /\ file' = [file EXCEPT ![cur[p]] = IF @.st = "absent" THEN TornFile ELSE @]
  /\ pc' = [pc EXCEPT ![p] = "flock"]
  /\ UNCHANGED <<cur, text, edges, holders, taken>>

\* FileLock::lock: flock(fd, LOCK_EX) waits until nobody holds the lock.
Lock(p) ==
  /\ pc[p] = "flock"
  /\ holders[cur[p]] = {}
  /\ holders' = [holders EXCEPT ![cur[p]] = {p}]
  /\ pc' = [pc EXCEPT ![p] = "trunc"]
  /\ UNCHANGED <<cur, text, edges, file, taken>>

\* A failed lock that is not noticed: the save goes on.
LockFailsUnnoticed(p) ==
  /\ CanFail
  /\ pc[p] \in {"open", "flock"}
  /\ pc' = [pc EXCEPT ![p] = "trunc"]
  /\ UNCHANGED <<cur, text, edges, file, holders, taken>>

\* if (!lock.lock()) return;  no descriptor, or flock fails: nothing is
\* saved and nothing is reported.
LockFails(p) ==
  /\ CanFail
  /\ pc[p] \in {"open", "flock"}
  /\ AfterSave(p)
  /\ UNCHANGED <<text, edges, file, holders, taken>>

\* std::ofstream out(path) truncates the file ...
Truncate(p) ==
  /\ pc[p] = "trunc"
  /\ file' = [file EXCEPT ![cur[p]] = TornFile]
  /\ pc' = [pc EXCEPT ![p] = "dump"]
  /\ UNCHANGED <<cur, text, edges, holders, taken>>

\* ... or cannot open it: the stream swallows the document.
TruncateFails(p) ==
  /\ CanFail
  /\ pc[p] = "trunc"
  /\ pc' = [pc EXCEPT ![p] = "unlock"]
  /\ UNCHANGED <<cur, text, edges, file, holders, taken>>

\* j.dump(2): a json to which no key was added is null, not {}.
Document(es) == [st |-> IF es = {} THEN "null" ELSE "object", edges |-> es]

\* A dump that writes nothing when there is nothing to say.
DumpUnlessEmpty(p) ==
  /\ pc[p] = "dump"
  /\ file' = [file EXCEPT ![cur[p]] =
               IF edges[p][cur[p]] = {} THEN @ ELSE Document(edges[p][cur[p]])]
  /\ pc' = [pc EXCEPT ![p] = "unlock"]
  /\ UNCHANGED <<cur, text, edges, holders, taken>>

\* out << j.dump(2) << std::endl; out.close();
Dump(p) ==
  /\ pc[p] = "dump"
  /\ file' = [file EXCEPT ![cur[p]] = Document(edges[p][cur[p]])]
  /\ pc' = [pc EXCEPT ![p] = "unlock"]
  /\ UNCHANGED <<cur, text, edges, holders, taken>>

\* A write error is never looked at: the file stays torn.
DumpFails(p) ==
  /\ CanFail
  /\ pc[p] = "dump"
  /\ pc' = [pc EXCEPT ![p] = "unlock"]
  /\ UNCHANGED <<cur, text, edges, file, holders, taken>>

\* lock.unlock() and the destructor's close.
Unlock(p) ==
  /\ pc[p] = "unlock"
  /\ holders' = [holders EXCEPT ![cur[p]] = @ \ {p}]
  /\ AfterSave(p)
  /\ UNCHANGED <<text, edges, file, taken>>

-----------------------------------------------------------------------------
\* The run ends without finishing Fini: a fatal signal, the SIGTERM or SIGKILL
\* of a test timeout, execve.  The kernel drops its flock.
Kill(p) ==
  /\ CanKill
  /\ pc[p] \in {"run"} \cup FiniPc
  /\ pc' = [pc EXCEPT ![p] = "killed"]
  /\ holders' = [k \in Kind |-> holders[k] \ {p}]
  /\ UNCHANGED <<cur, text, edges, file, taken>>

\* Every run has ended: the system may stop.
Terminated ==
  /\ \A p \in Proc : pc[p] \in EndPc
  /\ UNCHANGED vars

\* The steps of Fini that do not depend on a failure.
FiniStep(p) ==
  \/ LoadEdgesFromJSON(p) \/ LoadAborts(p)
  \/ OpenLockFile(p) \/ Lock(p) \/ Truncate(p) \/ Dump(p) \/ Unlock(p)

FaultStep(p) ==
  \/ LoadCannotOpen(p) \/ LockFails(p) \/ TruncateFails(p) \/ DumpFails(p)
  \/ Kill(p)

Next ==
  \/ \E p \in Proc :
       \/ ImageLoad(p)
       \/ \E t \in Transfer : Take(p, t)
       \/ \E c \in Proc : Fork(p, c)
       \/ Exit(p)
       \/ FiniStep(p)
       \/ FaultStep(p)
  \/ Terminated

Spec == Init /\ [][Next]_vars

\* A process inside Fini is scheduled, and flock(2) wakes a waiter when the
\* lock is free.  Nothing obliges the program itself to run or to exit.
Fairness == \A p \in Proc : WF_vars(FiniStep(p))

FairSpec == Spec /\ Fairness

-----------------------------------------------------------------------------
(* Properties.                                                              *)

\* Type invariant of the module.
TypeOK ==
  /\ pc \in [Proc -> Pc]
  /\ cur \in [Proc -> Kind]
  /\ text \in [Proc -> [base : Nat, high : Nat]]
  /\ edges \in [Proc -> [Kind -> SUBSET Edge]]
  /\ file \in [Kind -> File]
  /\ holders \in [Kind -> SUBSET Proc]
  /\ taken \in [Proc -> SUBSET Transfer]

\* The edges of kind k that a set of executed transfers amounts to: indirect,
\* with both ends inside the real .text.
RealEdges(ts, k) ==
  {<<t.ip, t.tgt>> : t \in {u \in ts :
     /\ u.op # "direct" /\ KindOf(u) = k
     /\ TextBase <= u.ip  /\ u.ip < TextHigh
     /\ TextBase <= u.tgt /\ u.tgt < TextHigh}}

\* Everything any run has executed.
AllTaken == UNION {taken[p] : p \in Proc}

\* Soundness of the ground truth: whatever the interleaving, kills and failed
\* system calls, an edge in an output file was really executed by some run, is
\* of that file's kind, and lies inside .text at both ends.
FileSound == \A k \in Kind : file[k].edges \subseteq RealEdges(AllTaken, k)

\* Completeness in memory: a run never misses an edge, and once its Fini is
\* past the loads its map holds at least everything the run itself executed.
MemoryComplete ==
  \A p \in Proc, k \in Kind : RealEdges(taken[p], k) \subseteq edges[p][k]

\* The flock serialises the saves: no two runs are between truncation and
\* unlock of the same file.
ExclusiveSave ==
  \A p, q \in Proc :
    ( /\ pc[p] \in {"trunc", "dump", "unlock"}
      /\ pc[q] \in {"trunc", "dump", "unlock"}
      /\ cur[p] = cur[q] ) => p = q

\* Without kills and failed calls a torn file is only ever seen while a run is
\* inside the save of that file: when everybody is out, both files parse.
TornOnlyDuringSave ==
  ~CanKill /\ ~CanFail =>
    \A k \in Kind :
      file[k].st = "torn" =>
        \E p \in Proc : cur[p] = k /\ pc[p] \in {"flock", "trunc", "dump"}

\* An existing file is only ever modified by a run that holds its lock, and
\* holds it alone, even when lock calls fail.
WriteUnderLock ==
  [][\A k \in Kind :
       file[k].st # "absent" /\ file'[k] # file[k] =>
         \E p \in Proc : /\ holders[k] = {p} /\ cur[p] = k
                        /\ pc[p] \in {"trunc", "dump"}]_vars

\* Nobody is inside Fini.
Quiet == \A p \in Proc : pc[p] \notin FiniPc

\* "merge + save": when no Fini is in progress, everything that a run executed
\* which completed its Fini is in the output files, whoever saved after it.
NoEdgeLost ==
  Quiet =>
    \A p \in Proc, k \in Kind :
      pc[p] = "done" => RealEdges(taken[p], k) \subseteq file[k].edges

\* "Load existing JSON and merge": what earlier runs left behind never makes a
\* later run die in Fini and lose everything it recorded.
NoAbort == \A p \in Proc : pc[p] # "aborted"

\* Fini always comes to an end: no run waits for a flock for ever, even if
\* others die while they hold it.
FiniEnds == \A p \in Proc : pc[p] \in FiniPc ~> pc[p] \in EndPc

-----------------------------------------------------------------------------
(* The abstract store.  A save takes effect when it truncates the file: from *)
(* then on the document it is going to write counts as published.            *)
Published(k) ==
  file[k].edges \cup
    UNION {edges[p][k] : p \in {q \in Proc : pc[q] = "dump" /\ cur[q] = k}}

SeenBar  == [p \in Proc |-> [k \in Kind |-> RealEdges(taken[p], k)]]
StoreBar == [k \in Kind |-> Published(k)]

Abstract == INSTANCE GroundTruth WITH seen <- SeenBar, store <- StoreBar

\* With one Fini at a time and no kill or failed call, every step of the tool
\* observes an edge, forks, merges one run's edges into the store, or changes
\* nothing a reader of the files can see: the tool implements GroundTruth.
ImplementsGroundTruth == Abstract!Spec
=============================================================================
