-------------------------- MODULE MyPinToolProofs --------------------------
(***************************************************************************)
(* Theorems about MyPinTool, for any set of runs, any program and any      *)
(* .text section.                                                          *)
(***************************************************************************)
EXTENDS MyPinTool, TLAPS

-----------------------------------------------------------------------------
(* The type invariant.                                                      *)

LEMMA RecordType ==
  ASSUME TypeOK, NEW p \in Proc, NEW t \in Transfer
  PROVE  RecordIndirectEdge(p, t) \in [Kind -> SUBSET Edge]
BY DEF TypeOK, RecordIndirectEdge, KindOf, Kind, Edge

LEMMA NextKeepsType == TypeOK /\ [Next]_vars => TypeOK'
<1> SUFFICES ASSUME TypeOK, [Next]_vars PROVE TypeOK'
  OBVIOUS
<1> USE DEF TypeOK, Pc, FiniPc, EndPc, Kind
<1>1. ASSUME NEW p \in Proc, ImageLoad(p) PROVE TypeOK'
  BY <1>1, TextAssumption DEF ImageLoad
<1>2. ASSUME NEW p \in Proc, NEW t \in Transfer, Take(p, t) PROVE TypeOK'
  BY <1>2, RecordType DEF Take
<1>3. ASSUME NEW p \in Proc, NEW c \in Proc, Fork(p, c) PROVE TypeOK'
  BY <1>3 DEF Fork
<1>4. ASSUME NEW p \in Proc, Exit(p) PROVE TypeOK'
  BY <1>4 DEF Exit
<1>5. ASSUME NEW p \in Proc, LoadEdgesFromJSON(p) PROVE TypeOK'
  <2>1. cur[p] \in Kind /\ file[cur[p]].edges \in SUBSET Edge
    BY DEF File
  <2>2. edges[p][cur[p]] \cup file[cur[p]].edges \in SUBSET Edge
    BY <2>1
  <2>3. edges' \in [Proc -> [Kind -> SUBSET Edge]]
    BY <1>5, <2>1, <2>2 DEF LoadEdgesFromJSON
  <2>4. pc' \in [Proc -> Pc] /\ cur' \in [Proc -> Kind]
    BY <1>5 DEF LoadEdgesFromJSON, AfterLoad
  <2> QED
    BY <1>5, <2>3, <2>4 DEF LoadEdgesFromJSON
<1>6. ASSUME NEW p \in Proc, LoadAborts(p) PROVE TypeOK'
  BY <1>6 DEF LoadAborts
<1>7. ASSUME NEW p \in Proc, LoadCannotOpen(p) PROVE TypeOK'
  BY <1>7 DEF LoadCannotOpen, AfterLoad
<1>8. ASSUME NEW p \in Proc, OpenLockFile(p) PROVE TypeOK'
  BY <1>8 DEF OpenLockFile, TornFile, File, FileState
<1>9. ASSUME NEW p \in Proc, Lock(p) PROVE TypeOK'
  BY <1>9 DEF Lock
<1>10. ASSUME NEW p \in Proc, LockFails(p) PROVE TypeOK'
  BY <1>10 DEF LockFails, AfterSave
<1>11. ASSUME NEW p \in Proc, Truncate(p) PROVE TypeOK'
  BY <1>11 DEF Truncate, TornFile, File, FileState
<1>12. ASSUME NEW p \in Proc, TruncateFails(p) PROVE TypeOK'
  BY <1>12 DEF TruncateFails
<1>13. ASSUME NEW p \in Proc, Dump(p) PROVE TypeOK'
  BY <1>13 DEF Dump, Document, File, FileState
<1>14. ASSUME NEW p \in Proc, DumpFails(p) PROVE TypeOK'
  BY <1>14 DEF DumpFails
<1>15. ASSUME NEW p \in Proc, Unlock(p) PROVE TypeOK'
  BY <1>15 DEF Unlock, AfterSave
<1>16. ASSUME NEW p \in Proc, Kill(p) PROVE TypeOK'
  BY <1>16 DEF Kill
<1>17. CASE UNCHANGED vars
  BY <1>17 DEF vars
<1> QED
  BY <1>1, <1>2, <1>3, <1>4, <1>5, <1>6, <1>7, <1>8, <1>9, <1>10, <1>11,
     <1>12, <1>13, <1>14, <1>15, <1>16, <1>17
  DEF Next, FiniStep, FaultStep, Terminated

LEMMA InitType == Init => TypeOK
BY TextAssumption DEF Init, TypeOK, Pc, FiniPc, EndPc, Kind, File, FileState

\* Every variable always has its type: in particular the maps and the files
\* only ever hold edges of transfers the program can take.
THEOREM TypeCorrect == Spec => []TypeOK
BY InitType, NextKeepsType, PTL DEF Spec

-----------------------------------------------------------------------------
(* The lock.                                                                *)

\* Whoever is past lock() and before unlock() of a file holds its flock, and a
\* flock has at most one holder.
LockInv ==
  /\ \A p \in Proc : pc[p] \in {"trunc", "dump", "unlock"} => p \in holders[cur[p]]
  /\ \A k \in Kind : \A p, q \in holders[k] : p = q

LEMMA NextKeepsLock == TypeOK /\ LockInv /\ [Next]_vars => LockInv'
<1> SUFFICES ASSUME TypeOK, LockInv, [Next]_vars PROVE LockInv'
  OBVIOUS
<1> USE DEF TypeOK, LockInv, Kind
<1>1. ASSUME NEW p \in Proc, ImageLoad(p) PROVE LockInv'
  BY <1>1 DEF ImageLoad
<1>2. ASSUME NEW p \in Proc, NEW t \in Transfer, Take(p, t) PROVE LockInv'
  BY <1>2 DEF Take
<1>3. ASSUME NEW p \in Proc, NEW c \in Proc, Fork(p, c) PROVE LockInv'
  BY <1>3 DEF Fork
<1>4. ASSUME NEW p \in Proc, Exit(p) PROVE LockInv'
  BY <1>4 DEF Exit
<1>5. ASSUME NEW p \in Proc, LoadEdgesFromJSON(p) PROVE LockInv'
  BY <1>5 DEF LoadEdgesFromJSON, AfterLoad
<1>6. ASSUME NEW p \in Proc, LoadAborts(p) PROVE LockInv'
  BY <1>6 DEF LoadAborts
<1>7. ASSUME NEW p \in Proc, LoadCannotOpen(p) PROVE LockInv'
  BY <1>7 DEF LoadCannotOpen, AfterLoad
<1>8. ASSUME NEW p \in Proc, OpenLockFile(p) PROVE LockInv'
  BY <1>8 DEF OpenLockFile
<1>9. ASSUME NEW p \in Proc, Lock(p) PROVE LockInv'
  BY <1>9 DEF Lock
<1>10. ASSUME NEW p \in Proc, LockFails(p) PROVE LockInv'
  BY <1>10 DEF LockFails, AfterSave
<1>11. ASSUME NEW p \in Proc, Truncate(p) PROVE LockInv'
  BY <1>11 DEF Truncate
<1>12. ASSUME NEW p \in Proc, TruncateFails(p) PROVE LockInv'
  BY <1>12 DEF TruncateFails
<1>13. ASSUME NEW p \in Proc, Dump(p) PROVE LockInv'
  BY <1>13 DEF Dump
<1>14. ASSUME NEW p \in Proc, DumpFails(p) PROVE LockInv'
  BY <1>14 DEF DumpFails
<1>15. ASSUME NEW p \in Proc, Unlock(p) PROVE LockInv'
  BY <1>15 DEF Unlock, AfterSave
<1>16. ASSUME NEW p \in Proc, Kill(p) PROVE LockInv'
  BY <1>16 DEF Kill
<1>17. CASE UNCHANGED vars
  BY <1>17 DEF vars
<1> QED
  BY <1>1, <1>2, <1>3, <1>4, <1>5, <1>6, <1>7, <1>8, <1>9, <1>10, <1>11,
     <1>12, <1>13, <1>14, <1>15, <1>16, <1>17
  DEF Next, FiniStep, FaultStep, Terminated

\* FileLock: the flock of a file has at most one holder, and a run between lock()
\* and unlock() of SaveEdgesAsJSON is that holder.
THEOREM LockCorrect == Spec => []LockInv
<1>1. Init => LockInv
  BY DEF Init, LockInv
<1> QED
  BY <1>1, TypeCorrect, NextKeepsLock, PTL DEF Spec

\* The saves of one file exclude each other, for any number of runs and in
\* spite of kills and failing calls.
THEOREM SavesExclude == Spec => []ExclusiveSave
<1>1. TypeOK /\ LockInv => ExclusiveSave
  BY DEF TypeOK, LockInv, ExclusiveSave
<1> QED
  BY <1>1, TypeCorrect, LockCorrect, PTL

\* An output file that exists is only modified by the run that holds its lock.
THEOREM WritesAreLocked == Spec => WriteUnderLock
<1> DEFINE Locked(k) == file[k].st # "absent" /\ file'[k] # file[k] =>
                          \E p \in Proc : /\ holders[k] = {p} /\ cur[p] = k
                                         /\ pc[p] \in {"trunc", "dump"}
<1>1. TypeOK /\ LockInv /\ [Next]_vars => [\A k \in Kind : Locked(k)]_vars
  <2> SUFFICES ASSUME TypeOK, LockInv, Next, NEW k \in Kind,
                      file[k].st # "absent", file'[k] # file[k]
               PROVE  \E p \in Proc : /\ holders[k] = {p} /\ cur[p] = k
                                      /\ pc[p] \in {"trunc", "dump"}
    OBVIOUS
  <2>1. PICK p \in Proc : OpenLockFile(p) \/ Truncate(p) \/ Dump(p)
    BY DEF Next, FiniStep, FaultStep, Terminated, vars, ImageLoad, Take, Fork, Exit,
           LoadEdgesFromJSON, LoadAborts, LoadCannotOpen, Lock, LockFails,
           TruncateFails, DumpFails, Unlock, Kill
  <2>2. CASE OpenLockFile(p)
    BY <2>2 DEF OpenLockFile, TypeOK
  <2>3. CASE Truncate(p) \/ Dump(p)
    <3>1. cur[p] = k /\ pc[p] \in {"trunc", "dump"}
      BY <2>3 DEF Truncate, Dump, TypeOK
    <3>2. holders[k] = {p}
      BY <3>1 DEF LockInv
    <3> QED
      BY <3>1, <3>2
  <2> QED
    BY <2>1, <2>2, <2>3
<1> QED
  BY <1>1, TypeCorrect, LockCorrect, PTL DEF Spec, WriteUnderLock

-----------------------------------------------------------------------------
(* Soundness and completeness of what is recorded.                          *)

LEMMA RealMonotone ==
  ASSUME NEW A, NEW B, A \subseteq B, NEW k
  PROVE  RealEdges(A, k) \subseteq RealEdges(B, k)
BY DEF RealEdges

LEMMA RealEmpty == \A k : RealEdges({}, k) = {}
BY DEF RealEdges

\* RecordIndirectEdge adds to the maps exactly the real edge of the transfer.
LEMMA RecordIsExact ==
  ASSUME TypeOK, NEW p \in Proc, NEW t \in Transfer, NEW k \in Kind,
         text[p] = [base |-> TextBase, high |-> TextHigh]
  PROVE  RecordIndirectEdge(p, t)[k] = edges[p][k] \cup RealEdges({t}, k)
<1>1. t.op \in Op /\ t.ip \in Nat /\ t.tgt \in Nat
  BY TransferAssumption
<1>2. Instruction(p, t) <=> t.op # "direct" /\ TextBase <= t.ip /\ t.ip < TextHigh
  BY <1>1 DEF Instruction, InText, Op
<1>3. InText(p, t.tgt) <=> TextBase <= t.tgt /\ t.tgt < TextHigh
  BY DEF InText
<1> DEFINE Real == Instruction(p, t) /\ InText(p, t.ip) /\ InText(p, t.tgt)
<1>4. InText(p, t.ip) <=> TextBase <= t.ip /\ t.ip < TextHigh
  BY DEF InText
<1>5. RealEdges({t}, k) = IF Real /\ KindOf(t) = k THEN {<<t.ip, t.tgt>>} ELSE {}
  BY <1>2, <1>3, <1>4 DEF RealEdges
<1>6. KindOf(t) \in Kind
  BY DEF KindOf, Kind
<1>7. CASE Real
  BY <1>5, <1>6, <1>7 DEF RecordIndirectEdge, TypeOK
<1>8. CASE ~Real
  BY <1>5, <1>8 DEF RecordIndirectEdge
<1> QED
  BY <1>7, <1>8

\* The parts of the inductive invariant: the section bounds are known before
\* anything runs, a run that has not started knows nothing, a map holds at
\* least what its run executed, and maps and files hold only what was executed.
TextKnown ==
  \A p \in Proc : pc[p] # "idle" => text[p] = [base |-> TextBase, high |-> TextHigh]
IdleEmpty == \A p \in Proc : pc[p] = "idle" => taken[p] = {}
MemorySound == \A p \in Proc, k \in Kind : edges[p][k] \subseteq RealEdges(AllTaken, k)
SoundInv == TextKnown /\ IdleEmpty /\ MemoryComplete /\ MemorySound /\ FileSound

\* A transfer adds to the maps exactly its real edge, if it has one.
LEMMA TakeIsExact ==
  ASSUME TypeOK, TextKnown, NEW p \in Proc, NEW t \in Transfer, Take(p, t)
  PROVE  \A k \in Kind : edges'[p][k] = edges[p][k] \cup RealEdges({t}, k)
<1>1. text[p] = [base |-> TextBase, high |-> TextHigh]
  BY DEF Take, TextKnown
<1>2. edges'[p] = RecordIndirectEdge(p, t)
  BY DEF Take, TypeOK
<1>3. ASSUME NEW k \in Kind
      PROVE  RecordIndirectEdge(p, t)[k] = edges[p][k] \cup RealEdges({t}, k)
  BY ONLY TypeOK, <1>1, RecordIsExact, p \in Proc, t \in Transfer, k \in Kind
<1> QED
  BY ONLY <1>2, <1>3

\* Steps that leave the history alone only have to account for the files and
\* the maps.
LEMMA NextKeepsSound == TypeOK /\ SoundInv /\ [Next]_vars => SoundInv'
<1> SUFFICES ASSUME TypeOK, SoundInv, [Next]_vars PROVE SoundInv'
  OBVIOUS
<1> USE DEF TypeOK, SoundInv, TextKnown, IdleEmpty, MemoryComplete, MemorySound,
            FileSound
<1>0. ASSUME UNCHANGED taken PROVE UNCHANGED AllTaken
  BY <1>0 DEF AllTaken
<1>1. ASSUME NEW p \in Proc, ImageLoad(p) PROVE SoundInv'
  BY <1>1, <1>0 DEF ImageLoad
<1>2. ASSUME NEW p \in Proc, NEW t \in Transfer, Take(p, t) PROVE SoundInv'
  <2>1. \A k \in Kind : edges'[p][k] = edges[p][k] \cup RealEdges({t}, k)
    BY ONLY <1>2, TypeOK, TextKnown, TakeIsExact, p \in Proc, t \in Transfer
  <2>2. \A q \in Proc : q # p => edges'[q] = edges[q] /\ taken'[q] = taken[q]
    BY <1>2 DEF Take
  <2>3. taken'[p] = taken[p] \cup {t}
    BY <1>2 DEF Take
  <2>4. AllTaken' = AllTaken \cup {t}
    <3>1. \A x : x \in AllTaken <=> \E q \in Proc : x \in taken[q]
      BY DEF AllTaken
    <3>2. \A x : x \in AllTaken' <=> \E q \in Proc : x \in taken'[q]
      BY DEF AllTaken
    <3>3. ASSUME NEW x PROVE x \in AllTaken' <=> x \in AllTaken \/ x = t
      <4>1. ASSUME x \in AllTaken' PROVE x \in AllTaken \/ x = t
        <5>1. PICK q \in Proc : x \in taken'[q] BY ONLY <3>2, <4>1
        <5> QED BY ONLY <2>2, <2>3, <3>1, <5>1
      <4>2. ASSUME x \in AllTaken PROVE x \in AllTaken'
        <5>1. PICK q \in Proc : x \in taken[q] BY ONLY <3>1, <4>2
        <5> QED BY ONLY <2>2, <2>3, <3>2, <5>1
      <4>3. t \in AllTaken' BY ONLY <2>3, <3>2, p \in Proc
      <4> QED BY ONLY <4>1, <4>2, <4>3
    <3> QED
      BY <3>3
  <2>5. \A k \in Kind : RealEdges(taken'[p], k) = RealEdges(taken[p], k) \cup RealEdges({t}, k)
    BY ONLY <2>3 DEF RealEdges
  <2>6. \A k \in Kind : RealEdges(AllTaken', k) = RealEdges(AllTaken, k) \cup RealEdges({t}, k)
    BY ONLY <2>4 DEF RealEdges
  <2>7. MemoryComplete'
    <3> SUFFICES ASSUME NEW q \in Proc, NEW k \in Kind
                 PROVE  RealEdges(taken'[q], k) \subseteq edges'[q][k]
      OBVIOUS
    <3>1. RealEdges(taken[q], k) \subseteq edges[q][k]
      OBVIOUS
    <3> QED
      BY ONLY <3>1, <2>1, <2>2, <2>5, p \in Proc, q \in Proc, k \in Kind
  <2>8. MemorySound'
    <3> SUFFICES ASSUME NEW q \in Proc, NEW k \in Kind
                 PROVE  edges'[q][k] \subseteq RealEdges(AllTaken', k)
      OBVIOUS
    <3>1. edges[q][k] \subseteq RealEdges(AllTaken, k)
      OBVIOUS
    <3> QED
      BY ONLY <3>1, <2>1, <2>2, <2>6, p \in Proc, q \in Proc, k \in Kind
  <2>9. FileSound'
    BY <1>2, <2>6 DEF Take
  <2>10. TextKnown' /\ IdleEmpty'
    BY <1>2 DEF Take
  <2> QED
    BY <2>7, <2>8, <2>9, <2>10
<1>3. ASSUME NEW p \in Proc, NEW c \in Proc, Fork(p, c) PROVE SoundInv'
  <2>1. taken'[c] = taken[p] /\ edges'[c] = edges[p]
    BY <1>3 DEF Fork
  <2>2. \A q \in Proc : q # c => edges'[q] = edges[q] /\ taken'[q] = taken[q]
    BY <1>3 DEF Fork
  <2>3. AllTaken \subseteq AllTaken'
    BY <1>3, <2>1, <2>2 DEF AllTaken, Fork
  <2>4. \A k \in Kind : RealEdges(AllTaken, k) \subseteq RealEdges(AllTaken', k)
    BY <2>3, RealMonotone
  <2>5. MemoryComplete'
    BY <2>1, <2>2
  <2>6. MemorySound'
    BY <2>1, <2>2, <2>4
  <2>7. FileSound'
    BY <1>3, <2>4 DEF Fork
  <2>8. TextKnown' /\ IdleEmpty'
    BY <1>3 DEF Fork
  <2> QED
    BY <2>5, <2>6, <2>7, <2>8
<1>4. ASSUME NEW p \in Proc, Exit(p) PROVE SoundInv'
  BY <1>4, <1>0 DEF Exit
<1>5. ASSUME NEW p \in Proc, LoadEdgesFromJSON(p) PROVE SoundInv'
  <2>0. cur[p] \in Kind
    OBVIOUS
  <2>1. \A q \in Proc, k \in Kind :
          edges'[q][k] = IF q = p /\ k = cur[p] THEN edges[q][k] \cup file[k].edges
                                                ELSE edges[q][k]
    BY <1>5, <2>0 DEF LoadEdgesFromJSON
  <2>2. UNCHANGED <<AllTaken, taken, file, text>>
    BY <1>5, <1>0 DEF LoadEdgesFromJSON
  <2>3. MemoryComplete' /\ MemorySound' /\ FileSound'
    <3> SUFFICES ASSUME NEW q \in Proc, NEW k \in Kind
                 PROVE  /\ RealEdges(taken[q], k) \subseteq edges'[q][k]
                        /\ edges'[q][k] \subseteq RealEdges(AllTaken, k)
      BY <2>2
    <3>1. /\ RealEdges(taken[q], k) \subseteq edges[q][k]
          /\ edges[q][k] \subseteq RealEdges(AllTaken, k)
          /\ file[k].edges \subseteq RealEdges(AllTaken, k)
      OBVIOUS
    <3> QED
      BY ONLY <3>1, <2>1, q \in Proc, k \in Kind
  <2>4. TextKnown' /\ IdleEmpty'
    BY <1>5 DEF LoadEdgesFromJSON, AfterLoad
  <2> QED
    BY <2>3, <2>4
<1>6. ASSUME NEW p \in Proc, LoadAborts(p) PROVE SoundInv'
  BY <1>6, <1>0 DEF LoadAborts
<1>7. ASSUME NEW p \in Proc, LoadCannotOpen(p) PROVE SoundInv'
  BY <1>7, <1>0 DEF LoadCannotOpen, AfterLoad
<1>8. ASSUME NEW p \in Proc, OpenLockFile(p) PROVE SoundInv'
  BY <1>8, <1>0 DEF OpenLockFile, TornFile
<1>9. ASSUME NEW p \in Proc, Lock(p) PROVE SoundInv'
  BY <1>9, <1>0 DEF Lock
<1>10. ASSUME NEW p \in Proc, LockFails(p) PROVE SoundInv'
  BY <1>10, <1>0 DEF LockFails, AfterSave
<1>11. ASSUME NEW p \in Proc, Truncate(p) PROVE SoundInv'
  BY <1>11, <1>0 DEF Truncate, TornFile
<1>12. ASSUME NEW p \in Proc, TruncateFails(p) PROVE SoundInv'
  BY <1>12, <1>0 DEF TruncateFails
<1>13. ASSUME NEW p \in Proc, Dump(p) PROVE SoundInv'
  BY <1>13, <1>0 DEF Dump, Document
<1>14. ASSUME NEW p \in Proc, DumpFails(p) PROVE SoundInv'
  BY <1>14, <1>0 DEF DumpFails
<1>15. ASSUME NEW p \in Proc, Unlock(p) PROVE SoundInv'
  BY <1>15, <1>0 DEF Unlock, AfterSave
<1>16. ASSUME NEW p \in Proc, Kill(p) PROVE SoundInv'
  BY <1>16, <1>0 DEF Kill, FiniPc
<1>17. CASE UNCHANGED vars
  BY <1>17, <1>0 DEF vars
<1> QED
  BY <1>1, <1>2, <1>3, <1>4, <1>5, <1>6, <1>7, <1>8, <1>9, <1>10, <1>11,
     <1>12, <1>13, <1>14, <1>15, <1>16, <1>17
  DEF Next, FiniStep, FaultStep, Terminated

LEMMA SoundCorrect == Spec => []SoundInv
<1>1. Init => SoundInv
  BY RealEmpty DEF Init, SoundInv, TextKnown, IdleEmpty, MemoryComplete, MemorySound,
     FileSound
<1> QED
  BY <1>1, TypeCorrect, NextKeepsSound, PTL DEF Spec

\* No interleaving, kill or failed call ever puts an edge into an output file
\* that no run executed, or that is of the other kind or outside .text.
THEOREM FilesAreSound == Spec => []FileSound
BY SoundCorrect, PTL DEF SoundInv

\* No run ever misses an indirect edge it executed inside .text.
THEOREM MemoryIsComplete == Spec => []MemoryComplete
BY SoundCorrect, PTL DEF SoundInv

-----------------------------------------------------------------------------
(* One Fini at a time, nobody killed, no call failing.                      *)

Serial == ~OverlappingFini /\ ~CanKill /\ ~CanFail

\* Has Fini of run p merged the file of kind k into its map?
Loaded(p, k) ==
  \/ pc[p] \in {"open", "flock", "trunc", "dump", "unlock"}
  \/ pc[p] = "load" /\ cur[p] = "icall" /\ k = "ijump"

\* Has it published that map?
Saved(p, k) ==
  \/ pc[p] = "done"
  \/ /\ pc[p] \in {"open", "flock", "trunc", "dump", "unlock"}
     /\ \/ cur[p] = "icall" /\ k = "ijump"
        \/ cur[p] = k /\ pc[p] \in {"dump", "unlock"}

\* The inductive invariant.  Between its load and its save, a run's map is
\* exactly the published store plus what the run executed: that is what makes
\* the truncation a merge, and it needs the file to stand still meanwhile.
OneFini == \A p, q \in Proc : pc[p] \in FiniPc /\ pc[q] \in FiniPc => p = q
StartAtIjump == \A p \in Proc : pc[p] \in {"idle", "run"} => cur[p] = "ijump"
AbsentEmpty == \A k \in Kind : file[k].st = "absent" => file[k].edges = {}
UnloadedExact ==
  \A p \in Proc, k \in Kind :
    pc[p] \in {"idle", "run", "load"} /\ ~Loaded(p, k) =>
      edges[p][k] = RealEdges(taken[p], k)
LoadedExact ==
  \A p \in Proc, k \in Kind :
    Loaded(p, k) => edges[p][k] = Published(k) \cup RealEdges(taken[p], k)
SavedPublished ==
  \A p \in Proc, k \in Kind :
    Saved(p, k) => RealEdges(taken[p], k) \subseteq Published(k)
SerialInv ==
  /\ OneFini /\ StartAtIjump /\ AbsentEmpty
  /\ UnloadedExact /\ LoadedExact /\ SavedPublished

LEMMA PublishedMember ==
  \A k : \A x : x \in Published(k) <=>
    \/ x \in file[k].edges
    \/ \E q \in Proc : pc[q] = "dump" /\ cur[q] = k /\ x \in edges[q][k]
BY DEF Published

LEMMA PublishedMemberNext ==
  \A k : \A x : x \in Published(k)' <=>
    \/ x \in file'[k].edges
    \/ \E q \in Proc : pc'[q] = "dump" /\ cur'[q] = k /\ x \in edges'[q][k]
BY DEF Published

\* A step that leaves the files' edges and the runs at "dump" alone publishes
\* nothing.
LEMMA PublishedKept ==
  ASSUME \A k \in Kind : file'[k].edges = file[k].edges,
         \A q \in Proc : pc'[q] = "dump" <=> pc[q] = "dump",
         \A q \in Proc : pc[q] = "dump" => cur'[q] = cur[q] /\ edges'[q] = edges[q]
  PROVE  \A k \in Kind : Published(k)' = Published(k)
<1> TAKE k \in Kind
<1>1. \A x : x \in Published(k)' <=> x \in Published(k)
  BY PublishedMember, PublishedMemberNext
<1> QED
  BY <1>1

\* Truncation publishes the run's map.
LEMMA TruncatePublishes ==
  ASSUME TypeOK, SerialInv, NEW p \in Proc, Truncate(p), NEW k \in Kind
  PROVE  Published(k)' = IF k = cur[p] THEN Published(k) \cup RealEdges(taken[p], k)
                                       ELSE Published(k)
<1>1. \A q \in Proc : pc[q] # "dump"
  BY DEF Truncate, SerialInv, OneFini, FiniPc
<1>2. \A q \in Proc : pc'[q] = "dump" <=> q = p
  BY <1>1 DEF Truncate, TypeOK
<1>3. UNCHANGED <<cur, edges>>
  BY DEF Truncate
<1>4. CASE k = cur[p]
  <2>1. file'[k].edges = {}
    BY <1>4 DEF Truncate, TypeOK, TornFile
  <2>2. \A x : x \in Published(k)' <=> x \in edges[p][k]
    BY <1>2, <1>3, <1>4, <2>1, PublishedMemberNext
  <2>3. edges[p][k] = Published(k) \cup RealEdges(taken[p], k)
    BY DEF Truncate, SerialInv, LoadedExact, Loaded
  <2> QED
    BY <1>4, <2>2, <2>3
<1>5. CASE k # cur[p]
  <2>1. file'[k] = file[k]
    BY <1>5 DEF Truncate, TypeOK
  <2>2. \A x : x \in Published(k)' <=> x \in Published(k)
    BY <1>1, <1>2, <1>3, <1>5, <2>1, PublishedMember, PublishedMemberNext
  <2> QED
    BY <1>5, <2>2
<1> QED
  BY <1>4, <1>5

\* Writing the document changes nothing any more.
LEMMA DumpKeepsPublished ==
  ASSUME TypeOK, SerialInv, NEW p \in Proc, Dump(p), NEW k \in Kind
  PROVE  Published(k)' = Published(k)
<1>1. \A q \in Proc : pc[q] = "dump" <=> q = p
  BY DEF Dump, SerialInv, OneFini, FiniPc
<1>2. \A q \in Proc : pc'[q] # "dump"
  BY <1>1 DEF Dump, TypeOK
<1>3. UNCHANGED <<cur, edges>>
  BY DEF Dump
<1>4. CASE k = cur[p]
  <2>1. file'[k].edges = edges[p][k]
    BY <1>4 DEF Dump, TypeOK, Document
  <2>2. \A x : x \in Published(k)' <=> x \in edges[p][k]
    BY <1>2, <2>1, PublishedMemberNext
  <2>3. edges[p][k] = Published(k) \cup RealEdges(taken[p], k)
    BY DEF Dump, SerialInv, LoadedExact, Loaded
  <2>4. \A x : x \in edges[p][k] => x \in Published(k)
    BY <1>1, <1>4, PublishedMember
  <2>5. \A x : x \in Published(k)' <=> x \in Published(k)
    BY <2>2, <2>3, <2>4
  <2> QED
    BY <2>5
<1>5. CASE k # cur[p]
  <2>1. file'[k] = file[k]
    BY <1>5 DEF Dump, TypeOK
  <2>2. \A x : x \in Published(k)' <=> x \in Published(k)
    BY <1>1, <1>2, <1>3, <1>5, <2>1, PublishedMember, PublishedMemberNext
  <2> QED
    BY <2>2
<1> QED
  BY <1>4, <1>5

\* A load reads exactly what is published: nobody else is in Fini.
LEMMA LoadReadsPublished ==
  ASSUME TypeOK, SerialInv, NEW p \in Proc, pc[p] = "load", NEW k \in Kind
  PROVE  Published(k) = file[k].edges
<1>1. \A q \in Proc : pc[q] # "dump"
  BY DEF SerialInv, OneFini, FiniPc
<1>2. \A x : x \in Published(k) <=> x \in file[k].edges
  BY <1>1, PublishedMember
<1> QED
  BY <1>2

LEMMA NextKeepsSerial ==
  ASSUME Serial PROVE TypeOK /\ SoundInv /\ SerialInv /\ [Next]_vars => SerialInv'
<1> SUFFICES ASSUME TypeOK, SoundInv, SerialInv, [Next]_vars PROVE SerialInv'
  OBVIOUS
<1> USE DEF TypeOK, Kind, SerialInv, OneFini, StartAtIjump, AbsentEmpty, UnloadedExact,
            LoadedExact, SavedPublished, Loaded, Saved, FiniPc
<1>1. ASSUME NEW p \in Proc, ImageLoad(p) PROVE SerialInv'
  <2>1. \A k \in Kind : Published(k)' = Published(k)
    BY <1>1, PublishedKept DEF ImageLoad
  <2> QED
    BY <1>1, <2>1 DEF ImageLoad
<1>2. ASSUME NEW p \in Proc, NEW t \in Transfer, Take(p, t) PROVE SerialInv'
  <2>1. \A k \in Kind : Published(k)' = Published(k)
    BY <1>2, PublishedKept DEF Take
  <2>2. \A k \in Kind : edges'[p][k] = edges[p][k] \cup RealEdges({t}, k)
    <3>1. TextKnown
      BY DEF SoundInv
    <3> QED
      BY ONLY <1>2, <3>1, TypeOK, TakeIsExact, p \in Proc, t \in Transfer
  <2>3. taken'[p] = taken[p] \cup {t}
    BY <1>2 DEF Take
  <2>4. \A k \in Kind : RealEdges(taken'[p], k) = RealEdges(taken[p], k) \cup RealEdges({t}, k)
    BY ONLY <2>3 DEF RealEdges
  <2>5. \A k \in Kind : edges[p][k] = RealEdges(taken[p], k)
    BY <1>2 DEF Take
  <2>6. \A k \in Kind : edges'[p][k] = RealEdges(taken'[p], k)
    BY <2>2, <2>4, <2>5
  <2> QED
    BY <1>2, <2>1, <2>6 DEF Take
<1>3. ASSUME NEW p \in Proc, NEW c \in Proc, Fork(p, c) PROVE SerialInv'
  <2>1. \A k \in Kind : Published(k)' = Published(k)
    BY <1>3, PublishedKept DEF Fork
  <2>2. /\ pc'[c] = "run" /\ cur'[c] = "ijump"
        /\ edges'[c] = edges[p] /\ taken'[c] = taken[p]
        /\ \A k \in Kind : edges[p][k] = RealEdges(taken[p], k)
    BY <1>3 DEF Fork
  <2>3. \A q \in Proc : q # c =>
          /\ pc'[q] = pc[q] /\ cur'[q] = cur[q]
          /\ edges'[q] = edges[q] /\ taken'[q] = taken[q]
    BY <1>3 DEF Fork
  <2>4. UNCHANGED file
    BY <1>3 DEF Fork
  <2>5. OneFini' /\ StartAtIjump' /\ AbsentEmpty'
    BY <2>2, <2>3, <2>4
  <2>6. UnloadedExact'
    BY <2>2, <2>3
  <2>7. LoadedExact' /\ SavedPublished'
    <3> SUFFICES ASSUME NEW q \in Proc, NEW k \in Kind
                 PROVE  /\ Loaded(q, k)' =>
                             edges'[q][k] = Published(k) \cup RealEdges(taken'[q], k)
                        /\ Saved(q, k)' => RealEdges(taken'[q], k) \subseteq Published(k)
      BY <2>1
    <3>1. CASE q = c
      BY <2>2, <3>1
    <3>2. CASE q # c
      BY <2>3, <3>2
    <3> QED
      BY <3>1, <3>2
  <2> QED
    BY <2>5, <2>6, <2>7
<1>4. ASSUME NEW p \in Proc, Exit(p) PROVE SerialInv'
  <2>1. \A k \in Kind : Published(k)' = Published(k)
    BY <1>4, PublishedKept DEF Exit
  <2> QED
    BY <1>4, <2>1 DEF Exit, Serial
<1>5. ASSUME NEW p \in Proc, LoadEdgesFromJSON(p) PROVE SerialInv'
  <2>1. \A k \in Kind : Published(k)' = Published(k)
    BY <1>5, PublishedKept DEF LoadEdgesFromJSON, AfterLoad
  <2>2. \A k \in Kind : Published(k) = file[k].edges
    BY <1>5, LoadReadsPublished DEF LoadEdgesFromJSON
  <2>3. cur[p] \in Kind
    OBVIOUS
  <2>4. /\ \A q \in Proc, k \in Kind :
             edges'[q][k] = IF q = p /\ k = cur[p] THEN edges[q][k] \cup Published(k)
                                                   ELSE edges[q][k]
        /\ UNCHANGED <<file, taken>>
    BY <1>5, <2>2, <2>3 DEF LoadEdgesFromJSON
  <2>5. edges[p][cur[p]] = RealEdges(taken[p], cur[p])
    BY <1>5 DEF LoadEdgesFromJSON
  <2>6. OneFini' /\ StartAtIjump' /\ AbsentEmpty'
    <3>1. \A q \in Proc : q # p => pc'[q] = pc[q] /\ cur'[q] = cur[q]
      BY <1>5 DEF LoadEdgesFromJSON, AfterLoad
    <3>2. pc[p] = "load" /\ pc'[p] \in {"load", "open"}
      BY <1>5 DEF LoadEdgesFromJSON, AfterLoad
    <3> QED
      BY <2>4, <3>1, <3>2
  <2>7. \A q \in Proc, k \in Kind : Saved(q, k)' => Saved(q, k)
    BY <1>5 DEF LoadEdgesFromJSON, AfterLoad
  <2>8. \A q \in Proc, k \in Kind :
          Loaded(q, k)' => Loaded(q, k) \/ (q = p /\ k = cur[p])
    BY <1>5 DEF LoadEdgesFromJSON, AfterLoad
  <2>9. \A q \in Proc, k \in Kind :
          pc'[q] \in {"idle", "run", "load"} /\ ~Loaded(q, k)' =>
            /\ pc[q] \in {"idle", "run", "load"} /\ ~Loaded(q, k)
            /\ ~(q = p /\ k = cur[p])
    BY <1>5 DEF LoadEdgesFromJSON, AfterLoad
  <2>10. SavedPublished'
    BY <2>1, <2>4, <2>7
  <2>11. UnloadedExact'
    <3> SUFFICES ASSUME NEW q \in Proc, NEW k \in Kind,
                        pc'[q] \in {"idle", "run", "load"}, ~Loaded(q, k)'
                 PROVE  edges'[q][k] = RealEdges(taken[q], k)
      BY <2>4
    <3>1. /\ pc[q] \in {"idle", "run", "load"} /\ ~Loaded(q, k)
          /\ ~(q = p /\ k = cur[p])
      BY <2>9
    <3>2. edges'[q][k] = edges[q][k]
      BY <2>4, <3>1
    <3> QED
      BY <3>1, <3>2
  <2>12. LoadedExact'
    <3> SUFFICES ASSUME NEW q \in Proc, NEW k \in Kind, Loaded(q, k)'
                 PROVE  edges'[q][k] = Published(k) \cup RealEdges(taken[q], k)
      BY <2>1, <2>4
    <3>1. CASE q = p /\ k = cur[p]
      <4>1. edges'[p][k] = edges[p][k] \cup Published(k)
        BY <2>4, <3>1
      <4>2. edges[p][k] = RealEdges(taken[p], k)
        BY <2>5, <3>1
      <4> QED
        BY ONLY <3>1, <4>1, <4>2
    <3>2. CASE ~(q = p /\ k = cur[p])
      <4>1. Loaded(q, k)
        BY <2>8, <3>2
      <4>2. edges'[q][k] = edges[q][k]
        BY <2>4, <3>2
      <4> QED
        BY <4>1, <4>2
    <3> QED
      BY <3>1, <3>2
  <2> QED
    BY <2>6, <2>10, <2>11, <2>12
<1>6. ASSUME NEW p \in Proc, LoadAborts(p) PROVE SerialInv'
  <2>1. \A k \in Kind : Published(k)' = Published(k)
    BY <1>6, PublishedKept DEF LoadAborts
  <2> QED
    BY <1>6, <2>1 DEF LoadAborts
<1>7. ASSUME NEW p \in Proc, OpenLockFile(p) PROVE SerialInv'
  <2>1. \A k \in Kind : Published(k)' = Published(k)
    BY <1>7, PublishedKept DEF OpenLockFile, TornFile
  <2> QED
    BY <1>7, <2>1 DEF OpenLockFile, TornFile
<1>8. ASSUME NEW p \in Proc, Lock(p) PROVE SerialInv'
  <2>1. \A k \in Kind : Published(k)' = Published(k)
    BY <1>8, PublishedKept DEF Lock
  <2> QED
    BY <1>8, <2>1 DEF Lock
<1>9. ASSUME NEW p \in Proc, Truncate(p) PROVE SerialInv'
  <2>1. \A k \in Kind :
          Published(k)' = IF k = cur[p] THEN Published(k) \cup RealEdges(taken[p], k)
                                        ELSE Published(k)
    BY <1>9, TruncatePublishes
  <2> QED
    BY <1>9, <2>1 DEF Truncate, TornFile
<1>10. ASSUME NEW p \in Proc, Dump(p) PROVE SerialInv'
  <2>1. \A k \in Kind : Published(k)' = Published(k)
    BY <1>10, DumpKeepsPublished
  <2> QED
    BY <1>10, <2>1 DEF Dump, Document
<1>11. ASSUME NEW p \in Proc, Unlock(p) PROVE SerialInv'
  <2>1. \A k \in Kind : Published(k)' = Published(k)
    BY <1>11, PublishedKept DEF Unlock, AfterSave
  <2>2. UNCHANGED <<edges, taken, file>>
    BY <1>11 DEF Unlock
  <2>3. /\ \A q \in Proc : q # p => pc'[q] = pc[q] /\ cur'[q] = cur[q]
        /\ pc[p] = "unlock" /\ pc'[p] \in {"open", "done"}
    BY <1>11 DEF Unlock, AfterSave
  <2>4. OneFini' /\ StartAtIjump' /\ AbsentEmpty' /\ UnloadedExact'
    <3>1. OneFini' BY <2>3
    <3>2. StartAtIjump' BY <2>3
    <3>3. AbsentEmpty' BY <2>2
    <3>4. UnloadedExact' BY <2>2, <2>3
    <3> QED BY <3>1, <3>2, <3>3, <3>4
  <2>5. \A q \in Proc, k \in Kind : Loaded(q, k)' => Loaded(q, k)
    BY <2>3
  <2>6. \A q \in Proc, k \in Kind : Saved(q, k)' => Saved(q, k)
    BY <1>11, <2>3 DEF Unlock, AfterSave
  <2>7. LoadedExact'
    BY <2>1, <2>2, <2>5
  <2>8. SavedPublished'
    BY <2>1, <2>2, <2>6
  <2> QED
    BY <2>4, <2>7, <2>8
<1>12. CASE UNCHANGED vars
  <2>1. \A k \in Kind : Published(k)' = Published(k)
    BY <1>12, PublishedKept DEF vars
  <2> QED
    BY <1>12, <2>1 DEF vars
<1>13. ASSUME NEW p \in Proc PROVE ~FaultStep(p)
  BY DEF FaultStep, LoadCannotOpen, LockFails, TruncateFails, DumpFails, Kill, Serial
<1> QED
  BY <1>1, <1>2, <1>3, <1>4, <1>5, <1>6, <1>7, <1>8, <1>9, <1>10, <1>11, <1>12, <1>13
  DEF Next, FiniStep, Terminated

LEMMA SerialCorrect ==
  ASSUME Serial PROVE Spec => []SerialInv
<1>1. Init => SerialInv
  <2> SUFFICES ASSUME Init PROVE SerialInv
    OBVIOUS
  <2>1. \A p \in Proc, k \in Kind : ~Loaded(p, k) /\ ~Saved(p, k)
    BY DEF Init, Loaded, Saved
  <2>2. \A p \in Proc, k \in Kind : edges[p][k] = {} /\ RealEdges(taken[p], k) = {}
    BY RealEmpty DEF Init
  <2> QED
    BY <2>1, <2>2 DEF Init, SerialInv, OneFini, StartAtIjump, AbsentEmpty, UnloadedExact,
       LoadedExact, SavedPublished, FiniPc
<1>2. TypeOK /\ SoundInv /\ SerialInv /\ [Next]_vars => SerialInv'
  BY NextKeepsSerial
<1> QED
  BY <1>1, <1>2, TypeCorrect, SoundCorrect, PTL DEF Spec

\* When the Fini callbacks of the runs do not overlap, nobody is killed and no
\* call fails, the files hold everything that every completed run executed.
THEOREM NothingIsLost ==
  ASSUME Serial PROVE Spec => []NoEdgeLost
<1>1. SerialInv => NoEdgeLost
  <2> SUFFICES ASSUME SerialInv, Quiet, NEW p \in Proc, NEW k \in Kind, pc[p] = "done"
               PROVE  RealEdges(taken[p], k) \subseteq file[k].edges
    BY DEF NoEdgeLost
  <2>1. \A q \in Proc : pc[q] # "dump"
    BY DEF Quiet, FiniPc
  <2>2. \A x : x \in Published(k) => x \in file[k].edges
    BY <2>1, PublishedMember
  <2>3. RealEdges(taken[p], k) \subseteq Published(k)
    BY DEF SerialInv, SavedPublished, Saved
  <2> QED
    BY <2>2, <2>3
<1> QED
  BY <1>1, SerialCorrect, PTL

-----------------------------------------------------------------------------
(* Torn files.                                                              *)

LEMMA NextKeepsTorn ==
  TypeOK /\ TornOnlyDuringSave /\ [Next]_vars => TornOnlyDuringSave'
<1> SUFFICES ASSUME TypeOK, TornOnlyDuringSave, [Next]_vars, ~CanKill, ~CanFail,
                    NEW k \in Kind, file'[k].st = "torn"
             PROVE  \E p \in Proc : cur'[p] = k /\ pc'[p] \in {"flock", "trunc", "dump"}
  BY DEF TornOnlyDuringSave
<1> DEFINE Saving(q) == cur[q] = k /\ pc[q] \in {"flock", "trunc", "dump"}
<1>0. file[k].st = "torn" => \E q \in Proc : Saving(q)
  BY DEF TornOnlyDuringSave
<1> USE DEF TypeOK
<1>1. ASSUME NEW p \in Proc, OpenLockFile(p) PROVE \E q \in Proc : Saving(q)'
  <2>1. CASE k = cur[p]
    BY <1>1, <2>1 DEF OpenLockFile
  <2>2. CASE k # cur[p]
    BY <1>0, <1>1, <2>2 DEF OpenLockFile
  <2> QED
    BY <2>1, <2>2
<1>2. ASSUME NEW p \in Proc, Lock(p) PROVE \E q \in Proc : Saving(q)'
  BY <1>0, <1>2 DEF Lock
<1>3. ASSUME NEW p \in Proc, Truncate(p) PROVE \E q \in Proc : Saving(q)'
  <2>1. CASE k = cur[p]
    BY <1>3, <2>1 DEF Truncate
  <2>2. CASE k # cur[p]
    BY <1>0, <1>3, <2>2 DEF Truncate
  <2> QED
    BY <2>1, <2>2
<1>4. ASSUME NEW p \in Proc, Dump(p) PROVE \E q \in Proc : Saving(q)'
  <2>1. k # cur[p]
    BY <1>4 DEF Dump, Document
  <2> QED
    BY <1>0, <1>4, <2>1 DEF Dump
<1>5. ASSUME NEW p \in Proc, Unlock(p) PROVE \E q \in Proc : Saving(q)'
  BY <1>0, <1>5 DEF Unlock, AfterSave
<1>6. ASSUME NEW p \in Proc, LoadEdgesFromJSON(p) \/ LoadAborts(p)
      PROVE  \E q \in Proc : Saving(q)'
  BY <1>0, <1>6 DEF LoadEdgesFromJSON, LoadAborts, AfterLoad
<1>7. ASSUME NEW p \in Proc, ImageLoad(p) \/ Exit(p) \/ (\E t \in Transfer : Take(p, t))
      PROVE  \E q \in Proc : Saving(q)'
  BY <1>0, <1>7 DEF ImageLoad, Exit, Take
<1>8. ASSUME NEW p \in Proc, NEW c \in Proc, Fork(p, c) PROVE \E q \in Proc : Saving(q)'
  BY <1>0, <1>8 DEF Fork
<1>9. CASE UNCHANGED vars
  BY <1>0, <1>9 DEF vars
<1>10. ASSUME NEW p \in Proc PROVE ~FaultStep(p)
  BY DEF FaultStep, LoadCannotOpen, LockFails, TruncateFails, DumpFails, Kill
<1> QED
  BY <1>1, <1>2, <1>3, <1>4, <1>5, <1>6, <1>7, <1>8, <1>9, <1>10
  DEF Next, FiniStep, Terminated

\* Without kills and failed calls, however the Fini callbacks overlap, a file is
\* torn only while some run is saving it.
THEOREM TornFilesAreTransient == Spec => []TornOnlyDuringSave
<1>1. Init => TornOnlyDuringSave
  BY DEF Init, TornOnlyDuringSave
<1> QED
  BY <1>1, TypeCorrect, NextKeepsTorn, PTL DEF Spec

\* One Fini at a time, no kill, no failed call: no run aborts in Fini.
THEOREM SerialRunsNeverAbort ==
  ASSUME Serial PROVE Spec => []NoAbort
<1>1. Init => NoAbort
  BY DEF Init, NoAbort
<1>2. TypeOK /\ SerialInv /\ TornOnlyDuringSave /\ NoAbort /\ [Next]_vars => NoAbort'
  <2> SUFFICES ASSUME TypeOK, SerialInv, TornOnlyDuringSave, NoAbort, [Next]_vars
               PROVE  NoAbort'
    OBVIOUS
  <2>1. ASSUME NEW p \in Proc PROVE ~LoadAborts(p)
    <3> SUFFICES ASSUME LoadAborts(p) PROVE FALSE
      OBVIOUS
    <3>1. PICK q \in Proc : cur[q] = cur[p] /\ pc[q] \in {"flock", "trunc", "dump"}
      BY DEF LoadAborts, TornOnlyDuringSave, Serial, TypeOK
    <3> QED
      BY <3>1 DEF LoadAborts, SerialInv, OneFini, FiniPc
  <2>2. ASSUME NEW p \in Proc PROVE ~FaultStep(p)
    BY DEF FaultStep, LoadCannotOpen, LockFails, TruncateFails, DumpFails, Kill, Serial
  <2> QED
    BY <2>1, <2>2 DEF NoAbort, TypeOK, Next, FiniStep, Terminated, vars, ImageLoad, Take,
       Fork, Exit, LoadEdgesFromJSON, AfterLoad, OpenLockFile, Lock, Truncate, Dump,
       Unlock, AfterSave
<1> QED
  BY <1>1, <1>2, TypeCorrect, SerialCorrect, TornFilesAreTransient, PTL DEF Spec

-----------------------------------------------------------------------------
(* The tool implements the abstract store.                                  *)

LEMMA InitRefines == Init => Abstract!Init
<1> SUFFICES ASSUME Init PROVE Abstract!Init
  OBVIOUS
<1>1. SeenBar = [p \in Proc |-> [k \in Kind |-> {}]]
  BY RealEmpty DEF Init, SeenBar
<1>2. \A k \in Kind : \A x : x \notin Published(k)
  BY PublishedMember DEF Init
<1>3. StoreBar = [k \in Kind |-> {}]
  BY <1>2 DEF StoreBar
<1> QED
  BY <1>1, <1>3 DEF Abstract!Init

LEMMA NextRefines ==
  ASSUME Serial
  PROVE  TypeOK /\ SoundInv /\ SerialInv /\ [Next]_vars => [Abstract!Next]_(Abstract!vars)
<1> SUFFICES ASSUME TypeOK, SoundInv, SerialInv, [Next]_vars
             PROVE  Abstract!Next \/ UNCHANGED <<SeenBar, StoreBar>>
  BY DEF Abstract!vars
<1>1. ASSUME UNCHANGED taken PROVE UNCHANGED SeenBar
  BY <1>1 DEF SeenBar
<1>2. ASSUME \A k \in Kind : Published(k)' = Published(k) PROVE UNCHANGED StoreBar
  BY <1>2 DEF StoreBar
<1>3. ASSUME NEW p \in Proc, NEW t \in Transfer, Take(p, t)
      PROVE  Abstract!Next \/ UNCHANGED <<SeenBar, StoreBar>>
  <2>1. \A k \in Kind : Published(k)' = Published(k)
    BY <1>3, PublishedKept DEF Take, TypeOK
  <2>2. UNCHANGED StoreBar
    BY <1>2, <2>1
  <2>3. taken' = [taken EXCEPT ![p] = @ \cup {t}]
    BY <1>3 DEF Take
  <2>4. \A k \in Kind : RealEdges(taken'[p], k) = RealEdges(taken[p], k) \cup RealEdges({t}, k)
    <3>1. taken'[p] = taken[p] \cup {t}
      BY <2>3 DEF TypeOK
    <3> QED
      BY ONLY <3>1 DEF RealEdges
  <2>5. \A q \in Proc : q # p => taken'[q] = taken[q]
    BY <2>3 DEF TypeOK
  <2> DEFINE j == KindOf(t)
             e == <<t.ip, t.tgt>>
  <2>6. j \in Kind /\ e \in Edge
    BY DEF KindOf, Kind, Edge
  <2>7. \A k \in Kind : k # j => RealEdges({t}, k) = {}
    BY DEF RealEdges
  <2>8. RealEdges({t}, j) \in {{}, {e}}
    BY DEF RealEdges
  <2>9. CASE RealEdges({t}, j) = {}
    <3>1. \A q \in Proc, k \in Kind : RealEdges(taken'[q], k) = RealEdges(taken[q], k)
      BY <2>4, <2>5, <2>7, <2>9
    <3>2. UNCHANGED SeenBar
      BY <3>1 DEF SeenBar
    <3> QED
      BY <2>2, <3>2
  <2>10. CASE RealEdges({t}, j) = {e}
    <3>1. \A k \in Kind : RealEdges(taken'[p], k) =
             IF k = j THEN RealEdges(taken[p], k) \cup {e} ELSE RealEdges(taken[p], k)
      BY <2>4, <2>7, <2>10
    <3>2. SeenBar' = [SeenBar EXCEPT ![p][j] = @ \cup {e}]
      BY <2>5, <2>6, <3>1 DEF SeenBar
    <3>3. Abstract!Observe(p)
      BY <2>2, <2>6, <3>2 DEF Abstract!Observe
    <3> QED
      BY <3>3 DEF Abstract!Next
  <2> QED
    BY <2>8, <2>9, <2>10
<1>4. ASSUME NEW p \in Proc, NEW c \in Proc, Fork(p, c) PROVE Abstract!Next
  <2>1. \A k \in Kind : Published(k)' = Published(k)
    BY <1>4, PublishedKept DEF Fork, TypeOK
  <2>2. UNCHANGED StoreBar
    BY <1>2, <2>1
  <2>3. SeenBar' = [SeenBar EXCEPT ![c] = SeenBar[p]]
    BY <1>4 DEF SeenBar, Fork, TypeOK
  <2>4. Abstract!Inherit(p, c)
    BY <2>2, <2>3 DEF Abstract!Inherit
  <2> QED
    BY <2>4 DEF Abstract!Next
<1>5. ASSUME NEW p \in Proc, Truncate(p) PROVE Abstract!Next
  <2>1. \A k \in Kind :
          Published(k)' = IF k = cur[p] THEN Published(k) \cup RealEdges(taken[p], k)
                                        ELSE Published(k)
    BY <1>5, TruncatePublishes
  <2>2. cur[p] \in Kind
    BY DEF TypeOK
  <2>3. SeenBar[p][cur[p]] = RealEdges(taken[p], cur[p])
    BY <2>2 DEF SeenBar
  <2>4. StoreBar' = [StoreBar EXCEPT ![cur[p]] = @ \cup SeenBar[p][cur[p]]]
    BY <2>1, <2>2, <2>3 DEF StoreBar
  <2>5. UNCHANGED SeenBar
    BY <1>1, <1>5 DEF Truncate
  <2>6. Abstract!Publish(p)
    BY <2>2, <2>4, <2>5 DEF Abstract!Publish
  <2> QED
    BY <2>6 DEF Abstract!Next
<1>6. ASSUME NEW p \in Proc, Dump(p) PROVE UNCHANGED <<SeenBar, StoreBar>>
  BY <1>1, <1>2, <1>6, DumpKeepsPublished DEF Dump
<1>7. ASSUME NEW p \in Proc,
             \/ ImageLoad(p) \/ Exit(p) \/ LoadEdgesFromJSON(p) \/ LoadAborts(p)
             \/ OpenLockFile(p) \/ Lock(p) \/ Unlock(p)
      PROVE  UNCHANGED <<SeenBar, StoreBar>>
  <2>1. UNCHANGED taken
    BY <1>7 DEF ImageLoad, Exit, LoadEdgesFromJSON, LoadAborts, OpenLockFile, Lock, Unlock
  <2>2. \A k \in Kind : file'[k].edges = file[k].edges
    <3>1. CASE OpenLockFile(p)
      BY <3>1 DEF OpenLockFile, TornFile, SerialInv, AbsentEmpty, TypeOK
    <3>2. CASE ~OpenLockFile(p)
      BY <1>7, <3>2 DEF ImageLoad, Exit, LoadEdgesFromJSON, LoadAborts, Lock, Unlock
    <3> QED
      BY <3>1, <3>2
  <2>3. /\ pc[p] # "dump" /\ pc'[p] # "dump"
        /\ \A q \in Proc : q # p => /\ pc'[q] = pc[q] /\ cur'[q] = cur[q]
                                    /\ edges'[q] = edges[q]
    BY <1>7 DEF ImageLoad, Exit, LoadEdgesFromJSON, LoadAborts, OpenLockFile, Lock, Unlock,
       AfterLoad, AfterSave, TypeOK
  <2>4. \A k \in Kind : Published(k)' = Published(k)
    BY <2>2, <2>3, PublishedKept
  <2> QED
    BY <1>1, <1>2, <2>1, <2>4
<1>8. CASE UNCHANGED vars
  <2>1. \A k \in Kind : Published(k)' = Published(k)
    BY <1>8, PublishedKept DEF vars
  <2> QED
    BY <1>1, <1>2, <1>8, <2>1 DEF vars
<1>9. ASSUME NEW p \in Proc PROVE ~FaultStep(p)
  BY DEF FaultStep, LoadCannotOpen, LockFails, TruncateFails, DumpFails, Kill, Serial
<1> QED
  BY <1>3, <1>4, <1>5, <1>6, <1>7, <1>8, <1>9 DEF Next, FiniStep, Terminated

\* Under the same conditions every behaviour of the tool is a behaviour of the
\* abstract store: the ground truth only grows, by what runs executed.
THEOREM ToolImplementsGroundTruth ==
  ASSUME Serial PROVE Spec => ImplementsGroundTruth
<1>1. TypeOK /\ SoundInv /\ SerialInv /\ [Next]_vars => [Abstract!Next]_(Abstract!vars)
  BY NextRefines
<1> QED
  BY <1>1, InitRefines, TypeCorrect, SoundCorrect, SerialCorrect, PTL
  DEF Spec, ImplementsGroundTruth, Abstract!Spec
=============================================================================
