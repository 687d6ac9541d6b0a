------------------------- MODULE WrapRestoreProofs -------------------------
(***************************************************************************)
(* Theorems about WrapRestore: for any set of executables and any number   *)
(* of links, wraps, restores, kills and failures.                          *)
(***************************************************************************)
EXTENDS WrapRestore, TLAPS

\* In the middle of an item the executable is in the backup and nowhere else.
OnlyInBackup(b) == fs[<<b, 0>>] = None /\ fs[<<b, 1>>].kind = "elf"

StepInv ==
  /\ script = "none" => step = "pick"
  /\ step = "pick" => at = {}
  /\ step \in {"moved", "written"} =>
       \E b \in Bin : at = {<<b, 0>>} /\ OnlyInBackup(b)
  /\ step = "removed" =>
       \E b \in Bin : at = {<<b, 1>>} /\ OnlyInBackup(b)
  /\ script = "restore" => \A p \in todo : p[2] > 0

\* The inductive invariant.
IInv == TypeOK /\ StepInv /\ NoDoubleWrap /\ WrapperHasTarget /\ NoElfLost

-----------------------------------------------------------------------------
LEMMA PathOf == \A b \in Bin : <<b, 0>> \in Path /\ <<b, 1>> \in Path /\ <<b, 2>> \in Path
BY DEF Path

LEMMA PathsDiffer ==
  \A b, c \in Bin : /\ <<b, 0>> # <<c, 1>> /\ <<b, 0>> # <<c, 2>>
                    /\ <<b, 1>> # <<c, 2>>
OBVIOUS

LEMMA OrigOf == \A b \in Bin : Orig(<<b, 0>>) = <<b, 1>> /\ Base(<<b, 1>>) = <<b, 0>>
BY DEF Orig, Base

LEMMA Contents == None \in Content /\ Wrapper \in Content
BY VersionAssumption DEF None, Wrapper, Content

\* The only paths the loops act on.
LEMMA WrappableIsBin ==
  ASSUME NEW p \in Path, Wrappable(p)
  PROVE  \E b \in Bin : /\ p = <<b, 0>> /\ fs[<<b, 0>>].kind = "elf"
                        /\ fs[<<b, 1>>].kind = "none"
<1>1. PICK b \in Bin : p = <<b, 0>>
  BY DEF Path, Wrappable
<1> QED
  BY <1>1, OrigOf DEF Wrappable

LEMMA RestorableIsBackup ==
  ASSUME IInv, NEW p \in Path, p[2] > 0, Restorable(p)
  PROVE  \E b \in Bin : /\ p = <<b, 1>> /\ fs[<<b, 0>>].kind = "wrapper"
                        /\ fs[<<b, 1>>].kind = "elf"
<1>1. PICK b \in Bin, n \in 0..2 : p = <<b, n>>
  BY DEF Path
<1>2. n # 2
  BY <1>1 DEF Restorable, IInv, NoDoubleWrap
<1>3. p = <<b, 1>>
  BY <1>1, <1>2
<1> QED
  BY <1>3, OrigOf DEF Restorable, IInv, WrapperHasTarget

\* How the invariant on the files follows when only b and b.orig change.
LEMMA FilesOfOneBin ==
  ASSUME IInv, NEW b \in Bin, UNCHANGED linked, fs' \in [Path -> Content],
         \A q \in Path : q \notin {<<b, 0>>, <<b, 1>>} => fs'[q] = fs[q],
         fs'[<<b, 1>>].kind # "wrapper",
         fs'[<<b, 0>>].kind = "wrapper" => fs'[<<b, 1>>].kind = "elf",
         linked[b] # 0 => \/ fs'[<<b, 0>>] = Elf(linked[b])
                          \/ fs'[<<b, 1>>] = Elf(linked[b])
  PROVE  NoDoubleWrap' /\ WrapperHasTarget' /\ NoElfLost'
<1>1. \A c \in Bin : c # b => /\ fs'[<<c, 0>>] = fs[<<c, 0>>]
                              /\ fs'[<<c, 1>>] = fs[<<c, 1>>]
                              /\ fs'[<<c, 2>>] = fs[<<c, 2>>]
  BY PathOf
<1>2. fs'[<<b, 2>>] = fs[<<b, 2>>]
  BY PathOf
<1>3. NoDoubleWrap'
  BY <1>1, <1>2 DEF IInv, NoDoubleWrap
<1>4. WrapperHasTarget'
  BY <1>1 DEF IInv, WrapperHasTarget
<1>5. NoElfLost'
  <2>1. \A c \in Bin : linked[c] # 0 => \/ fs[<<c, 0>>] = Elf(linked[c])
                                       \/ fs[<<c, 1>>] = Elf(linked[c])
    BY DEF IInv, NoElfLost
  <2>2. \A c \in Bin : linked[c] # 0 => \/ fs'[<<c, 0>>] = Elf(linked[c])
                                       \/ fs'[<<c, 1>>] = Elf(linked[c])
    BY <1>1, <2>1
  <2> QED BY <2>2 DEF NoElfLost
<1> QED
  BY <1>3, <1>4, <1>5

\* Steps that leave the files alone only have to keep the type and StepInv.
LEMMA FilesKept ==
  ASSUME IInv, UNCHANGED <<fs, linked>>
  PROVE  NoDoubleWrap' /\ WrapperHasTarget' /\ NoElfLost'
BY DEF IInv, NoDoubleWrap, WrapperHasTarget, NoElfLost

\* The last link of an executable with no backup is at its own path, and that
\* of an executable that is not at its own path is in the backup.
LEMMA WhereTheElfIs ==
  ASSUME IInv, NEW b \in Bin, linked[b] # 0
  PROVE  /\ fs[<<b, 1>>].kind = "none" => fs[<<b, 0>>] = Elf(linked[b])
         /\ fs[<<b, 0>>].kind # "elf" => fs[<<b, 1>>] = Elf(linked[b])
BY DEF IInv, NoElfLost, Elf

-----------------------------------------------------------------------------
LEMMA NextKeepsIInv == IInv /\ [Next]_vars => IInv'
<1> SUFFICES ASSUME IInv, [Next]_vars PROVE IInv'
  OBVIOUS
<1>0. TypeOK /\ StepInv
  BY DEF IInv
<1>1. ASSUME Exit, UNCHANGED <<fs, tmp>>, UNCHANGED envVars PROVE IInv'
  <2>1. TypeOK' /\ StepInv'
    BY <1>0, <1>1 DEF TypeOK, StepInv, Exit, envVars
  <2> QED
    BY <1>1, <2>1, FilesKept DEF IInv, envVars
<1>2. CASE WrapEnd \/ RestoreEnd \/ Kill \/ CommandFails
  BY <1>1, <1>2 DEF WrapEnd, RestoreEnd, Kill, CommandFails
<1>3. CASE WrapStart \/ RestoreStart
  <2>1. TypeOK' /\ StepInv'
    BY <1>0, <1>3 DEF TypeOK, StepInv, OnlyInBackup, WrapStart, RestoreStart, envVars
  <2> QED
    BY <1>3, <2>1, FilesKept DEF IInv, envVars, WrapStart, RestoreStart
<1>4. ASSUME NEW p \in Path, WrapSkip(p) \/ RestoreSkip(p) PROVE IInv'
  <2>1. TypeOK' /\ StepInv'
    BY <1>0, <1>4 DEF TypeOK, StepInv, OnlyInBackup, WrapSkip, RestoreSkip, envVars
  <2> QED
    BY <1>4, <2>1, FilesKept DEF IInv, envVars, WrapSkip, RestoreSkip
<1>5. ASSUME NEW p \in Path, WrapWrite(p) PROVE IInv'
  <2>1. TypeOK' /\ StepInv'
    BY <1>0, <1>5 DEF TypeOK, StepInv, OnlyInBackup, WrapWrite, envVars
  <2> QED
    BY <1>5, <2>1, FilesKept DEF IInv, envVars, WrapWrite
<1>6. ASSUME NEW p \in Path, WrapMove(p) PROVE IInv'
  <2>1. PICK b \in Bin : /\ p = <<b, 0>> /\ fs[<<b, 0>>].kind = "elf"
                         /\ fs[<<b, 1>>].kind = "none"
    BY <1>6, WrappableIsBin DEF WrapMove
  <2>2. fs' = [fs EXCEPT ![<<b, 1>>] = fs[<<b, 0>>], ![<<b, 0>>] = None]
    BY <1>6, <2>1, OrigOf DEF WrapMove
  <2>3. /\ fs' \in [Path -> Content]
        /\ fs'[<<b, 0>>] = None /\ fs'[<<b, 1>>] = fs[<<b, 0>>]
        /\ \A q \in Path : q \notin {<<b, 0>>, <<b, 1>>} => fs'[q] = fs[q]
    BY <1>0, <2>2, PathOf, PathsDiffer, Contents DEF TypeOK
  <2>4. TypeOK' /\ StepInv'
    BY <1>0, <1>6, <2>1, <2>3 DEF TypeOK, StepInv, OnlyInBackup, WrapMove, envVars
  <2>5. linked[b] # 0 => fs'[<<b, 1>>] = Elf(linked[b])
    BY <2>1, <2>3, WhereTheElfIs
  <2>6. NoDoubleWrap' /\ WrapperHasTarget' /\ NoElfLost'
    BY <1>6, <2>1, <2>3, <2>5, FilesOfOneBin DEF WrapMove, envVars, None
  <2> QED
    BY <2>4, <2>6 DEF IInv
<1>7. ASSUME NEW p \in Path, WrapWriteFails(p) PROVE IInv'
  <2>1. PICK b \in Bin : p = <<b, 0>> /\ OnlyInBackup(b)
    BY <1>0, <1>7 DEF StepInv, WrapWriteFails
  <2>2. fs' = [fs EXCEPT ![<<b, 0>>] = fs[<<b, 1>>], ![<<b, 1>>] = None]
    BY <1>7, <2>1, OrigOf DEF WrapWriteFails
  <2>3. /\ fs' \in [Path -> Content]
        /\ fs'[<<b, 0>>] = fs[<<b, 1>>] /\ fs'[<<b, 1>>] = None
        /\ \A q \in Path : q \notin {<<b, 0>>, <<b, 1>>} => fs'[q] = fs[q]
    BY <1>0, <2>2, PathOf, PathsDiffer, Contents DEF TypeOK
  <2>4. TypeOK' /\ StepInv'
    BY <1>0, <1>7, <2>3 DEF TypeOK, StepInv, WrapWriteFails, Exit, envVars
  <2>5. linked[b] # 0 => fs'[<<b, 0>>] = Elf(linked[b])
    BY <2>1, <2>3, WhereTheElfIs DEF OnlyInBackup, None
  <2>6. NoDoubleWrap' /\ WrapperHasTarget' /\ NoElfLost'
    BY <1>7, <2>1, <2>3, <2>5, FilesOfOneBin DEF WrapWriteFails, envVars, OnlyInBackup, None
  <2> QED
    BY <2>4, <2>6 DEF IInv
<1>8. ASSUME NEW p \in Path, WrapInstall(p) PROVE IInv'
  <2>1. PICK b \in Bin : p = <<b, 0>> /\ OnlyInBackup(b)
    BY <1>0, <1>8 DEF StepInv, WrapInstall
  <2>2. fs' = [fs EXCEPT ![<<b, 0>>] = Wrapper]
    BY <1>8, <2>1 DEF WrapInstall
  <2>3. /\ fs' \in [Path -> Content]
        /\ fs'[<<b, 0>>] = Wrapper /\ fs'[<<b, 1>>] = fs[<<b, 1>>]
        /\ \A q \in Path : q \notin {<<b, 0>>, <<b, 1>>} => fs'[q] = fs[q]
    BY <1>0, <2>2, PathOf, PathsDiffer, Contents DEF TypeOK
  <2>4. TypeOK' /\ StepInv'
    BY <1>0, <1>8, <2>3 DEF TypeOK, StepInv, WrapInstall, envVars
  <2>5. linked[b] # 0 => fs'[<<b, 1>>] = Elf(linked[b])
    BY <2>1, <2>3, WhereTheElfIs DEF OnlyInBackup, None
  <2>6. NoDoubleWrap' /\ WrapperHasTarget' /\ NoElfLost'
    BY <1>8, <2>1, <2>3, <2>5, FilesOfOneBin DEF WrapInstall, envVars, OnlyInBackup
  <2> QED
    BY <2>4, <2>6 DEF IInv
<1>9. ASSUME NEW p \in Path, RestoreRemove(p) PROVE IInv'
  <2>1. PICK b \in Bin : /\ p = <<b, 1>> /\ fs[<<b, 0>>].kind = "wrapper"
                         /\ fs[<<b, 1>>].kind = "elf"
    BY <1>0, <1>9, RestorableIsBackup DEF RestoreRemove, StepInv
  <2>2. fs' = [fs EXCEPT ![<<b, 0>>] = None]
    BY <1>9, <2>1, OrigOf DEF RestoreRemove
  <2>3. /\ fs' \in [Path -> Content]
        /\ fs'[<<b, 0>>] = None /\ fs'[<<b, 1>>] = fs[<<b, 1>>]
        /\ \A q \in Path : q \notin {<<b, 0>>, <<b, 1>>} => fs'[q] = fs[q]
    BY <1>0, <2>2, PathOf, PathsDiffer, Contents DEF TypeOK
  <2>4. TypeOK' /\ StepInv'
    BY <1>0, <1>9, <2>1, <2>3 DEF TypeOK, StepInv, OnlyInBackup, RestoreRemove, envVars
  <2>5. linked[b] # 0 => fs'[<<b, 1>>] = Elf(linked[b])
    BY <2>1, <2>3, WhereTheElfIs
  <2>6. NoDoubleWrap' /\ WrapperHasTarget' /\ NoElfLost'
    BY <1>9, <2>1, <2>3, <2>5, FilesOfOneBin DEF RestoreRemove, envVars, None
  <2> QED
    BY <2>4, <2>6 DEF IInv
<1>10. ASSUME NEW p \in Path, RestoreMove(p) PROVE IInv'
  <2>1. PICK b \in Bin : p = <<b, 1>> /\ OnlyInBackup(b)
    BY <1>0, <1>10 DEF StepInv, RestoreMove
  <2>2. fs' = [fs EXCEPT ![<<b, 0>>] = fs[<<b, 1>>], ![<<b, 1>>] = None]
    BY <1>10, <2>1, OrigOf DEF RestoreMove
  <2>3. /\ fs' \in [Path -> Content]
        /\ fs'[<<b, 0>>] = fs[<<b, 1>>] /\ fs'[<<b, 1>>] = None
        /\ \A q \in Path : q \notin {<<b, 0>>, <<b, 1>>} => fs'[q] = fs[q]
    BY <1>0, <2>2, PathOf, PathsDiffer, Contents DEF TypeOK
  <2>4. TypeOK' /\ StepInv'
    BY <1>0, <1>10, <2>3 DEF TypeOK, StepInv, RestoreMove, envVars
  <2>5. linked[b] # 0 => fs'[<<b, 0>>] = Elf(linked[b])
    BY <2>1, <2>3, WhereTheElfIs DEF OnlyInBackup, None
  <2>6. NoDoubleWrap' /\ WrapperHasTarget' /\ NoElfLost'
    BY <1>10, <2>1, <2>3, <2>5, FilesOfOneBin DEF RestoreMove, envVars, OnlyInBackup, None
  <2> QED
    BY <2>4, <2>6 DEF IInv
<1>11. ASSUME NEW b \in Bin, Link(b) PROVE IInv'
  <2>1. linked[b] + 1 \in 0..MaxVersion
    BY <1>0, <1>11, VersionAssumption DEF TypeOK, Link
  <2>2. Elf(linked[b] + 1) \in Content
    BY <2>1 DEF Elf, Content
  <2>3. /\ fs' \in [Path -> Content]
        /\ fs'[<<b, 0>>] = Elf(linked[b] + 1)
        /\ \A q \in Path : q # <<b, 0>> => fs'[q] = fs[q]
        /\ linked' \in [Bin -> 0..MaxVersion] /\ linked'[b] = linked[b] + 1
        /\ \A c \in Bin : c # b => linked'[c] = linked[c]
    BY <1>0, <1>11, <2>1, <2>2, PathOf DEF TypeOK, Link
  <2>4. TypeOK' /\ StepInv'
    BY <1>0, <1>11, <2>3 DEF TypeOK, StepInv, Link
  <2>5. \A c \in Bin : c # b =>
          fs'[<<c, 0>>] = fs[<<c, 0>>] /\ fs'[<<c, 1>>] = fs[<<c, 1>>]
    BY <2>3, PathOf
  <2>6. \A c \in Bin : fs'[<<c, 1>>] = fs[<<c, 1>>] /\ fs'[<<c, 2>>] = fs[<<c, 2>>]
    BY <2>3, PathOf, PathsDiffer
  <2>7. NoDoubleWrap'
    BY <2>6 DEF IInv, NoDoubleWrap
  <2>8. WrapperHasTarget'
    BY <2>3, <2>5 DEF IInv, WrapperHasTarget, Elf
  <2>9. NoElfLost'
    BY <2>3, <2>5 DEF IInv, NoElfLost
  <2> QED
    BY <2>4, <2>7, <2>8, <2>9 DEF IInv
<1>12. ASSUME NEW b \in Bin, RunTest(b) PROVE IInv'
  <2>1. fs[<<b, 1>>].ver \in 0..MaxVersion
    BY <1>0, PathOf DEF TypeOK, Content
  <2>2. TypeOK' /\ StepInv'
    BY <1>0, <1>12, <2>1 DEF TypeOK, StepInv, OnlyInBackup, RunTest
  <2> QED
    BY <1>12, <2>2, FilesKept DEF IInv, RunTest
<1>13. ASSUME NEW b \in Bin, Collect(b) PROVE IInv'
  <2> DEFINE f == fs[<<b, Paired(b)>>]
  <2>1. Paired(b) \in {0, 1} /\ f.ver \in 0..MaxVersion
    BY <1>0, PathOf DEF TypeOK, Content, Paired
  <2> DEFINE T == [json : SUBSET (0..MaxVersion), elf : [{0, 1} -> 0..MaxVersion],
                   last : {0, 1}]
             new == IF f.kind = "none"
                    THEN [artifact[b] EXCEPT !.json = json[b]]
                    ELSE [json |-> json[b],
                          elf  |-> [artifact[b].elf EXCEPT ![Paired(b)] = f.ver],
                          last |-> Paired(b)]
  <2>4. artifact[b] \in T /\ artifact \in [Bin -> T] /\ json[b] \in SUBSET (0..MaxVersion)
    BY <1>0 DEF TypeOK
  <2>5. new \in T
    BY <2>1, <2>4
  <2>6. artifact' = [artifact EXCEPT ![b] = new]
    BY <1>13 DEF Collect
  <2>7. artifact' \in [Bin -> T]
    BY <2>4, <2>5, <2>6
  <2>2. TypeOK'
    BY <1>0, <1>13, <2>7 DEF TypeOK, Collect
  <2>3. StepInv'
    BY <1>0, <1>13 DEF StepInv, OnlyInBackup, Collect
  <2> QED
    BY <1>13, <2>2, <2>3, FilesKept DEF IInv, Collect
<1>14. CASE UNCHANGED vars
  <2>1. TypeOK' /\ StepInv'
    BY <1>0, <1>14 DEF vars, TypeOK, StepInv, OnlyInBackup
  <2> QED
    BY <1>14, <2>1, FilesKept DEF IInv, vars
<1> QED
  BY <1>2, <1>3, <1>4, <1>5, <1>6, <1>7, <1>8, <1>9, <1>10, <1>11, <1>12, <1>13, <1>14
  DEF Next

LEMMA InitIInv == Init => IInv
<1> SUFFICES ASSUME Init PROVE IInv
  OBVIOUS
<1>1. TypeOK /\ StepInv
  BY VersionAssumption, Contents DEF Init, TypeOK, StepInv
<1>2. \A b \in Bin : fs[<<b, 0>>] = None /\ fs[<<b, 1>>] = None /\ fs[<<b, 2>>] = None
  BY PathOf DEF Init
<1>3. NoDoubleWrap /\ WrapperHasTarget
  <2>1. None.kind = "none"
    BY DEF None
  <2>2. NoDoubleWrap
    BY <1>2, <2>1 DEF NoDoubleWrap
  <2>3. WrapperHasTarget
    BY <1>2, <2>1 DEF WrapperHasTarget
  <2> QED
    BY <2>2, <2>3
<1>4. NoElfLost
  BY DEF Init, NoElfLost
<1> QED
  BY <1>1, <1>3, <1>4 DEF IInv

LEMMA Invariant == Spec => []IInv
BY InitIInv, NextKeepsIInv, PTL DEF Spec

\* Every variable always has its type.
THEOREM TypeCorrect == Spec => []TypeOK
BY Invariant, PTL DEF IInv

\* Whatever is killed or fails, the executable linked last is never lost.
THEOREM ElfNeverLost == Spec => []NoElfLost
BY Invariant, PTL DEF IInv

\* A wrapper never stands without the executable it runs.
THEOREM WrapperAlwaysRuns == Spec => []WrapperHasTarget
BY Invariant, PTL DEF IInv

\* Backups are never wrapped.
THEOREM NeverWrappedTwice == Spec => []NoDoubleWrap
BY Invariant, PTL DEF IInv

-----------------------------------------------------------------------------
\* What a step can do to the files of b: the wrap script moves the executable to
\* the free name b.orig, either script moves the backup back to the free name b,
\* the wrap script installs the wrapper, the restore script removes it, or a
\* build links b.
Moved(b)    == /\ fs[<<b, 0>>].kind = "elf" /\ fs[<<b, 1>>].kind = "none"
               /\ fs'[<<b, 0>>] = None /\ fs'[<<b, 1>>] = fs[<<b, 0>>]
MovedBack(b) == /\ OnlyInBackup(b)
                /\ fs'[<<b, 0>>] = fs[<<b, 1>>] /\ fs'[<<b, 1>>] = None
Wrapped(b)  == OnlyInBackup(b) /\ fs'[<<b, 0>>] = Wrapper /\ fs'[<<b, 1>>] = fs[<<b, 1>>]
Removed(b)  == fs'[<<b, 0>>] = None /\ fs'[<<b, 1>>] = fs[<<b, 1>>]
Relinked(b) == /\ fs'[<<b, 0>>] = Elf(linked[b] + 1) /\ fs'[<<b, 1>>] = fs[<<b, 1>>]
               /\ linked' = [linked EXCEPT ![b] = linked[b] + 1]

FileStep(b) ==
  /\ \A c \in Bin : c # b => fs'[<<c, 0>>] = fs[<<c, 0>>] /\ fs'[<<c, 1>>] = fs[<<c, 1>>]
  /\ \/ /\ Moved(b) \/ MovedBack(b) \/ Wrapped(b) \/ Removed(b)
        /\ UNCHANGED <<linked, json, artifact>>
     \/ Relinked(b) /\ UNCHANGED <<json, artifact>>

\* The rest of the Path plays no part.
LEMMA OtherBins ==
  ASSUME NEW b \in Bin,
         \A q \in Path : q \notin {<<b, 0>>, <<b, 1>>} => fs'[q] = fs[q]
  PROVE  \A c \in Bin : c # b => fs'[<<c, 0>>] = fs[<<c, 0>>]
                                 /\ fs'[<<c, 1>>] = fs[<<c, 1>>]
BY PathOf

LEMMA FileEffects ==
  ASSUME IInv, [Next]_vars
  PROVE  \/ UNCHANGED <<fs, linked, json, artifact>>
         \/ \E b \in Bin : FileStep(b) \/ RunTest(b) \/ Collect(b)
<1>0. TypeOK /\ StepInv
  BY DEF IInv
<1>1. ASSUME NEW p \in Path, WrapMove(p) PROVE \E b \in Bin : FileStep(b)
  <2>1. PICK b \in Bin : /\ p = <<b, 0>> /\ fs[<<b, 0>>].kind = "elf"
                         /\ fs[<<b, 1>>].kind = "none"
    BY <1>1, WrappableIsBin DEF WrapMove
  <2>2. fs' = [fs EXCEPT ![<<b, 1>>] = fs[<<b, 0>>], ![<<b, 0>>] = None]
    BY <1>1, <2>1, OrigOf DEF WrapMove
  <2>3. /\ fs'[<<b, 0>>] = None /\ fs'[<<b, 1>>] = fs[<<b, 0>>]
        /\ \A q \in Path : q \notin {<<b, 0>>, <<b, 1>>} => fs'[q] = fs[q]
    BY <1>0, <2>2, PathOf, PathsDiffer DEF TypeOK
  <2> QED
    BY <1>1, <2>1, <2>3, OtherBins DEF FileStep, Moved, WrapMove, envVars
<1>2. ASSUME NEW p \in Path, WrapWriteFails(p) PROVE \E b \in Bin : FileStep(b)
  <2>1. PICK b \in Bin : p = <<b, 0>> /\ OnlyInBackup(b)
    BY <1>0, <1>2 DEF StepInv, WrapWriteFails
  <2>2. fs' = [fs EXCEPT ![<<b, 0>>] = fs[<<b, 1>>], ![<<b, 1>>] = None]
    BY <1>2, <2>1, OrigOf DEF WrapWriteFails
  <2>3. /\ fs'[<<b, 0>>] = fs[<<b, 1>>] /\ fs'[<<b, 1>>] = None
        /\ \A q \in Path : q \notin {<<b, 0>>, <<b, 1>>} => fs'[q] = fs[q]
    BY <1>0, <2>2, PathOf, PathsDiffer DEF TypeOK
  <2> QED
    BY <1>2, <2>1, <2>3, OtherBins DEF FileStep, MovedBack, WrapWriteFails, envVars
<1>3. ASSUME NEW p \in Path, WrapInstall(p) PROVE \E b \in Bin : FileStep(b)
  <2>1. PICK b \in Bin : p = <<b, 0>> /\ OnlyInBackup(b)
    BY <1>0, <1>3 DEF StepInv, WrapInstall
  <2>2. fs' = [fs EXCEPT ![<<b, 0>>] = Wrapper]
    BY <1>3, <2>1 DEF WrapInstall
  <2>3. /\ fs'[<<b, 0>>] = Wrapper /\ fs'[<<b, 1>>] = fs[<<b, 1>>]
        /\ \A q \in Path : q \notin {<<b, 0>>, <<b, 1>>} => fs'[q] = fs[q]
    BY <1>0, <2>2, PathOf, PathsDiffer DEF TypeOK
  <2> QED
    BY <1>3, <2>1, <2>3, OtherBins DEF FileStep, Wrapped, WrapInstall, envVars
<1>4. ASSUME NEW p \in Path, RestoreRemove(p) PROVE \E b \in Bin : FileStep(b)
  <2>1. PICK b \in Bin : p = <<b, 1>>
    BY <1>0, <1>4, RestorableIsBackup DEF RestoreRemove, StepInv
  <2>2. fs' = [fs EXCEPT ![<<b, 0>>] = None]
    BY <1>4, <2>1, OrigOf DEF RestoreRemove
  <2>3. /\ fs'[<<b, 0>>] = None /\ fs'[<<b, 1>>] = fs[<<b, 1>>]
        /\ \A q \in Path : q \notin {<<b, 0>>, <<b, 1>>} => fs'[q] = fs[q]
    BY <1>0, <2>2, PathOf, PathsDiffer DEF TypeOK
  <2> QED
    BY <1>4, <2>3, OtherBins DEF FileStep, Removed, RestoreRemove, envVars
<1>5. ASSUME NEW p \in Path, RestoreMove(p) PROVE \E b \in Bin : FileStep(b)
  <2>1. PICK b \in Bin : p = <<b, 1>> /\ OnlyInBackup(b)
    BY <1>0, <1>5 DEF StepInv, RestoreMove
  <2>2. fs' = [fs EXCEPT ![<<b, 0>>] = fs[<<b, 1>>], ![<<b, 1>>] = None]
    BY <1>5, <2>1, OrigOf DEF RestoreMove
  <2>3. /\ fs'[<<b, 0>>] = fs[<<b, 1>>] /\ fs'[<<b, 1>>] = None
        /\ \A q \in Path : q \notin {<<b, 0>>, <<b, 1>>} => fs'[q] = fs[q]
    BY <1>0, <2>2, PathOf, PathsDiffer DEF TypeOK
  <2> QED
    BY <1>5, <2>1, <2>3, OtherBins DEF FileStep, MovedBack, RestoreMove, envVars
<1>6. ASSUME NEW b \in Bin, Link(b) PROVE FileStep(b)
  <2>1. fs' = [fs EXCEPT ![<<b, 0>>] = Elf(linked[b] + 1)]
    BY <1>6 DEF Link
  <2>2. /\ fs'[<<b, 0>>] = Elf(linked[b] + 1) /\ fs'[<<b, 1>>] = fs[<<b, 1>>]
        /\ \A q \in Path : q \notin {<<b, 0>>, <<b, 1>>} => fs'[q] = fs[q]
    BY <1>0, <2>1, PathOf, PathsDiffer DEF TypeOK
  <2> QED
    BY <1>6, <2>2, OtherBins DEF FileStep, Relinked, Link
<1>7. CASE WrapStart \/ WrapEnd \/ RestoreStart \/ RestoreEnd \/ Kill \/ CommandFails
  BY <1>7 DEF WrapStart, WrapEnd, RestoreStart, RestoreEnd, Kill, CommandFails, envVars
<1>8. ASSUME NEW p \in Path, WrapSkip(p) \/ WrapWrite(p) \/ RestoreSkip(p)
      PROVE  UNCHANGED <<fs, linked, json, artifact>>
  BY <1>8 DEF WrapSkip, WrapWrite, RestoreSkip, envVars
<1>9. CASE UNCHANGED vars
  BY <1>9 DEF vars
<1> QED
  BY <1>1, <1>2, <1>3, <1>4, <1>5, <1>6, <1>7, <1>8, <1>9 DEF Next

\* Neither a wrap, nor a restore, nor a build ever replaces a backup.
THEOREM BackupKept == Spec => BackupNotOverwritten
<1> DEFINE A == \A b \in Bin : fs[<<b, 1>>].kind = "elf" =>
                  fs'[<<b, 1>>] \in {fs[<<b, 1>>], None}
<1>1. ASSUME IInv, [Next]_vars PROVE A
  <2>1. UNCHANGED fs => A
    OBVIOUS
  <2>2. ASSUME NEW b \in Bin, FileStep(b) PROVE A
    BY <2>2 DEF FileStep, Moved, MovedBack, Wrapped, Removed, Relinked
  <2>3. \A b \in Bin : RunTest(b) \/ Collect(b) => UNCHANGED fs
    BY DEF RunTest, Collect
  <2> QED BY <1>1, <2>1, <2>2, <2>3, FileEffects
<1>2. IInv /\ [Next]_vars => [A]_vars
  BY <1>1
<1> QED BY <1>2, Invariant, PTL DEF Spec, BackupNotOverwritten

-----------------------------------------------------------------------------
\* What a script is done with: the wrap script leaves no executable without a
\* backup behind it, and the restore script no wrapper.
DoneInv ==
  \A b \in Bin :
    /\ script = "wrap" /\ <<b, 0>> \notin todo /\ fs[<<b, 0>>].kind = "elf" =>
         fs[<<b, 1>>].kind = "elf"
    /\ script = "restore" /\ <<b, 1>> \notin todo => fs[<<b, 0>>].kind # "wrapper"

LEMMA DoneStep ==
  ASSUME IInv, DoneInv, [Next]_vars
  PROVE  DoneInv'
<1>0. TypeOK /\ StepInv /\ NoDoubleWrap /\ WrapperHasTarget
  BY DEF IInv
<1>1. CASE WrapStart
  <2>1. ASSUME NEW b \in Bin PROVE <<b, 0>> \in {p \in Path : p[2] < 2}
    <3>1. <<b, 0>> \in Path BY PathOf
    <3>2. <<b, 0>>[2] < 2 OBVIOUS
    <3> QED BY <3>1, <3>2, Zenon
  <2>2. script' = "wrap" /\ todo' = {p \in Path : p[2] < 2}
    BY <1>1 DEF WrapStart
  <2> QED BY <2>1, <2>2 DEF DoneInv
<1>2. CASE RestoreStart
  <2>1. ASSUME NEW b \in Bin PROVE <<b, 1>> \in {p \in Path : p[2] > 0}
    <3>1. <<b, 1>> \in Path BY PathOf
    <3>2. <<b, 1>>[2] > 0 OBVIOUS
    <3> QED BY <3>1, <3>2, Zenon
  <2>2. script' = "restore" /\ todo' = {p \in Path : p[2] > 0}
    BY <1>2 DEF RestoreStart
  <2> QED BY <2>1, <2>2 DEF DoneInv
<1>3. CASE WrapEnd \/ RestoreEnd \/ Kill \/ CommandFails
  BY <1>3 DEF WrapEnd, RestoreEnd, Kill, CommandFails, Exit, DoneInv
<1>4. ASSUME NEW p \in Path, WrapSkip(p) PROVE DoneInv'
  <2>1. /\ script = "wrap" /\ todo' = todo \ {p} /\ UNCHANGED <<fs, script>>
        /\ ~Wrappable(p)
    BY <1>4 DEF WrapSkip
  <2>2. ASSUME NEW b \in Bin, p = <<b, 0>>, fs[<<b, 0>>].kind = "elf"
        PROVE  fs[<<b, 1>>].kind = "elf"
    <3>1. fs[<<b, 1>>].kind # "none"
      BY <2>1, <2>2, OrigOf DEF Wrappable
    <3>2. fs[<<b, 1>>] \in Content BY <1>0, PathOf DEF TypeOK
    <3> QED BY <1>0, <3>1, <3>2 DEF Content, NoDoubleWrap
  <2> QED BY <2>1, <2>2 DEF DoneInv
<1>5. ASSUME NEW p \in Path, RestoreSkip(p) PROVE DoneInv'
  <2>1. /\ script = "restore" /\ todo' = todo \ {p} /\ UNCHANGED <<fs, script>>
        /\ ~Restorable(p)
    BY <1>5 DEF RestoreSkip
  <2>2. ASSUME NEW b \in Bin, p = <<b, 1>> PROVE fs[<<b, 0>>].kind # "wrapper"
    BY <1>0, <2>1, <2>2, OrigOf DEF Restorable, WrapperHasTarget
  <2> QED BY <2>1, <2>2 DEF DoneInv
<1>6. ASSUME NEW p \in Path, WrapWrite(p) PROVE DoneInv'
  BY <1>6 DEF WrapWrite, DoneInv
<1>7. ASSUME NEW p \in Path, WrapWriteFails(p) PROVE DoneInv'
  BY <1>7 DEF WrapWriteFails, Exit, DoneInv
<1>8. ASSUME NEW p \in Path, WrapMove(p) PROVE DoneInv'
  <2>1. PICK b \in Bin : p = <<b, 0>>
    BY <1>8, WrappableIsBin DEF WrapMove
  <2>2. /\ script' = "wrap" /\ <<b, 0>> \in todo' /\ todo' = todo /\ script = "wrap"
        /\ fs' = [fs EXCEPT ![<<b, 1>>] = fs[<<b, 0>>], ![<<b, 0>>] = None]
    BY <1>8, <2>1, OrigOf DEF WrapMove
  <2>3. \A c \in Bin : c # b => /\ fs'[<<c, 0>>] = fs[<<c, 0>>]
                                /\ fs'[<<c, 1>>] = fs[<<c, 1>>]
    BY <1>0, <2>2, PathOf, PathsDiffer DEF TypeOK
  <2> QED BY <2>2, <2>3 DEF DoneInv
<1>9. ASSUME NEW p \in Path, WrapInstall(p) PROVE DoneInv'
  <2>1. PICK b \in Bin : p = <<b, 0>>
    BY <1>0, <1>9 DEF StepInv, WrapInstall
  <2>2. /\ script' = "wrap" /\ todo' = todo \ {<<b, 0>>} /\ script = "wrap"
        /\ fs' = [fs EXCEPT ![<<b, 0>>] = Wrapper]
    BY <1>9, <2>1 DEF WrapInstall
  <2>3. /\ fs'[<<b, 0>>] = Wrapper
        /\ \A c \in Bin : c # b => /\ fs'[<<c, 0>>] = fs[<<c, 0>>]
                                   /\ fs'[<<c, 1>>] = fs[<<c, 1>>]
    BY <1>0, <2>2, PathOf, PathsDiffer DEF TypeOK
  <2>4. fs'[<<b, 0>>].kind # "elf" BY <2>3 DEF Wrapper
  <2> QED BY <2>2, <2>3, <2>4 DEF DoneInv
<1>10. ASSUME NEW p \in Path, RestoreRemove(p) PROVE DoneInv'
  <2>1. PICK b \in Bin : p = <<b, 1>>
    BY <1>0, <1>10, RestorableIsBackup DEF RestoreRemove, StepInv
  <2>2. /\ script' = "restore" /\ script = "restore" /\ todo' = todo
        /\ fs' = [fs EXCEPT ![<<b, 0>>] = None]
    BY <1>10, <2>1, OrigOf DEF RestoreRemove
  <2>3. /\ fs'[<<b, 0>>] = None
        /\ \A c \in Bin : c # b => fs'[<<c, 0>>] = fs[<<c, 0>>]
    BY <1>0, <2>2, PathOf, PathsDiffer DEF TypeOK
  <2>4. None.kind # "wrapper" BY DEF None
  <2> QED BY <2>2, <2>3, <2>4 DEF DoneInv
<1>11. ASSUME NEW p \in Path, RestoreMove(p) PROVE DoneInv'
  <2>1. PICK b \in Bin : p = <<b, 1>> /\ OnlyInBackup(b)
    BY <1>0, <1>11 DEF StepInv, RestoreMove
  <2>2. /\ script' = "restore" /\ script = "restore" /\ todo' = todo \ {<<b, 1>>}
        /\ fs' = [fs EXCEPT ![<<b, 0>>] = fs[<<b, 1>>], ![<<b, 1>>] = None]
    BY <1>11, <2>1, OrigOf DEF RestoreMove
  <2>3. /\ fs'[<<b, 0>>] = fs[<<b, 1>>]
        /\ \A c \in Bin : c # b => fs'[<<c, 0>>] = fs[<<c, 0>>]
    BY <1>0, <2>2, PathOf, PathsDiffer DEF TypeOK
  <2>4. fs[<<b, 1>>].kind # "wrapper" BY <2>1 DEF OnlyInBackup
  <2> QED BY <2>2, <2>3, <2>4 DEF DoneInv
<1>12. ASSUME NEW b \in Bin, Link(b) \/ RunTest(b) \/ Collect(b) PROVE DoneInv'
  BY <1>12 DEF Link, RunTest, Collect, DoneInv
<1>13. CASE UNCHANGED vars
  BY <1>13 DEF vars, DoneInv
<1> QED
  BY <1>1, <1>2, <1>3, <1>4, <1>5, <1>6, <1>7, <1>8, <1>9, <1>10, <1>11, <1>12, <1>13
  DEF Next

\* A script that runs to its end has handled every executable.
THEOREM ScriptsRunToTheEnd == Spec => ScriptsComplete
<1> DEFINE A == step = "pick" /\ todo = {} /\ script' = "none" =>
                  \A b \in Bin :
                    /\ script = "wrap" /\ fs[<<b, 0>>].kind = "elf" =>
                         fs[<<b, 1>>].kind = "elf"
                    /\ script = "restore" => fs[<<b, 0>>].kind # "wrapper"
<1>1. Init => DoneInv
  BY DEF Init, DoneInv
<1>2. IInv /\ DoneInv /\ [Next]_vars => DoneInv'
  BY DoneStep
<1>3. DoneInv => A
  BY DEF DoneInv
<1>4. DoneInv /\ [Next]_vars => [A]_vars
  BY <1>3
<1> QED BY <1>1, <1>2, <1>4, Invariant, PTL DEF Spec, ScriptsComplete

-----------------------------------------------------------------------------
\* The versions in the tree and in the JSON files.  Only versions that were
\* linked are there; an executable is newer than the backup beside it; and what
\* ran is no newer than the backup or, without one, the executable.
VersionInv ==
  \A b \in Bin :
    /\ fs[<<b, 0>>].kind = "elf" => fs[<<b, 0>>].ver \in 1..linked[b]
    /\ fs[<<b, 1>>].kind = "elf" => fs[<<b, 1>>].ver \in 1..linked[b]
    /\ json[b] \subseteq 1..linked[b]
    /\ fs[<<b, 0>>].kind = "elf" /\ fs[<<b, 1>>].kind = "elf" =>
         fs[<<b, 1>>].ver < fs[<<b, 0>>].ver
    /\ \A v \in json[b] :
         /\ fs[<<b, 1>>].kind = "elf" => v <= fs[<<b, 1>>].ver
         /\ fs[<<b, 1>>].kind = "none" /\ fs[<<b, 0>>].kind = "elf" =>
              v <= fs[<<b, 0>>].ver

LEMMA VersionStep ==
  ASSUME IInv, VersionInv, [Next]_vars
  PROVE  VersionInv'
<1>0. TypeOK /\ linked \in [Bin -> Nat] /\ NoDoubleWrap
  BY VersionAssumption DEF IInv, TypeOK
<1>1. ASSUME NEW b \in Bin, FileStep(b) PROVE VersionInv'
  <2>0. /\ fs[<<b, 1>>].kind \in {"none", "elf"}
        /\ json[b] \subseteq 1..linked[b] /\ linked[b] \in Nat
    BY <1>0, PathOf DEF TypeOK, Content, NoDoubleWrap, VersionInv
  <2>1. CASE /\ Moved(b) \/ MovedBack(b) \/ Wrapped(b) \/ Removed(b)
             /\ UNCHANGED <<linked, json, artifact>>
    <3>1. /\ fs'[<<b, 0>>].kind = "elf" => fs'[<<b, 0>>].ver \in 1..linked[b]
          /\ fs'[<<b, 1>>].kind = "elf" => fs'[<<b, 1>>].ver \in 1..linked[b]
          /\ ~(fs'[<<b, 0>>].kind = "elf" /\ fs'[<<b, 1>>].kind = "elf")
      BY <2>0, <2>1 DEF Moved, MovedBack, Wrapped, Removed, OnlyInBackup, None, Wrapper, VersionInv
    <3>2. ASSUME NEW v \in json[b]
          PROVE  /\ fs'[<<b, 1>>].kind = "elf" => v <= fs'[<<b, 1>>].ver
                 /\ fs'[<<b, 1>>].kind = "none" /\ fs'[<<b, 0>>].kind = "elf" =>
                      v <= fs'[<<b, 0>>].ver
      BY <2>0, <2>1 DEF Moved, MovedBack, Wrapped, Removed, OnlyInBackup, None, Wrapper, VersionInv
    <3> QED BY <1>1, <2>1, <3>1, <3>2 DEF FileStep, VersionInv
  <2>2. CASE Relinked(b) /\ UNCHANGED <<json, artifact>>
    <3>1. /\ linked'[b] = linked[b] + 1 /\ linked[b] \in Nat
          /\ \A c \in Bin : c # b => linked'[c] = linked[c]
      BY <1>0, <2>2 DEF Relinked
    <3>2. 1..linked[b] \subseteq 1..linked'[b] /\ linked'[b] \in 1..linked'[b]
      BY <3>1
    <3>3. fs'[<<b, 0>>].ver = linked'[b] /\ fs'[<<b, 1>>] = fs[<<b, 1>>]
      BY <2>2, <3>1 DEF Relinked, Elf
    <3>4. /\ fs'[<<b, 1>>].kind = "elf" => fs'[<<b, 1>>].ver < fs'[<<b, 0>>].ver
          /\ \A v \in json[b] : v <= fs'[<<b, 0>>].ver
      BY <2>0, <3>1, <3>3 DEF VersionInv
    <3> QED BY <1>1, <2>2, <3>1, <3>2, <3>3, <3>4 DEF FileStep, VersionInv
  <2> QED BY <1>1, <2>1, <2>2 DEF FileStep
<1>2. ASSUME NEW b \in Bin, RunTest(b) PROVE VersionInv'
  <2>1. fs[<<b, 1>>].kind = "elf" /\ fs[<<b, 1>>].ver \in 1..linked[b]
    BY <1>2 DEF RunTest, VersionInv
  <2>2. json' = [json EXCEPT ![b] = json[b] \cup {fs[<<b, 1>>].ver}]
        /\ UNCHANGED <<fs, linked, artifact>>
    BY <1>2 DEF RunTest
  <2>3. /\ json'[b] = json[b] \cup {fs[<<b, 1>>].ver}
        /\ \A c \in Bin : c # b => json'[c] = json[c]
    BY <1>0, <2>2 DEF TypeOK
  <2>4. linked[b] \in Nat /\ fs[<<b, 1>>].ver <= fs[<<b, 1>>].ver
    BY <1>0, <2>1
  <2> QED BY <2>1, <2>2, <2>3, <2>4 DEF VersionInv
<1>3. ASSUME NEW b \in Bin, Collect(b) PROVE VersionInv'
  BY <1>3 DEF Collect, VersionInv
<1>4. ASSUME UNCHANGED <<fs, linked, json, artifact>> PROVE VersionInv'
  BY <1>4 DEF VersionInv
<1> QED
  BY <1>1, <1>2, <1>3, <1>4, FileEffects

\* What one collection copies.
LEMMA CollectStep ==
  ASSUME IInv, VersionInv, NEW b \in Bin, Collect(b)
  PROVE  LET e == artifact'[b].elf[artifact'[b].last]
         IN \A v \in artifact'[b].json :
              \/ v = e
              \/ v < e /\ \A n \in {0, 1} : fs[<<b, n>>] # Elf(v)
<1> DEFINE n == Paired(b)
           f == fs[<<b, n>>]
<1>0. TypeOK /\ linked[b] \in Nat /\ NoDoubleWrap
  BY VersionAssumption DEF IInv, TypeOK
<1>1. linked[b] # 0 /\ json[b] \subseteq 1..linked[b]
  <2>1. json[b] \subseteq 1..linked[b] /\ json[b] # {}
    BY DEF Collect, VersionInv
  <2>2. linked[b] = 0 => 1..linked[b] = {} OBVIOUS
  <2> QED BY <2>1, <2>2
<1>2. fs[<<b, 1>>].kind \in {"none", "elf"}
  BY <1>0, PathOf DEF TypeOK, Content, NoDoubleWrap
<1>3. /\ n \in {0, 1} /\ f.kind = "elf"
      /\ n = 0 => fs[<<b, 1>>].kind = "none"
      /\ n = 1 => fs[<<b, 1>>].kind = "elf"
  <2>1. CASE fs[<<b, 1>>].kind = "none"
    <3>1. fs[<<b, 0>>] = Elf(linked[b]) BY <1>1, <2>1, WhereTheElfIs
    <3> QED BY <2>1, <3>1 DEF Paired, Elf
  <2>2. CASE fs[<<b, 1>>].kind = "elf"
    BY <2>2 DEF Paired
  <2> QED BY <1>2, <2>1, <2>2
<1> DEFINE new == [json |-> json[b], elf |-> [artifact[b].elf EXCEPT ![n] = f.ver], last |-> n]
<1>4. artifact' = [artifact EXCEPT ![b] = new]
  <2>1. f.kind # "none" BY <1>3
  <2> QED BY <2>1 DEF Collect
<1>5. artifact'[b] = new
  BY <1>0, <1>4 DEF TypeOK
<1>6. artifact[b].elf \in [{0, 1} -> 0..MaxVersion]
  BY <1>0 DEF TypeOK
<1>7. artifact'[b].json = json[b] /\ artifact'[b].elf[artifact'[b].last] = f.ver
  BY <1>3, <1>5, <1>6
<1>8. ASSUME NEW v \in json[b], v # f.ver
      PROVE  v < f.ver /\ fs[<<b, 0>>] # Elf(v) /\ fs[<<b, 1>>] # Elf(v)
  <2>1. v \in Nat
    BY <1>0, <1>1
  <2>2. Elf(v).kind = "elf" /\ Elf(v).ver = v
    BY DEF Elf
  <2>3. CASE n = 1
    <3>1. f = fs[<<b, 1>>] /\ fs[<<b, 1>>].kind = "elf"
      BY <1>3, <2>3
    <3>2. f.ver \in Nat /\ v <= f.ver
      <4>1. fs[<<b, 1>>].ver \in 1..linked[b] /\ v <= fs[<<b, 1>>].ver
        BY <3>1 DEF VersionInv
      <4> QED BY <1>0, <3>1, <4>1
    <3>3. fs[<<b, 0>>].kind = "elf" => fs[<<b, 0>>].ver \in Nat /\ f.ver < fs[<<b, 0>>].ver
      BY <1>0, <3>1 DEF VersionInv
    <3> QED BY <1>8, <2>1, <2>2, <3>1, <3>2, <3>3
  <2>4. CASE n = 0
    <3>1. /\ f = fs[<<b, 0>>] /\ fs[<<b, 0>>].kind = "elf"
          /\ fs[<<b, 1>>].kind = "none"
      BY <1>3, <2>4
    <3>2. f.ver \in Nat /\ v <= f.ver
      <4>1. fs[<<b, 0>>].ver \in 1..linked[b] /\ v <= fs[<<b, 0>>].ver
        BY <3>1 DEF VersionInv
      <4> QED BY <1>0, <3>1, <4>1
    <3> QED BY <1>8, <2>1, <2>2, <3>1, <3>2
  <2> QED BY <1>3, <2>3, <2>4
<1> QED BY <1>7, <1>8

\* The JSON is collected with the executable whose runs it records, however
\* often that was relinked, unless that version is no longer anywhere.
THEOREM ResultsPaired == Spec => CollectedElfRan
<1> DEFINE A == \A b \in Bin : artifact'[b] # artifact[b] =>
                  LET e == artifact'[b].elf[artifact'[b].last]
                  IN \A v \in artifact'[b].json :
                       \/ v = e
                       \/ v < e /\ \A n \in {0, 1} : fs[<<b, n>>] # Elf(v)
<1>1. Init => VersionInv
  <2>1. None.kind # "elf" BY DEF None
  <2> SUFFICES ASSUME Init PROVE VersionInv
    OBVIOUS
  <2>2. \A b \in Bin : fs[<<b, 0>>] = None /\ fs[<<b, 1>>] = None
    BY PathOf DEF Init
  <2>3. \A b \in Bin : json[b] = {}
    BY DEF Init
  <2>4. ASSUME NEW b \in Bin
        PROVE  /\ fs[<<b, 0>>].kind # "elf" /\ fs[<<b, 1>>].kind # "elf"
               /\ json[b] \subseteq 1..linked[b] /\ json[b] = {}
    <3>1. fs[<<b, 0>>].kind # "elf" /\ fs[<<b, 1>>].kind # "elf"
      BY <2>1, <2>2, Zenon
    <3>2. \A S : {} \subseteq S OBVIOUS
    <3> QED BY <2>3, <3>1, <3>2, Zenon
  <2> QED BY <2>4, Zenon DEF VersionInv
<1>2. IInv /\ VersionInv /\ [Next]_vars => VersionInv'
  BY VersionStep
<1>3. ASSUME IInv, VersionInv, [Next]_vars PROVE [A]_vars
  <2>1. ASSUME NEW b \in Bin, artifact'[b] # artifact[b] PROVE Collect(b)
    <3>1. ASSUME NEW c \in Bin, Collect(c), c # b PROVE artifact'[b] = artifact[b]
      BY <1>3, <3>1 DEF Collect, IInv, TypeOK
    <3>2. UNCHANGED artifact \/ \E c \in Bin : Collect(c)
      BY <1>3, FileEffects DEF FileStep, RunTest
    <3> QED BY <2>1, <3>1, <3>2
  <2>2. ASSUME NEW b \in Bin, artifact'[b] # artifact[b]
        PROVE  LET e == artifact'[b].elf[artifact'[b].last]
               IN \A v \in artifact'[b].json :
                    \/ v = e
                    \/ v < e /\ \A n \in {0, 1} : fs[<<b, n>>] # Elf(v)
    <3>1. Collect(b) BY <2>1, <2>2
    <3> QED BY <1>3, <3>1, CollectStep
  <2> QED BY <2>2
<1>4. IInv /\ VersionInv /\ [Next]_vars => [A]_vars
  BY <1>3
<1> QED BY <1>1, <1>2, <1>4, Invariant, PTL DEF Spec, CollectedElfRan
=============================================================================
