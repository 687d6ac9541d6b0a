---------------------------- MODULE WrapRestore ----------------------------
(***************************************************************************)
(* wrap_with_mypintool.sh and restore_wrapped_elfs.sh over the build tree  *)
(* of one package, with the environment they live in: builds that link the *)
(* executables, tests that run them, and the collection of the results.    *)
(* The scripts run one at a time, in any order, as collect_dynamic.sh,     *)
(* verify_llm_pipeline.sh or a user calls them; one action is one file     *)
(* system operation, and a script may be killed between two of them.       *)
(*                                                                         *)
(* A path is a pair <<b, n>>: the executable b followed by n times ".orig". *)
(***************************************************************************)
EXTENDS Naturals

CONSTANTS
  Bin,          \* the ELF executables that the package builds
  MaxVersion,   \* bound on how often an executable is linked
  Relinks,      \* may a build replace an executable that is there?
  CanKill,      \* may a script be killed (timeout, ^C)?
  CanFail       \* may a write, chmod or mv fail?

ASSUME VersionAssumption == MaxVersion \in Nat \ {0}
ASSUME FlagAssumption    == /\ Relinks \in BOOLEAN
                            /\ CanKill \in BOOLEAN
                            /\ CanFail \in BOOLEAN

Path    == Bin \X (0..2)
Orig(p) == <<p[1], p[2] + 1>>            \* "${binary}.orig"
Base(p) == <<p[1], p[2] - 1>>            \* ${original%.orig}

\* What is at a path: nothing, an ELF executable of some version, or a wrapper.
Content == [kind : {"none", "elf", "wrapper"}, ver : 0..MaxVersion]
None    == [kind |-> "none", ver |-> 0]
Wrapper == [kind |-> "wrapper", ver |-> 0]
Elf(v)  == [kind |-> "elf", ver |-> v]

VARIABLES
  fs,       \* fs[p]: the file at path p
  tmp,      \* the paths that have a temporary wrapper beside them
  script,   \* the script that is running, or "none"
  step,     \* where it is in the body of its loop
  at,       \* the set holding the path it is working on, empty at "pick"
  todo,     \* the paths its find may still report
  linked,   \* linked[b]: the version of b that was linked last
  json,     \* json[b]: the versions whose edges are in <b>.orig_*.json
  artifact  \* artifact[b]: the versions in the collected JSON, those of the
            \* collected files b and b.orig (0: none), and which was copied last

vars == <<fs, tmp, script, step, at, todo, linked, json, artifact>>
envVars == <<linked, json, artifact>>

Init ==
  /\ fs = [p \in Path |-> None]
  /\ tmp = {}
  /\ script = "none" /\ step = "pick" /\ at = {} /\ todo = {}
  /\ linked = [b \in Bin |-> 0]
  /\ json = [b \in Bin |-> {}]
  /\ artifact = [b \in Bin |->
       [json |-> {}, elf |-> [n \in {0, 1} |-> 0], last |-> 0]]

\* The running script exits.
Exit ==
  /\ script' = "none"
  /\ step' = "pick"
  /\ at' = {}
  /\ todo' = {}

-----------------------------------------------------------------------------
(* wrap_with_mypintool.sh                                                   *)

\* find runs beside the loop: it may also report what the loop creates.
WrapStart ==
  /\ script = "none"
  /\ script' = "wrap"
  /\ todo' = {p \in Path : p[2] < 2}
  /\ UNCHANGED <<fs, tmp, step, at>> /\ UNCHANGED envVars

\* Wrappable without the filter on *.orig names.
WrappableAnyName(p) == fs[p].kind = "elf" /\ fs[Orig(p)].kind = "none"

\* Wrappable without the look at an existing backup.
WrappableOverBackup(p) == p[2] = 0 /\ fs[p].kind = "elf"

\* The continues of the loop: *.orig names, files that are not ELF executables
\* (wrappers and missing files among them), and files with a backup.
Wrappable(p) == p[2] = 0 /\ fs[p].kind = "elf" /\ fs[Orig(p)].kind = "none"

\* A break where the code has continue.
WrapSkipBreaks(p) ==
  /\ script = "wrap" /\ step = "pick" /\ p \in todo
  /\ ~Wrappable(p)
  /\ todo' = {}
  /\ UNCHANGED <<fs, tmp, script, step, at>> /\ UNCHANGED envVars

WrapSkip(p) ==
  /\ script = "wrap" /\ step = "pick" /\ p \in todo
  /\ ~Wrappable(p)
  /\ todo' = todo \ {p}
  /\ UNCHANGED <<fs, tmp, script, step, at>> /\ UNCHANGED envVars

\* mv -- "$binary" "$original"
WrapMove(p) ==
  /\ script = "wrap" /\ step = "pick" /\ p \in todo
  /\ Wrappable(p)
  /\ fs' = [fs EXCEPT ![Orig(p)] = fs[p], ![p] = None]
  /\ step' = "moved" /\ at' = {p}
  /\ UNCHANGED <<tmp, script, todo>> /\ UNCHANGED envVars

\* { printf ... } > "$temporary_wrapper"; chmod +x
WrapWrite(p) ==
  /\ script = "wrap" /\ step = "moved" /\ p \in at
  /\ tmp' = tmp \cup {p}
  /\ step' = "written"
  /\ UNCHANGED <<fs, script, at, todo>> /\ UNCHANGED envVars

\* The else branch: rm -f the temporary, mv the original back, exit 1.
WrapWriteFails(p) ==
  /\ CanFail
  /\ script = "wrap" /\ step = "moved" /\ p \in at
  /\ fs' = [fs EXCEPT ![p] = fs[Orig(p)], ![Orig(p)] = None]
  /\ tmp' = tmp \ {p}
  /\ Exit
  /\ UNCHANGED envVars

\* mv -- "$temporary_wrapper" "$binary"
WrapInstall(p) ==
  /\ script = "wrap" /\ step = "written" /\ p \in at
  /\ fs' = [fs EXCEPT ![p] = Wrapper]
  /\ tmp' = tmp \ {p}
  /\ step' = "pick" /\ at' = {}
  /\ todo' = todo \ {p}
  /\ UNCHANGED script /\ UNCHANGED envVars

\* find has reported everything.
WrapEnd ==
  /\ script = "wrap" /\ step = "pick" /\ todo = {}
  /\ Exit
  /\ UNCHANGED <<fs, tmp>> /\ UNCHANGED envVars

-----------------------------------------------------------------------------
(* restore_wrapped_elfs.sh                                                  *)

RestoreStart ==
  /\ script = "none"
  /\ script' = "restore"
  /\ todo' = {p \in Path : p[2] > 0}
  /\ UNCHANGED <<fs, tmp, step, at>> /\ UNCHANGED envVars

\* Restorable without the look for the marker.
RestorableAnyFile(p) == fs[p].kind # "none" /\ fs[Base(p)].kind # "none"

\* A *.orig file whose base is a file that contains the marker line.
Restorable(p) == fs[p].kind # "none" /\ fs[Base(p)].kind = "wrapper"

RestoreSkip(p) ==
  /\ script = "restore" /\ step = "pick" /\ p \in todo
  /\ ~Restorable(p)
  /\ todo' = todo \ {p}
  /\ UNCHANGED <<fs, tmp, script, step, at>> /\ UNCHANGED envVars

\* rm -f -- "$original": the wrong variable.
RestoreRemovesBackup(p) ==
  /\ script = "restore" /\ step = "pick" /\ p \in todo
  /\ Restorable(p)
  /\ fs' = [fs EXCEPT ![p] = None]
  /\ step' = "removed" /\ at' = {p}
  /\ UNCHANGED <<tmp, script, todo>> /\ UNCHANGED envVars

\* rm -f -- "$wrapper"
RestoreRemove(p) ==
  /\ script = "restore" /\ step = "pick" /\ p \in todo
  /\ Restorable(p)
  /\ fs' = [fs EXCEPT ![Base(p)] = None]
  /\ step' = "removed" /\ at' = {p}
  /\ UNCHANGED <<tmp, script, todo>> /\ UNCHANGED envVars

\* mv -- "$original" "$wrapper"
RestoreMove(p) ==
  /\ script = "restore" /\ step = "removed" /\ p \in at
  /\ fs' = [fs EXCEPT ![Base(p)] = fs[p], ![p] = None]
  /\ step' = "pick" /\ at' = {}
  /\ todo' = todo \ {p}
  /\ UNCHANGED <<tmp, script>> /\ UNCHANGED envVars

\* find has reported everything.
RestoreEnd ==
  /\ script = "restore" /\ step = "pick" /\ todo = {}
  /\ Exit
  /\ UNCHANGED <<fs, tmp>> /\ UNCHANGED envVars

-----------------------------------------------------------------------------
\* The TERM of a makepkg timeout, or ^C, ends the running script.
Kill ==
  /\ CanKill
  /\ script # "none"
  /\ Exit
  /\ UNCHANGED <<fs, tmp>> /\ UNCHANGED envVars

\* set -e: an mv, chmod or rm fails, and the script is over where it stands.
CommandFails ==
  /\ CanFail
  /\ script # "none"
  /\ Exit
  /\ UNCHANGED <<fs, tmp>> /\ UNCHANGED envVars

(* The environment, while no script is running.                             *)

\* The package's build, or its test suite, links b: the new executable
\* replaces what is at b and knows nothing of b.orig.
Link(b) ==
  /\ script = "none"
  /\ linked[b] < MaxVersion
  /\ fs[<<b, 0>>].kind = "none" \/ Relinks
  /\ fs' = [fs EXCEPT ![<<b, 0>>] = Elf(linked[b] + 1)]
  /\ linked' = [linked EXCEPT ![b] = @ + 1]
  /\ UNCHANGED <<tmp, script, step, at, todo, json, artifact>>

\* A test runs b.  The wrapper runs b.orig under Pin, and MyPinTool merges the
\* edges into the JSON files named after b.orig.  A plain ELF leaves no trace.
RunTest(b) ==
  /\ script = "none"
  /\ fs[<<b, 0>>].kind = "wrapper"
  /\ fs[<<b, 1>>].kind = "elf"
  /\ json' = [json EXCEPT ![b] = @ \cup {fs[<<b, 1>>].ver}]
  /\ UNCHANGED <<fs, tmp, script, step, at, todo, linked, artifact>>

\* Which file collect_artifacts copies with the JSON, b (0) or b.orig (1): the
\* pairing rule that looks for b first,
BaseFirst(b) == IF fs[<<b, 0>>].kind # "none" THEN 0 ELSE 1

\* and that of the code, b.orig if it is a file and otherwise b.
Paired(b) == IF fs[<<b, 1>>].kind # "none" THEN 1 ELSE 0

\* A copy goes to the same name below artifacts/: a copy of the other name, made
\* by an earlier collection, stays there.
Collect(b) ==
  /\ script = "none"
  /\ json[b] # {}
  /\ LET n == Paired(b)
         f == fs[<<b, n>>]
     IN artifact' = [artifact EXCEPT ![b] =
          IF f.kind = "none"
          THEN [@ EXCEPT !.json = json[b]]
          ELSE [json |-> json[b], elf |-> [@.elf EXCEPT ![n] = f.ver], last |-> n]]
  /\ UNCHANGED <<fs, tmp, script, step, at, todo, linked, json>>

Next ==
  \/ WrapStart \/ WrapEnd \/ RestoreStart \/ RestoreEnd
  \/ Kill \/ CommandFails
  \/ \E p \in Path :
       \/ WrapSkip(p) \/ WrapMove(p) \/ WrapWrite(p) \/ WrapInstall(p)
       \/ WrapWriteFails(p)
       \/ RestoreSkip(p) \/ RestoreRemove(p) \/ RestoreMove(p)
  \/ \E b \in Bin : Link(b) \/ RunTest(b) \/ Collect(b)

Spec == Init /\ [][Next]_vars

-----------------------------------------------------------------------------
(* Properties.                                                              *)

\* Type invariant of the module.
TypeOK ==
  /\ fs \in [Path -> Content]
  /\ tmp \subseteq Path
  /\ script \in {"none", "wrap", "restore"}
  /\ step \in {"pick", "moved", "written", "removed"}
  /\ at \subseteq Path
  /\ todo \subseteq Path
  /\ linked \in [Bin -> 0..MaxVersion]
  /\ json \in [Bin -> SUBSET (0..MaxVersion)]
  /\ artifact \in [Bin -> [json : SUBSET (0..MaxVersion),
                         elf  : [{0, 1} -> 0..MaxVersion],
                         last : {0, 1}]]

\* No kill or failure at any point of either script loses an executable: the
\* version linked last is at its own path or in the backup.
NoElfLost ==
  \A b \in Bin : linked[b] # 0 =>
    \E n \in {0, 1} : fs[<<b, n>>] = Elf(linked[b])

\* A wrapper always has an executable to run: b.orig exists whenever b is a
\* wrapper, also in the middle of a script and after it was killed.
WrapperHasTarget ==
  \A b \in Bin : fs[<<b, 0>>].kind = "wrapper" => fs[<<b, 1>>].kind = "elf"

\* However often the scripts are run, a backup is never wrapped itself: there
\* is no b.orig.orig, and no wrapper runs another one.
NoDoubleWrap ==
  \A b \in Bin : fs[<<b, 1>>].kind # "wrapper" /\ fs[<<b, 2>>].kind = "none"

\* "Refusing to overwrite an existing backup": a backup disappears by being
\* moved back, and never becomes another version.
BackupNotOverwritten ==
  [][\A b \in Bin :
       fs[<<b, 1>>].kind = "elf" =>
         fs'[<<b, 1>>] \in {fs[<<b, 1>>], None}]_vars

\* A wrap that runs to its end has wrapped every executable, except where an
\* old backup made it refuse; a restore that does leaves no wrapper behind.
ScriptsComplete ==
  [][step = "pick" /\ todo = {} /\ script' = "none" =>
       \A b \in Bin :
         /\ script = "wrap" /\ fs[<<b, 0>>].kind = "elf" => fs[<<b, 1>>].kind = "elf"
         /\ script = "restore" => fs[<<b, 0>>].kind # "wrapper"]_vars

\* The JSON of b.orig gathers the edges of every version that ran under the
\* wrapper, however often b was relinked, wrapped and restored in between.  The
\* ELF that a collection copies is the version that ran; a version that ran and
\* is not the one copied is older, and nowhere in the tree any more.
CollectedElfRan ==
  [][\A b \in Bin : artifact'[b] # artifact[b] =>
       LET e == artifact'[b].elf[artifact'[b].last]
       IN \A v \in artifact'[b].json :
            \/ v = e
            \/ v < e /\ \A n \in {0, 1} : fs[<<b, n>>] # Elf(v)]_vars
=============================================================================
