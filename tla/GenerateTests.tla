--------------------------- MODULE GenerateTests ---------------------------
(***************************************************************************)
(* generate_tests.py: selects files of a project for a prompt, asks a      *)
(* model for a test suite (or reads a saved answer), and writes the suite  *)
(* into an output directory, which earlier generations and the user may    *)
(* have filled.  The module is written to be composed: its definitions     *)
(* carry the prefix Gen where VerifyPipeline has one of its own.           *)
(***************************************************************************)
EXTENDS Integers, Sequences, FiniteSets

CONSTANTS
  Tree,             \* the files a project may have, in the order of their paths
  Projects,         \* the sets of them that make up a project
  MaxFiles,         \* --max-files
  MaxFileBytes,     \* --max-file-bytes
  MaxContextChars,  \* --max-context-chars
  Retries,          \* --retries
  Name, GenPath,    \* the names an answer may use, and the paths they denote
  Target,           \* Target[n]: the path that name n resolves to
  Reserved,         \* the names that read generation.json or
                    \* generation_metadata.json, in upper or lower case
  Linked,           \* the names that lead through a symbolic link, which a user
                    \* has put into the output directory
  Above,            \* Above[p]: the paths p lies below, if they are directories
  GenJson,          \* generation.json
  MetaJson,         \* generation_metadata.json
  Outside,          \* what a name denotes that leaves the output directory
  Suite,            \* the answers the model may give
  MaxGenerations    \* bound on how often the program is run

\* What the selection looks at: where a file is, what its name says, its size,
\* and whether it decodes.
FileAttr == [excluded : BOOLEAN, sensitive : BOOLEAN, important : BOOLEAN,
             test : BOOLEAN, api : BOOLEAN, header : BOOLEAN, source : BOOLEAN,
             depth : Nat, bytes : Nat, chars : Nat, text : BOOLEAN]

ASSUME TreeAssumption ==
  /\ Tree \in Seq(FileAttr)
  /\ Projects \subseteq SUBSET (1..Len(Tree))
ASSUME LimitAssumption ==
  /\ {MaxFiles, MaxFileBytes, MaxContextChars} \subseteq Nat \ {0}
  /\ {Retries, MaxGenerations} \subseteq Nat
ASSUME PathAssumption ==
  /\ GenJson \in GenPath /\ MetaJson \in GenPath /\ GenJson # MetaJson
  /\ Outside \notin GenPath
  /\ Target \in [Name -> GenPath \cup {Outside}]
  /\ Reserved \subseteq Name /\ Linked \subseteq Name
  /\ \A n \in Name \ Linked : Target[n] \in {GenJson, MetaJson} => n \in Reserved
  /\ Above \in [GenPath -> SUBSET GenPath]
ASSUME SuiteAssumption == Suite \subseteq [shape : BOOLEAN, names : Seq(Name)]

Files    == 1..Len(Tree)
Category == <<"metadata", "tests", "sources", "headers">>   \* category_order
CategorySet == {Category[i] : i \in 1..4}

VARIABLES
  project,    \* the files that exist
  gpc,        \* where main is; "idle" when the program is not running
  mode,       \* dry (--dry-run), file (--response-file), live
  force,      \* --force
  buckets,    \* buckets[c]: the candidates of category c not yet ranked
  turn,       \* which category is next
  ranked,     \* ranked
  index,      \* how many of ranked have been looked at
  selected,   \* selected
  used,       \* used_chars
  attempt,    \* attempt
  requests,   \* history: the requests this run has sent
  answer,     \* generated
  gen,        \* the number of this run of the program
  writer,     \* history: the last run that began to write, its suite, and the
              \* paths in use when it had checked the directory
  written,    \* how many files of the suite it has written
  disk,       \* disk[p]: the file at path p of the output directory
  dirs,       \* the paths that are directories below the output directory
  why         \* how the last run ended: none (running), ok, dry, rejected,
              \* empty (nothing selected), fatal, transient, io, killed

selection == <<buckets, turn, ranked, index, selected, used>>
call      == <<attempt, requests, answer>>
output    == <<writer, written, disk, dirs>>
genVars   == <<project, gpc, mode, force, selection, call, gen, output, why>>

Absent   == [st |-> "none", gen |-> 0]
Whole(g) == [st |-> "whole", gen |-> g]
Torn(g)  == [st |-> "torn", gen |-> g]
UserFile == Whole(0)
NoSuite  == [shape |-> FALSE, names |-> <<>>]
Exists(p) == disk[p].st # "none" \/ p \in dirs

Writing  == {"write", "generation", "metadata"}

GenInit ==
  /\ project \in Projects
  /\ gpc = "idle" /\ mode = "dry" /\ force = FALSE
  /\ buckets = [c \in CategorySet |-> {}] /\ turn = 1 /\ ranked = <<>>
  /\ index = 0 /\ selected = <<>> /\ used = 0
  /\ attempt = 0 /\ requests = 0 /\ answer = NoSuite /\ gen = 0
  /\ writer = [gen |-> 0, suite |-> NoSuite, force |-> FALSE, before |-> {}]
  /\ written = 0
  /\ disk = [p \in GenPath |-> Absent] /\ dirs = {} /\ why = "none"

-----------------------------------------------------------------------------
(* iter_candidate_paths, candidate_category, candidate_priority             *)

IsCandidate(f) ==
  /\ ~Tree[f].excluded /\ ~Tree[f].sensitive
  /\ Tree[f].important \/ Tree[f].source

CandidateCategory(f) ==
  IF Tree[f].important THEN "metadata"
  ELSE IF Tree[f].test THEN "tests"
  ELSE IF Tree[f].header THEN "headers"
  ELSE "sources"

CandidatePriority(f) ==
  LET score(b, n) == IF b THEN n ELSE 0
  IN  score(Tree[f].important, 100) + score(Tree[f].test, 80)
      + score(Tree[f].api, 40) + score(Tree[f].header, 30)
      + score(Tree[f].source, 20) - Tree[f].depth

\* The key of paths.sort: priority first, then path.
Before(f, g) ==
  \/ CandidatePriority(f) > CandidatePriority(g)
  \/ CandidatePriority(f) = CandidatePriority(g) /\ f < g

\* pop(0) of the sorted bucket S.
First(S) == CHOOSE f \in S : \A g \in S : f = g \/ Before(f, g)

\* read_text_file does not return None.
Readable(f) == Tree[f].bytes \in 1..MaxFileBytes /\ Tree[f].text

-----------------------------------------------------------------------------
\* The run ends with exit status and message w.
End(w) == gpc' = "idle" /\ why' = w

\* main starts: os.walk fills the buckets.
Invoke(m, f) ==
  /\ gpc = "idle" /\ gen < MaxGenerations
  /\ m = "dry" => ~f
  /\ gpc' = "rank" /\ mode' = m /\ force' = f /\ gen' = gen + 1 /\ why' = "none"
  /\ buckets' = [c \in CategorySet |->
                   {g \in project : IsCandidate(g) /\ CandidateCategory(g) = c}]
  /\ turn' = 1 /\ ranked' = <<>> /\ index' = 0 /\ selected' = <<>> /\ used' = 0
  /\ attempt' = 0 /\ requests' = 0 /\ answer' = NoSuite
  /\ UNCHANGED <<project, output>>

\* A round ends at the first category that has no file left.
RankBreaksAtEmpty ==
  /\ gpc = "rank" /\ \E c \in CategorySet : buckets[c] # {}
  /\ LET c == Category[turn] IN
       IF buckets[c] = {}
       THEN turn' = 1 /\ UNCHANGED <<ranked, buckets>>
       ELSE /\ ranked' = Append(ranked, First(buckets[c]))
            /\ buckets' = [buckets EXCEPT ![c] = @ \ {First(@)}]
            /\ turn' = (turn % 4) + 1
  /\ UNCHANGED <<project, gpc, mode, force, index, selected, used, call, gen,
                 output, why>>

\* while any(buckets): one file of each category in turn.
Rank ==
  /\ gpc = "rank" /\ \E c \in CategorySet : buckets[c] # {}
  /\ LET c == Category[turn] IN
       IF buckets[c] = {}
       THEN UNCHANGED <<ranked, buckets>>
       ELSE /\ ranked' = Append(ranked, First(buckets[c]))
            /\ buckets' = [buckets EXCEPT ![c] = @ \ {First(@)}]
  /\ turn' = (turn % 4) + 1
  /\ UNCHANGED <<project, gpc, mode, force, index, selected, used, call, gen,
                 output, why>>

RankEnd ==
  /\ gpc = "rank" /\ \A c \in CategorySet : buckets[c] = {}
  /\ gpc' = "select"
  /\ UNCHANGED <<project, mode, force, selection, call, gen, output, why>>

\* Is the loop over ranked at its end, or at its break?
SelectionOver == index = Len(ranked) \/ Len(selected) >= MaxFiles

\* A file that does not fit ends the loop.
SelectOrBreak ==
  /\ gpc = "select" /\ ~SelectionOver
  /\ LET f == ranked[index + 1] IN
       IF Readable(f) /\ used + Tree[f].chars <= MaxContextChars
       THEN /\ selected' = Append(selected, f) /\ used' = used + Tree[f].chars
            /\ index' = index + 1
       ELSE index' = Len(ranked) /\ UNCHANGED <<selected, used>>
  /\ UNCHANGED <<project, gpc, mode, force, buckets, turn, ranked, call, gen,
                 output, why>>

\* A file that cannot be read, or does not fit, is passed over.
Select ==
  /\ gpc = "select" /\ ~SelectionOver
  /\ LET f == ranked[index + 1] IN
       IF Readable(f) /\ used + Tree[f].chars <= MaxContextChars
       THEN selected' = Append(selected, f) /\ used' = used + Tree[f].chars
       ELSE UNCHANGED <<selected, used>>
  /\ index' = index + 1
  /\ UNCHANGED <<project, gpc, mode, force, buckets, turn, ranked, call, gen,
                 output, why>>

\* "No eligible text source", the end of a dry run, or on to the answer.
SelectEnd ==
  /\ gpc = "select" /\ SelectionOver
  /\ IF selected = <<>> THEN End("empty")
     ELSE IF mode = "dry" THEN End("dry")
     ELSE gpc' = "answer" /\ UNCHANGED why
  /\ UNCHANGED <<project, mode, force, selection, call, gen, output>>

-----------------------------------------------------------------------------
(* call_responses_api                                                       *)

\* A request is sent and answered by outcome.
Request == gpc = "answer" /\ mode = "live" /\ requests' = requests + 1

\* A saved or received answer is JSON.
Answer(s) ==
  /\ \/ Request
     \/ gpc = "answer" /\ mode = "file" /\ UNCHANGED requests
  /\ answer' = s
  /\ gpc' = "check"
  /\ UNCHANGED <<project, mode, force, selection, attempt, gen, output, why>>

\* One attempt too many.
TransientErrorOffByOne ==
  /\ Request
  /\ IF attempt > Retries
     THEN End("transient") /\ UNCHANGED attempt
     ELSE attempt' = attempt + 1 /\ UNCHANGED <<gpc, why>>
  /\ UNCHANGED <<project, mode, force, selection, answer, gen, output>>

\* HTTP 408, 409, 429, 5xx, or URLError: the next attempt, if there is one.
TransientError ==
  /\ Request
  /\ IF attempt >= Retries
     THEN End("transient") /\ UNCHANGED attempt
     ELSE attempt' = attempt + 1 /\ UNCHANGED <<gpc, why>>
  /\ UNCHANGED <<project, mode, force, selection, answer, gen, output>>

\* Any other HTTP status, a refusal, an incomplete answer, a time-out while the
\* body is read, text that is not JSON; for a response file, no file or no JSON.
FatalError ==
  /\ \/ Request
     \/ gpc = "answer" /\ mode = "file" /\ UNCHANGED requests
  /\ End("fatal")
  /\ UNCHANGED <<project, mode, force, selection, attempt, answer, gen, output>>

\* OPENAI_API_KEY is not set.
NoKey ==
  /\ gpc = "answer" /\ mode = "live" /\ attempt = 0
  /\ End("fatal")
  /\ UNCHANGED <<project, mode, force, selection, call, gen, output>>

-----------------------------------------------------------------------------
(* materialize_suite, and the two files main writes after it                *)

Targets(s) == {Target[s.names[i]] : i \in 1..Len(s.names)}

\* safe_generated_path raises nothing: it looks at the text of a name before it
\* resolves it, and only then at where it leads.
SafeName(n) == n \notin Reserved /\ Target[n] # Outside

\* The directory is not looked at: only the targets must be free.
AcceptableUnprepared(s) ==
  /\ s.shape
  /\ \A i \in 1..Len(s.names) : SafeName(s.names[i])
  /\ Cardinality(Targets(s)) = Len(s.names)
  /\ force \/ \A p \in Targets(s) : ~Exists(p)

\* validate_generated_suite, prepare_output_directory, safe_generated_path,
\* no duplicate targets, no existing target: all before the first write.  A
\* directory with a link in it is not empty.
Acceptable(s) ==
  /\ s.shape
  /\ force \/ \A p \in GenPath : ~Exists(p)
  /\ force \/ \A i \in 1..Len(s.names) : s.names[i] \notin Linked
  /\ \A i \in 1..Len(s.names) : SafeName(s.names[i])
  /\ Cardinality(Targets(s)) = Len(s.names)
  /\ force \/ \A p \in Targets(s) : ~Exists(p)

Reject ==
  /\ gpc = "check" /\ ~Acceptable(answer)
  /\ End("rejected")
  /\ UNCHANGED <<project, mode, force, selection, call, gen, output>>

Accept ==
  /\ gpc = "check" /\ Acceptable(answer)
  /\ gpc' = "write"
  /\ writer' = [gen |-> gen, suite |-> answer, force |-> force,
                before |-> {p \in GenPath : Exists(p)}]
  /\ written' = 0
  /\ UNCHANGED <<project, mode, force, selection, call, gen, disk, dirs, why>>

\* target.parent.mkdir: no file is in the way.
Reachable(p) == \A q \in Above[p] : disk[q].st = "none"

\* target.parent.mkdir, then write_text, which creates or truncates the file
\* before it writes.  Any of it may fail, and what was done is not undone.
Write(p, goOn) ==
  \/ ~Reachable(p) /\ UNCHANGED <<disk, dirs>> /\ End("io")
  \/ /\ Reachable(p)
     /\ dirs' = dirs \cup Above[p]
     /\ \/ p \notin dirs /\ disk' = [disk EXCEPT ![p] = Whole(gen)] /\ goOn
        \/ p \notin dirs /\ disk' = [disk EXCEPT ![p] = Torn(gen)] /\ End("io")
        \/ UNCHANGED disk /\ End("io")

Entry == Target[writer.suite.names[written + 1]]

WriteFile ==
  /\ gpc = "write" /\ written < Len(writer.suite.names)
  /\ Write(Entry, UNCHANGED <<gpc, why>>)
  /\ written' = written + 1
  /\ UNCHANGED <<project, mode, force, selection, call, gen, writer>>

\* The last file is forgotten.
WriteEndEarly ==
  /\ gpc = "write" /\ written + 1 >= Len(writer.suite.names)
  /\ gpc' = "generation"
  /\ UNCHANGED <<project, mode, force, selection, call, gen, output, why>>

WriteEnd ==
  /\ gpc = "write" /\ written = Len(writer.suite.names)
  /\ gpc' = "generation"
  /\ UNCHANGED <<project, mode, force, selection, call, gen, output, why>>

WriteGeneration ==
  /\ gpc = "generation"
  /\ Write(GenJson, gpc' = "metadata" /\ UNCHANGED why)
  /\ UNCHANGED <<project, mode, force, selection, call, gen, writer, written>>

WriteMetadata ==
  /\ gpc = "metadata"
  /\ Write(MetaJson, End("ok"))
  /\ UNCHANGED <<project, mode, force, selection, call, gen, writer, written>>

-----------------------------------------------------------------------------
\* ^C, a kill or a crash ends the program where it stands.
Interrupt ==
  /\ gpc # "idle"
  /\ End("killed")
  /\ UNCHANGED <<project, mode, force, selection, call, gen, output>>

\* Someone else puts a file into the output directory, at any time; one file
\* at a time bounds the model.
UserWrites(p) ==
  /\ gen > 0 /\ \A q \in GenPath : disk[q] # UserFile
  /\ ~Exists(p) /\ Reachable(p)
  /\ disk' = [disk EXCEPT ![p] = UserFile]
  /\ dirs' = dirs \cup Above[p]
  /\ UNCHANGED <<project, gpc, mode, force, selection, call, gen, writer,
                 written, why>>

GenStep ==
  \/ Rank \/ RankEnd \/ Select \/ SelectEnd
  \/ \E s \in Suite : Answer(s)
  \/ TransientError \/ FatalError \/ NoKey
  \/ Reject \/ Accept \/ WriteFile \/ WriteEnd \/ WriteGeneration \/ WriteMetadata

GenNext ==
  \/ GenStep
  \/ \E m \in {"dry", "file", "live"}, f \in BOOLEAN : Invoke(m, f)
  \/ Interrupt
  \/ \E p \in GenPath : UserWrites(p)

GenSpec == GenInit /\ [][GenNext]_genVars

-----------------------------------------------------------------------------
(* Properties.                                                              *)

Content == [st : {"none", "torn", "whole"}, gen : 0..MaxGenerations]

\* Type invariant of the module.
GenTypeOK ==
  /\ project \subseteq Files
  /\ gpc \in {"idle", "rank", "select", "answer", "check", "write",
              "generation", "metadata"}
  /\ mode \in {"dry", "file", "live"} /\ force \in BOOLEAN
  /\ buckets \in [CategorySet -> SUBSET Files] /\ turn \in 1..4
  /\ ranked \in Seq(Files) /\ selected \in Seq(Files)
  /\ index \in 0..Len(ranked) /\ used \in Nat
  /\ attempt \in 0..Retries /\ requests \in 0..Retries + 1
  /\ answer \in Suite \cup {NoSuite}
  /\ gen \in 0..MaxGenerations
  /\ writer \in [gen : 0..MaxGenerations, suite : Suite \cup {NoSuite},
                 force : BOOLEAN, before : SUBSET GenPath]
  /\ written \in Nat
  /\ disk \in [GenPath -> Content] /\ dirs \subseteq GenPath
  /\ why \in {"none", "ok", "dry", "rejected", "empty", "fatal", "transient", "io",
             "killed"}

\* How many candidates of category c are in the ranking.
Share(c) == Cardinality({i \in 1..Len(ranked) : CandidateCategory(ranked[i]) = c})

\* The prompt stays within its limits and wastes none of them: of the files
\* that were passed over although the program could read them, none would still
\* fit, unless the limit on the number of files was reached.  And no category
\* drowns another: as long as one has candidates left, it has at most one file
\* less in the ranking than any other, so that --max-files cuts all alike.
SelectionFair ==
  /\ gpc = "answer" =>
       /\ used <= MaxContextChars /\ Len(selected) <= MaxFiles
       /\ Len(selected) < MaxFiles =>
            \A f \in project :
              \/ ~IsCandidate(f) \/ ~Readable(f)
              \/ \E i \in 1..Len(selected) : selected[i] = f
              \/ used + Tree[f].chars > MaxContextChars
  /\ \A c, d \in CategorySet : buckets[c] # {} => Share(d) <= Share(c) + 1

\* Does no name of the suite lead to one of the two files that main writes?
Unlinked(s) == Targets(s) \cap {GenJson, MetaJson} = {}

\* generation_metadata.json is written last: when it is there, every file of
\* that generation's suite and its generation.json are complete, one for each
\* entry, until a forced generation begins to write.  (Only a name that leads to
\* one of the two files through a link can pass the checks and break this.)
MetadataMeansComplete ==
  writer.gen > 0 /\ Unlinked(writer.suite) /\ disk[MetaJson] = Whole(writer.gen) =>
    /\ \A p \in Targets(writer.suite) \cup {GenJson} : disk[p] = Whole(writer.gen)
    /\ Cardinality({p \in GenPath : disk[p] = Whole(writer.gen)})
         = Len(writer.suite.names) + 2

\* A directory that was filled without --force never holds files of two
\* generations, even if an earlier one failed half way.
NoMixing ==
  writer.gen > 0 /\ ~writer.force =>
    \A p \in GenPath : disk[p].gen \in {0, writer.gen}

\* Without --force nothing that was in the directory when the program had
\* looked at it is changed, generation.json and generation_metadata.json of an
\* earlier run among them, which no check of the targets covers.
NothingOverwritten ==
  [][~force => \A p \in GenPath :
       disk[p].st # "none" /\ (gpc \in Writing => p \in writer.before) =>
         disk'[p] = disk[p]]_genVars
=============================================================================
