-------------------------- MODULE MCVerifyPipeline --------------------------
(* An instance of VerifyPipeline, and of GenerateTests in it, for TLC. *)
EXTENDS VerifyPipeline

File(important, test, header, chars) ==
  [excluded |-> FALSE, sensitive |-> FALSE, important |-> important, test |-> test,
   api |-> header, header |-> header, source |-> ~important, depth |-> 2,
   bytes |-> chars, chars |-> chars, text |-> TRUE]

\* A Makefile, a source that is too large for its limit, one that is too long
\* for what is left of the prompt, two tests, a header, and two files that no
\* prompt may hold.
MCTree ==
  <<File(TRUE, FALSE, FALSE, 2), File(FALSE, FALSE, FALSE, 9), File(FALSE, FALSE, FALSE, 4),
    File(FALSE, TRUE, FALSE, 3), File(FALSE, TRUE, FALSE, 1), File(FALSE, FALSE, TRUE, 1),
    [File(FALSE, FALSE, FALSE, 1) EXCEPT !.sensitive = TRUE],
    [File(FALSE, FALSE, FALSE, 1) EXCEPT !.excluded = TRUE]>>

\* The whole tree, of which MaxFiles leaves out files that would fit; a project
\* with a source that does not fit; and one without a file that can be read.
MCProjects == {1..8, {1, 3, 4}, {2, 7}}

Cases == "tests/generated_cases.txt"
Gj    == "generation.json"
Mj    == "generation_metadata.json"
Below == "generation.json/x"

MCPath   == {"tests", Cases, Gj, Mj, Below}
MCName   == MCPath \cup {"./tests", "../x", "link"}
MCTarget == [n \in MCName |-> CASE n = "./tests" -> "tests" [] n = "../x" -> "outside"
                                [] n = "link" -> Mj [] OTHER -> n]
MCAbove  == [p \in MCPath |-> IF p = Cases THEN {"tests"} ELSE IF p = Below THEN {Gj} ELSE {}]

Of(names) == [shape |-> TRUE, names |-> names]
MCOffline == Of(<<Cases>>)
\* Accepted; a file that is in the way of the next; a duplicate; a file that is
\* in the way of generation.json; a reserved name; a link to a reserved file; a
\* name that escapes; no suite.
MCSuite   == {MCOffline, Of(<<"tests", Cases>>), Of(<<"tests", "./tests">>), Of(<<Below>>),
              Of(<<Gj>>), Of(<<Cases, "link">>), Of(<<"../x">>), NoSuite}

MCText    == {"0x10", "0x20", "0x30", "0x40"}
MCAddress == [t \in MCText |-> CASE t = "0x10" -> 16 [] t = "0x20" -> 32
                                 [] t = "0x30" -> 48 [] t = "0x40" -> 64]
\* dispatch() has one call site; a case that makes no indirect call.
MCEdges   == [c \in {"increment", "decrement", "double", "none"} |->
               CASE c = "increment" -> {<<"0x10", "0x20">>}
                 [] c = "decrement" -> {<<"0x10", "0x30">>}
                 [] c = "double"    -> {<<"0x10", "0x40">>}
                 [] c = "none"      -> {}]
MCNative    == {<<"increment">>, <<"none">>}
MCGenerated == {<<"increment", "decrement", "double">>, <<"decrement", "none">>}
=============================================================================
