---------------------------- MODULE MCArchLists ----------------------------
(* An instance of ArchLists for TLC. *)
EXTENDS ArchLists

CONSTANTS s1, s2

\* Two packages of one base, and one of its own.
MCBaseOf     == <<1, 1, 2>>
MCServers    == {[r \in Repo |-> IF r = "core" THEN {1, 2, 3} ELSE {2}]}
MCSelection  == [s \in Session |-> IF s = s1 THEN <<"core">> ELSE <<"core", "extra">>]
=============================================================================
