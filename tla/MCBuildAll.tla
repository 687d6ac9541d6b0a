----------------------------- MODULE MCBuildAll -----------------------------
(* Instances of BuildAll for TLC. *)
EXTENDS BuildAll

CONSTANTS u1, u2

Two   == <<u1, u2>>

\* The package of u1 builds two files a and one a_1, that of u2 one file a.
a == 0
Names == [u \in Url |-> IF u = u1 THEN <<<<a>>, <<a>>, <<a, 1>>>> ELSE <<<<a>>>>]
=============================================================================
