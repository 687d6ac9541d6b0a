-------------------------- MODULE MCCollectDynamic --------------------------
(* Instances of CollectDynamic for TLC. *)
EXTENDS CollectDynamic, TLC

CONSTANTS u1, u2, p1, p2

\* Two packages, the first of them listed twice.
TwiceList == <<u1, u2, u1>>
PairList  == <<u1, u2>>
OneEach   == u1 :> p1 @@ u2 :> p2
=============================================================================
