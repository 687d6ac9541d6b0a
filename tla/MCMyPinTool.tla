---------------------------- MODULE MCMyPinTool ----------------------------
(***************************************************************************)
(* Instances of MyPinTool for TLC.  The .text section is {1, 2}; 0 lies    *)
(* just below it and 3 is the first address after it.                      *)
(***************************************************************************)
EXTENDS MyPinTool, TLC

\* One transfer for each output file: enough to tell lost, merged and own
\* edges apart when several runs share the files.
FewTransfers ==
  {[ip |-> 1, tgt |-> 2, op |-> "icall"],
   [ip |-> 2, tgt |-> 1, op |-> "ret"]}

\* With them a call to the first address after .text, and a direct branch:
\* what must not be recorded.
BoundaryTransfers ==
  FewTransfers \cup
  {[ip |-> 1, tgt |-> 3, op |-> "icall"],
   [ip |-> 1, tgt |-> 1, op |-> "direct"]}

Symmetry == Permutations(Proc)
=============================================================================
