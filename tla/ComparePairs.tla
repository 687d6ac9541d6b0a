---------------------------- MODULE ComparePairs ----------------------------
(***************************************************************************)
(* compare_icall_pairs.py: the indirect-call pairs of two directories of   *)
(* MyPinTool documents, compared.  A directory is a function from the      *)
(* names of its *_icall.json files to their documents; a document has a    *)
(* kind (torn: no JSON), and if it is an object its entries               *)
(* <<source, target>> of texts.                                            *)
(***************************************************************************)
EXTENDS Integers, FiniteSets

CONSTANTS
  Text,      \* the texts a document may have for an address
  Address,   \* Address[t]: what int(t, 0) makes of it
  Invalid    \* what it makes of a text that is no number

ASSUME AddressAssumption ==
  /\ Address \in [Text -> Nat \cup {Invalid}]
  /\ Invalid \notin Nat

Document == [kind : {"object", "null", "torn"}, entries : SUBSET (Text \X Text)]

\* discover_icall_files finds a file, and load_pairs raises nothing: every
\* document is an object, and every text in it an address.
Loadable(dir) ==
  /\ DOMAIN dir # {}
  /\ \A id \in DOMAIN dir :
       /\ dir[id].kind = "object"
       /\ \A e \in dir[id].entries : Address[e[1]] # Invalid /\ Address[e[2]] # Invalid

\* load_pairs
LoadPairs(dir) ==
  UNION {{<<id, Address[e[1]], Address[e[2]]>> : e \in dir[id].entries} : id \in DOMAIN dir}

\* compare_pair_sets
Summary(baseline, candidate) ==
  [baseline_pair_count         |-> Cardinality(baseline),
   candidate_pair_count        |-> Cardinality(candidate),
   new_pair_count              |-> Cardinality(candidate \ baseline),
   union_pair_count            |-> Cardinality(baseline \cup candidate),
   baseline_pairs_not_replayed |-> Cardinality(baseline \ candidate)]

\* The counts of a summary fit together: every pair of the union was there
\* before or is new, and every pair of the candidate is new or replayed.
Consistent(s) ==
  /\ s.union_pair_count = s.baseline_pair_count + s.new_pair_count
  /\ s.union_pair_count = s.candidate_pair_count + s.baseline_pairs_not_replayed
=============================================================================
