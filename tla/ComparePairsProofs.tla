------------------------- MODULE ComparePairsProofs -------------------------
(* Theorems about ComparePairs, for finite sets of pairs of any size. *)
EXTENDS ComparePairs, FiniteSetTheorems, TLAPS

\* What is only in S adds to T: the two counts of compare_pair_sets that are
\* made with set differences are related to the union by this fact.
LEMMA UnionCount ==
  ASSUME NEW S, NEW T, IsFiniteSet(S), IsFiniteSet(T)
  PROVE  Cardinality(S \cup T) = Cardinality(T) + Cardinality(S \ T)
<1>1. IsFiniteSet(S \ T) /\ IsFiniteSet(S \cap T)
  BY FS_Difference, FS_Intersection
<1>2. Cardinality(S \cup T)
        = Cardinality(S) + Cardinality(T) - Cardinality(S \cap T)
  BY FS_Union
<1>3. Cardinality(S \ T) = Cardinality(S) - Cardinality(S \cap T)
  BY FS_Difference
<1>4. /\ Cardinality(S) \in Nat /\ Cardinality(T) \in Nat
      /\ Cardinality(S \cap T) \in Nat
  BY <1>1, FS_CardinalityType
<1> QED
  BY <1>2, <1>3, <1>4

\* compare_pair_sets: whatever two runs have recorded, the counts of the summary
\* fit together, so that new_pair_count is exactly what the candidate adds to
\* the union.
THEOREM SummaryAddsUp ==
  ASSUME NEW baseline, NEW candidate,
         IsFiniteSet(baseline), IsFiniteSet(candidate)
  PROVE  Consistent(Summary(baseline, candidate))
<1>1. Cardinality(candidate \cup baseline)
        = Cardinality(baseline) + Cardinality(candidate \ baseline)
  BY UnionCount
<1>2. Cardinality(baseline \cup candidate)
        = Cardinality(candidate) + Cardinality(baseline \ candidate)
  BY UnionCount
<1>3. baseline \cup candidate = candidate \cup baseline
  OBVIOUS
<1> QED
  BY <1>1, <1>2, <1>3 DEF Consistent, Summary

\* --require-new: a comparison that succeeds has really seen that many pairs
\* more than the baseline alone.
THEOREM RequiredMeansGrowth ==
  ASSUME NEW baseline, NEW candidate,
         IsFiniteSet(baseline), IsFiniteSet(candidate),
         NEW n \in Nat, Summary(baseline, candidate).new_pair_count >= n
  PROVE  Cardinality(baseline \cup candidate) >= Cardinality(baseline) + n
<1>1. Cardinality(candidate \cup baseline)
        = Cardinality(baseline) + Cardinality(candidate \ baseline)
  BY UnionCount
<1>2. baseline \cup candidate = candidate \cup baseline
  OBVIOUS
<1>3. IsFiniteSet(candidate \ baseline)
  BY FS_Difference
<1>4. Cardinality(baseline) \in Nat /\ Cardinality(candidate \ baseline) \in Nat
  BY <1>3, FS_CardinalityType
<1>5. Cardinality(candidate \ baseline) >= n
  BY DEF Summary
<1> QED
  BY <1>1, <1>2, <1>4, <1>5
=============================================================================
