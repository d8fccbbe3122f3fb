-------------------------- MODULE StateVectorProofs ---------------------------
(***************************************************************************)
(* What the operators of StateVector compute, for every set of streams.    *)
(***************************************************************************)
EXTENDS StateVector, TLAPS

\* Below is a partial order on vectors (the part of it that is used).
LEMMA BelowOrder ==
  ASSUME NEW u \in Vector, NEW v \in Vector, NEW w \in Vector
  PROVE  /\ Below(v, v)
         /\ Below(u, v) /\ Below(v, w) => Below(u, w)
BY DEF Below, Vector

\* Join is the least upper bound that computeMergeStateVector and
\* recordVector compute.
LEMMA JoinBounds ==
  ASSUME NEW v \in Vector, NEW w \in Vector
  PROVE  /\ Join(v, w) \in Vector
         /\ Below(v, Join(v, w)) /\ Below(w, Join(v, w))
         /\ \A u \in Vector : Below(v, u) /\ Below(w, u) => Below(Join(v, w), u)
         /\ \A s \in Stream : w[s] <= v[s] => Join(v, w)[s] = v[s]
BY DEF Below, Vector, Join

\* mergeStateVector bumps the generation exactly when the merge changes m_vv.
LEMMA GenerationTellsMerge ==
  ASSUME NEW v \in Vector, NEW w \in Vector, NEW g \in Nat
  PROVE  /\ MergedGeneration(g, v, w) \in Nat
         /\ g <= MergedGeneration(g, v, w)
         /\ MergedGeneration(g, v, w) = g => MergedVector(v, w) = v
<1>1. CASE OtherVectorNew(v, w)
  BY <1>1 DEF MergedGeneration
<1>2. CASE ~OtherVectorNew(v, w)
  <2>1. \A s \in Stream : Join(v, w)[s] = v[s]
    BY <1>2 DEF OtherVectorNew, Join, Vector
  <2>2. Join(v, w) = v
    BY <2>1 DEF Join, Vector
  <2> QED BY <1>2, <2>2 DEF MergedGeneration, MergedVector
<1> QED BY <1>1, <1>2

\* A default-constructed VersionVector is a vector.
LEMMA EmptyIsVector == EmptyVector \in Vector
BY DEF EmptyVector, Vector
================================================================================
