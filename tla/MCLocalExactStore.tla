------------------------- MODULE MCLocalExactStore -------------------------
(* Small instances of the local exact store. *)
EXTENDS LocalExactStore, TLC

CONSTANTS p1, p2,          \* callers
          d1, d2, d3, d4,  \* texts
          a1, a2, a3, a4   \* aliases

Callers == Permutations({p1, p2})

TrioSource == a1 :> d1 @@ a2 :> d2 @@ a3 :> d3
QuadSource == a1 :> d1 @@ a2 :> d2 @@ a3 :> d3 @@ a4 :> d4
PairSource == a1 :> d1 @@ a2 :> d2
TrioSizes == d1 :> 1 @@ d2 :> 1 @@ d3 :> 2
QuadSizes == d1 :> 1 @@ d2 :> 1 @@ d3 :> 1 @@ d4 :> 1
PairSizes == d1 :> 1 @@ d2 :> 2
=============================================================================
