------------------------- MODULE MCReductionRecords -------------------------
(* Small instances of what reductions leave behind. *)
EXTENDS ReductionRecords, TLC

CONSTANTS w1, w2, w3, gw, cli, s1, c1, t1

Homes == w1 :> gw @@ w2 :> gw @@ w3 :> cli
Alike == Permutations({w1, w2})
=============================================================================
