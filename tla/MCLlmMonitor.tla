---------------------------- MODULE MCLlmMonitor ----------------------------
(* Small instances of the companion llm-monitor. *)
EXTENDS LlmMonitor, TLC

CONSTANTS w1, w2, gw, cli, r1, r2, r3, t1, t2, o1, o2

Alike == Permutations({w1, w2}) \cup Permutations({gw, cli})
           \cup Permutations({r1, r2})
TwoTurns == r1 :> t1 @@ r2 :> t1 @@ r3 :> t2
OneTurn == r1 :> t1 @@ r2 :> t1
TwoOld == o1 :> -2 @@ o2 :> -1
NoOld == << >>
Quiet == {Absent}
Cards == {[DefaultState EXCEPT !.visible = TRUE, !.perCall = TRUE]}
Summary == {[DefaultState EXCEPT !.visible = TRUE]}
Shown == Cards \cup Summary
=============================================================================
