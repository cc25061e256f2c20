-------------------------- MODULE MCToolReduction --------------------------
(* Small instances of the reduction of tool results. *)
EXTENDS ToolReduction, TLC

CONSTANTS w1, w2,             \* workers
          terminal, search    \* tools

Threads == Permutations({w1, w2})

OneTool == <<terminal, terminal>>
TwoTools == <<terminal, search>>
ThreeTools == <<terminal, search, terminal>>

\* Both results may be reduced; with the switch turned at any time; with a
\* first result that redaction would change.
AllPass == <<{"pass"}, {"pass"}>>
Switched == <<{"pass", "auto_off"}, {"pass"}>>
FirstRedacted == <<{"redaction"}, {"pass", "auto_off"}, {"pass"}>>

\* What the provider may answer: one marker; each kind of answer once; anything.
OneMarker == [markers : {1}, useful : {TRUE}]
EachAnswer ==
  {[markers |-> 1, useful |-> TRUE], [markers |-> 0, useful |-> TRUE],
   [markers |-> 2, useful |-> FALSE]}
AnyAnswer == [markers : 0..2, useful : BOOLEAN]
=============================================================================
