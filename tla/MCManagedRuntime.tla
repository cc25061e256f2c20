-------------------------- MODULE MCManagedRuntime --------------------------
(* Small instances of ManagedRuntime.                                      *)
EXTENDS ManagedRuntime

CONSTANTS m1, m2, r1, i1, i2, p1, q1

\* Two identities that differ in their package specs.
OneProfile == [id \in {i1, i2} |-> p1]
OnePort == [id \in {i1, i2} |-> q1]
=============================================================================
