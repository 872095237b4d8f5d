------------------------------- MODULE MCUpgrade -------------------------------
(* Instances of Upgrade for TLC: a file of three chunks, and one of one.     *)
EXTENDS Upgrade

CONSTANTS f1, f2

Chunks == [f \in {f1, f2} |-> IF f = f1 THEN 3 ELSE 1]

=============================================================================
