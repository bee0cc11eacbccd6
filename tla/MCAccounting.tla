---------------------------- MODULE MCAccounting ----------------------------
(* Processes of which the first two are of one program. *)
EXTENDS Accounting, TLC

CONSTANTS p1, p2, p3, p4, n1, n2, n3

MCNameOf == [p \in Proc |-> IF p = p3 THEN n2 ELSE IF p = p4 THEN n3 ELSE n1]

\* Processes of one program are interchangeable.
Symmetry == Permutations({p1, p2})
=============================================================================
