------------------------------ MODULE MCProcfs ------------------------------
(***************************************************************************)
(* A small instance of Procfs for TLC.                                     *)
(***************************************************************************)
EXTENDS Procfs, TLC

CONSTANTS p1, p2, b1, b2

\* Processes are interchangeable, and so are the bytes that are written; no
\* property names one of them.
Symmetry == Permutations({p1, p2}) \cup Permutations({b1, b2})
=============================================================================
