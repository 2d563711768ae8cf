------------------------------ MODULE MCPcdOps ------------------------------
(***************************************************************************)
(* Small instances of PcdRefinement for TLC: one read-write device of two  *)
(* cells, and a read-only beside a write-only device as in pcdrv_data.     *)
(***************************************************************************)
EXTENDS PcdRefinement, TLC

CONSTANTS p1, p2, f1, f2, d1, d2

OneSize == d1 :> 2
OnePerm == d1 :> "RDWR"

PairSize == d1 :> 1 @@ d2 :> 1
PairPerm == d1 :> "RDONLY" @@ d2 :> "WRONLY"

\* Processes and files are interchangeable; no property names one of them.
Symmetry == Permutations({p1, p2}) \cup Permutations({f1, f2})
=============================================================================
