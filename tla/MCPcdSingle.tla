----------------------------- MODULE MCPcdSingle -----------------------------
(***************************************************************************)
(* A small instance of PcdSingle for TLC.                                  *)
(***************************************************************************)
EXTENDS PcdSingle, TLC

CONSTANTS p1, p2, f1, f2, d1

OneSize == d1 :> 1
OnePerm == d1 :> "RDWR"
=============================================================================
