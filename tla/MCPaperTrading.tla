--------------------------- MODULE MCPaperTrading ---------------------------
(***************************************************************************)
(* PaperTrading for the runs without liveness: instruments are             *)
(* interchangeable.                                                        *)
(***************************************************************************)
EXTENDS PaperTrading, TLC

Symmetry == Permutations(Instruments)
=============================================================================
