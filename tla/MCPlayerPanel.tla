--------------------------- MODULE MCPlayerPanel ----------------------------
(***************************************************************************)
(* Small instances of PlayerPanel; all constants are numbers.              *)
(***************************************************************************)
EXTENDS PlayerPanel, TLC
=============================================================================
