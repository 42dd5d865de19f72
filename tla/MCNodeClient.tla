---------------------------- MODULE MCNodeClient ----------------------------
(***************************************************************************)
(* A backend that hands out up to three sessions.                          *)
(***************************************************************************)
EXTENDS NodeClient, TLC

CONSTANTS s1, s2, s3

MCSessions == {s1, s2, s3}
=============================================================================
