---------------------------- MODULE MCPlayQueue -----------------------------
(***************************************************************************)
(* Small instance of PlayQueue: two finite songs and a stream, one user,   *)
(* and a failure limit of three as in the code.                            *)
(***************************************************************************)
EXTENDS PlayQueue, TLC

CONSTANTS song, other, live, alice

MCSongs == {song, other, live}
MCStreams == {live}
MCUsers == {alice}
=============================================================================
