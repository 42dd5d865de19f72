--------------------------- MODULE MCPreparation ----------------------------
(***************************************************************************)
(* A small instance of Preparation.                                        *)
(***************************************************************************)
EXTENDS Preparation

CONSTANTS song, other, alice

TwoSongs == {song, other}
OneUser == {alice}
=============================================================================
