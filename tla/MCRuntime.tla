----------------------------- MODULE MCRuntime ------------------------------
(***************************************************************************)
(* A small instance of Runtime: two servers of which one may have an       *)
(* actor, two interactions and a mailbox for one message.                  *)
(***************************************************************************)
EXTENDS Runtime

CONSTANTS bar, den, play, skip

TwoGuilds == {bar, den}
Commands == {play, skip}
=============================================================================
