--------------------------- MODULE MCGuildSession ---------------------------
(***************************************************************************)
(* Small instances of GuildSession.                                        *)
(***************************************************************************)
EXTENDS GuildSession, TLC

CONSTANTS song, alice, bob, lobby, stage

MCSongs == {song}
OneUser == {alice}
OneChannel == {lobby}
TwoChannels == {lobby, stage}

AllCommands == {"pause", "resume", "loop", "remove", "move", "clear", "shuffle",
                "skip", "previous", "jump", "stop", "leave"}
PlayerCommands == {"pause", "resume", "skip", "previous", "stop", "leave"}
=============================================================================
