-------------------------- MODULE MCGuildSettings --------------------------
(* One guild, which is in guild_config.json: guilds share nothing but the  *)
(* transaction of the migration.  Two forms may be open together, with     *)
(* the file's text and another, and there are two channels.                *)
EXTENDS GuildSettings

CONSTANTS g1, f1, f2, old, new, ch1, ch2

Guilds == {g1}
Forms == {f1, f2}
Texts == {old, new}
Channels == {ch1, ch2}
File == [g \in {g1} |-> [message |-> old, link |-> old, channel |-> ch1]]
=============================================================================
