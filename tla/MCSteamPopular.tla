--------------------------- MODULE MCSteamPopular ---------------------------
(* Two commands, a cache that lives three ticks, a cooldown of two.        *)
EXTENDS SteamPopular

CONSTANTS c1, c2

Commands == {c1, c2}
=============================================================================
