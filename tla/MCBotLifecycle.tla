--------------------------- MODULE MCBotLifecycle ---------------------------
(* Two guilds, of which one or none may still have commands of its own,    *)
(* and at most two on_ready handlers at a time.                            *)
EXTENDS BotLifecycle, TLC

CONSTANTS g1, g2, r1, r2

Guilds == {g1, g2}
JustOne == {g1}
Handlers == {r1, r2}
Interchangeable == Permutations(Guilds) \cup Permutations(Handlers)
=============================================================================
