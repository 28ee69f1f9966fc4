-------------------------- MODULE MCBotSupervisor --------------------------
(* Threads of the admin server, the main thread, and a few processes.      *)
EXTENDS BotSupervisor

CONSTANTS h1, h2

Handlers == {h1, h2}
=============================================================================
