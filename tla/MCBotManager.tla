---------------------------- MODULE MCBotManager ----------------------------
(* BotManager.tla for TLC: the configurations give the bounds. *)
EXTENDS BotManager
=============================================================================
