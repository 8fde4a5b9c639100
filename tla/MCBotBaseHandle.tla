-------------------------- MODULE MCBotBaseHandle --------------------------
(***************************************************************************)
(* Instances of BotBaseHandle: the GUI thread and one of the integrations. *)
(***************************************************************************)
EXTENDS BotBaseHandle, TLC

CONSTANTS gui, remote

ScriptAll == gui :> {"stop", "reset"} @@ remote :> {"try_reset", "try_send_request", "stop"}
=============================================================================
