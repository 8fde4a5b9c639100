-------------------------- MODULE MCProgramSession --------------------------
(***************************************************************************)
(* Instances of ProgramSession: the GUI thread and one of the integrations. *)
(***************************************************************************)
EXTENDS ProgramSession, TLC

CONSTANTS gui, remote

ScriptSession == gui :> {"stop", "reset"} @@ remote :> {"stop", "reset"}
=============================================================================
