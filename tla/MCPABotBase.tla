---------------------------- MODULE MCPABotBase ----------------------------
(***************************************************************************)
(* Instances of PABotBase: two threads and what each of them may call.     *)
(***************************************************************************)
EXTENDS PABotBaseLine, TLC

CONSTANTS main, other

Threads(a, b) == main :> a @@ other :> b

\* Commands, against stops and interrupts by another thread.
ScriptCommands == Threads(
    {"connect", "issue_command", "try_issue_command"},
    {"stop_all_commands", "try_stop_all_commands", "next_command_interrupt", "try_next_command_interrupt"})

\* Every way to wait, against every way to get a waiter out.
ScriptWaits == Threads(
    {"connect", "issue_command", "issue_request_and_wait", "wait_for_all_requests"},
    {"cancel", "stop"})

\* Waiting on a line that loses messages, with nobody to interrupt.
ScriptReplies == Threads(
    {"connect", "issue_command", "issue_request_and_wait", "wait_for_all_requests"},
    {"issue_command"})

\* Two threads that only issue commands.
ScriptIssue == Threads({"connect", "issue_command"}, {"issue_command"})

\* A command, and a thread that stops all commands.
ScriptStopAll == Threads({"connect", "issue_command"}, {"stop_all_commands"})
=============================================================================
