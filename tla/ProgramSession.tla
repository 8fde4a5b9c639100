--------------------------- MODULE ProgramSession ---------------------------
(***************************************************************************)
(* A program and its session: class ProgramSession                         *)
(* (CommonFramework/ProgramSession.h, .cpp) with its two kinds for the     *)
(* Switch, SingleSwitchProgramSession and MultiSwitchProgramSession        *)
(* (NintendoSwitch/Framework), on top of the connection of BotBaseHandle.  *)
(* The GUI and the integrations start and stop the program, which runs in  *)
(* a thread of its own and refers to the connection by a bare pointer.     *)
(*                                                                         *)
(* SerialPortSession passes stop() and reset() on to the handle; its       *)
(* reset() stops the handle first, which leaves nothing to stop for the    *)
(* stop inside of BotBaseHandle::reset().  There is one console.           *)
(* Statistics, options and notifications are left out.                     *)
(***************************************************************************)
EXTENDS BotBaseHandle

CONSTANTS
    Gui,            \* the caller that owns the session
    allow_commands_while_running,   \* of the system that the program runs on
    MaxStarts       \* bound: programs started

Program == "program"
Free    == "free"

ASSUME ProgramSessionAssumption ==
    /\ Gui \in Callers /\ MaxStarts \in Nat /\ allow_commands_while_running \in BOOLEAN
    /\ Program \notin Callers /\ Free \notin Callers
    /\ \A c \in Callers : {"stop", "reset"} \subseteq Script[c]

VARIABLES
    kind,           \* of the session: "single", "multi"
    program_state,  \* m_state of ProgramSession
    program,        \* where the thread of the program is, "none" when there is no thread
    refers_to,      \* the connection whose pointer the program has, by its number, or 0
    m_scope,        \* whether the scope of the program is published
    cancelled,      \* that scope
    session_lock,   \* m_lock of the Single or Multi session
    asleep,         \* who waits for m_cv
    at,             \* per caller: where it is in a function of the session
    closing,        \* the GUI is in the destructor
    allowed,        \* the GUI's view of the state is STOPPED, and the buttons of the port are enabled
    starts          \* how much of the bound has been used

programVars == <<program_state, program, refers_to, m_scope, cancelled>>
sessionVars == <<kind, session_lock, asleep, at, closing, allowed, starts>>
allVars     == <<vars, programVars, sessionVars>>

AtGoto(c, label) == at' = [at EXCEPT ![c] = label]
Outside(c)       == at[c] = "out" /\ pc[c] = "idle"

-----------------------------------------------------------------------------
(* start_program() and stop_program(), by the GUI or an integration.       *)

\* The integrations know of the session until remove_program(), in the
\* destructor of its base, hence also while the one of the Single or Multi
\* session runs.  That the members are gone in between is not modelled.
Reachable(c) == Outside(c) /\ at[Gui] # "gone"

\* join_program_thread() waits for a thread that has said STOPPED.
StartProgram(c) ==
    /\ Reachable(c) /\ starts < MaxStarts
    /\ program_state = "STOPPED" /\ program = "none"
    /\ program_state' = "RUNNING" /\ program' = "begin"
    /\ starts' = starts + 1
    /\ UNCHANGED <<vars, refers_to, m_scope, cancelled, kind, session_lock, asleep, at, closing, allowed>>

StopProgram(c) ==
    /\ Reachable(c)
    /\ program_state = "RUNNING"
    /\ program_state' = "STOPPING"
    /\ AtGoto(c, "lock")
    /\ UNCHANGED <<vars, program, refers_to, m_scope, cancelled, kind, session_lock, asleep, closing, allowed, starts>>

\* The destructor stops the program in any state, and joins its thread.
Close ==
    /\ Outside(Gui) /\ ~ closing
    /\ closing' = TRUE
    /\ AtGoto(Gui, "lock")
    /\ UNCHANGED <<vars, programVars, kind, session_lock, asleep, allowed, starts>>

\* MultiSwitchProgramSession::shutdown(), when the number of consoles changes.
Shut ==
    /\ Outside(Gui) /\ ~ closing /\ kind = "multi"
    /\ AtGoto(Gui, "lock")
    /\ UNCHANGED <<vars, programVars, kind, session_lock, asleep, closing, allowed, starts>>

\* update_ui(): the listeners hear of a change of the state through the event
\* loop.  Only a system that does not allow commands while a program runs
\* passes it on to the handle, but for all the buttons follow it.
UpdateUi ==
    /\ Outside(Gui)
    /\ allowed # (program_state = "STOPPED")
    /\ allowed' = (program_state = "STOPPED")
    /\ UNCHANGED <<vars, programVars, kind, session_lock, asleep, at, closing, starts>>

m_allow_user_commands == allow_commands_while_running \/ allowed

-----------------------------------------------------------------------------
(* internal_stop_program(), under m_lock.                                  *)

\* serial_session().stop().
StopHandle(c) ==
    /\ at[c] = "lock" /\ session_lock = Free
    /\ session_lock' = c
    /\ AtGoto(c, "stop")
    /\ Call(c) /\ op'[c] = "stop"
    /\ UNCHANGED <<programVars, kind, asleep, closing, allowed, starts>>

ResetHandle(c) == AtGoto(c, "reset") /\ Call(c) /\ op'[c] = "reset"

LookAtScope(c) ==
    /\ at[c] = "stop" /\ pc[c] = "idle"
    /\ IF m_scope
       THEN AtGoto(c, "cancel") /\ UNCHANGED vars
       ELSE ResetHandle(c)
    /\ UNCHANGED <<programVars, kind, session_lock, asleep, closing, allowed, starts>>

\* Mutant: the lock is kept while the program is waited for.
CancelScopeLocked(c) ==
    /\ at[c] = "cancel"
    /\ cancelled' = TRUE
    /\ IF kind = "multi" THEN AtGoto(c, "await") /\ UNCHANGED vars ELSE ResetHandle(c)
    /\ UNCHANGED <<program_state, program, refers_to, m_scope, kind, session_lock, asleep, closing, allowed, starts>>

\* The session of one console goes on to reset the connection; the one of
\* many waits until the program is out of it, and gives up the lock meanwhile.
CancelScope(c) ==
    /\ at[c] = "cancel"
    /\ cancelled' = TRUE
    /\ IF kind = "multi"
       THEN /\ AtGoto(c, "await")
            /\ session_lock' = Free /\ asleep' = asleep \cup {c}
            /\ UNCHANGED vars
       ELSE ResetHandle(c) /\ UNCHANGED <<session_lock, asleep>>
    /\ UNCHANGED <<program_state, program, refers_to, m_scope, kind, closing, allowed, starts>>

Await(c) ==
    /\ at[c] = "await" /\ c \notin asleep /\ session_lock = Free
    /\ IF m_scope
       THEN asleep' = asleep \cup {c} /\ UNCHANGED <<vars, at, session_lock>>
       ELSE ResetHandle(c) /\ session_lock' = c /\ UNCHANGED asleep
    /\ UNCHANGED <<programVars, kind, closing, allowed, starts>>

SpuriousWakeup(c) ==
    /\ c \in asleep
    /\ asleep' = asleep \ {c}
    /\ UNCHANGED <<vars, programVars, kind, session_lock, at, closing, allowed, starts>>

StopReturns(c) ==
    /\ at[c] = "reset" /\ pc[c] = "idle"
    /\ session_lock' = Free
    /\ AtGoto(c, IF closing /\ c = Gui THEN "join" ELSE "out")
    /\ UNCHANGED <<vars, programVars, kind, asleep, closing, allowed, starts>>

JoinProgramThread ==
    /\ at[Gui] = "join" /\ program = "none"
    /\ AtGoto(Gui, "gone")
    /\ UNCHANGED <<vars, programVars, kind, session_lock, asleep, closing, allowed, starts>>

-----------------------------------------------------------------------------
(* run_program(), in its thread.                                           *)

ProgramGoto(label) == program' = label /\ UNCHANGED <<vars, kind, asleep, at, closing, allowed, starts>>

\* Mutant: the lock is not kept until the scope is published.
CheckReadyUnlocked ==
    /\ program = "begin"
    /\ kind = "multi" => session_lock = Free
    /\ ProgramGoto(IF m_state = "READY" THEN "refer" ELSE "finish")
    /\ UNCHANGED <<session_lock, program_state, refers_to, m_scope, cancelled>>

\* The session of many consoles keeps its lock until the scope is published.
CheckReady ==
    /\ program = "begin"
    /\ kind = "multi" => session_lock = Free
    /\ ProgramGoto(IF m_state = "READY" THEN "refer" ELSE "finish")
    /\ session_lock' = IF kind = "multi" /\ m_state = "READY" THEN Program ELSE session_lock
    /\ UNCHANGED <<program_state, refers_to, m_scope, cancelled>>

\* *botbase().
Refer ==
    /\ program = "refer"
    /\ refers_to' = opened
    /\ ProgramGoto("publish")
    /\ UNCHANGED <<session_lock, program_state, m_scope, cancelled>>

\* start_program_video_check() throws: there is no video.
NoVideo ==
    /\ program = "publish"
    /\ refers_to' = 0
    /\ ProgramGoto("finish")
    /\ session_lock' = IF session_lock = Program THEN Free ELSE session_lock
    /\ UNCHANGED <<program_state, m_scope, cancelled>>

Publish ==
    /\ program = "publish"
    /\ session_lock = IF kind = "multi" THEN Program ELSE Free
    /\ m_scope' = TRUE /\ cancelled' = FALSE
    /\ ProgramGoto("run")
    /\ session_lock' = Free
    /\ UNCHANGED <<program_state, refers_to>>

\* program() returns, or throws something of its own.
RunEnds ==
    /\ program = "run"
    /\ ProgramGoto("withdraw")
    /\ UNCHANGED <<session_lock, program_state, refers_to, m_scope, cancelled>>

RunIsCancelled ==
    /\ program = "run" /\ cancelled
    /\ ProgramGoto("withdraw")
    /\ UNCHANGED <<session_lock, program_state, refers_to, m_scope, cancelled>>

\* Mutant: a program that throws leaves without the lock.
WithdrawUnlocked ==
    /\ program = "withdraw"
    /\ m_scope' = FALSE /\ refers_to' = 0
    /\ program' = "finish" /\ asleep' = {}
    /\ UNCHANGED <<vars, program_state, cancelled, kind, session_lock, at, closing, allowed, starts>>

\* Mutant: nobody is told that the scope is gone.
WithdrawQuietly ==
    /\ program = "withdraw" /\ session_lock = Free
    /\ m_scope' = FALSE /\ refers_to' = 0
    /\ ProgramGoto("finish")
    /\ UNCHANGED <<program_state, cancelled, session_lock>>

\* Both ways out of run_program_instance().
Withdraw ==
    /\ program = "withdraw" /\ session_lock = Free
    /\ m_scope' = FALSE /\ refers_to' = 0
    /\ program' = "finish" /\ asleep' = {}
    /\ UNCHANGED <<vars, program_state, cancelled, kind, session_lock, at, closing, allowed, starts>>

FinishProgram ==
    /\ program = "finish"
    /\ program_state' = "STOPPED"
    /\ ProgramGoto("none")
    /\ UNCHANGED <<session_lock, refers_to, m_scope, cancelled>>

-----------------------------------------------------------------------------
ProgramInit ==
    /\ Init
    /\ kind \in {"single", "multi"}
    /\ program_state = "STOPPED" /\ program = "none" /\ refers_to = 0
    /\ m_scope = FALSE /\ cancelled = FALSE
    /\ session_lock = Free /\ asleep = {} /\ at = [c \in Callers |-> "out"]
    /\ closing = FALSE /\ allowed = TRUE /\ starts = 0

InHandle(c) == CallerStep(c) /\ UNCHANGED <<programVars, sessionVars>>

\* Others than the session use the handle while the user may: the buttons of
\* the port, and the try functions of the integrations.
HandleStep ==
    /\ \/ StatusStep \/ WatchdogStep
       \/ \E c \in Callers : m_allow_user_commands /\ at[c] = "out" /\ (TryReset(c) \/ TrySend(c))
       \/ allowed /\ at[Gui] = "out" /\ Call(Gui) /\ op'[Gui] = "reset"
    /\ UNCHANGED <<programVars, sessionVars>>

SessionStep(c) ==
    StopHandle(c) \/ LookAtScope(c) \/ CancelScope(c) \/ Await(c) \/ StopReturns(c)

ProgramStep == CheckReady \/ Refer \/ Publish \/ RunIsCancelled \/ Withdraw \/ FinishProgram

ProgramNext ==
    /\ Running
    /\ \/ HandleStep
       \/ \E c \in Callers : StartProgram(c) \/ StopProgram(c) \/ InHandle(c) \/ SessionStep(c) \/ SpuriousWakeup(c)
       \/ Close \/ Shut \/ UpdateUi \/ JoinProgramThread
       \/ ProgramStep \/ NoVideo \/ RunEnds

ProgramSpec == ProgramInit /\ [][ProgramNext]_allVars

\* As for the handle, and the threads go on inside the functions of the
\* session: whoever waits for a lock gets it when it is free ever again.  The
\* event loop of the GUI runs.  A program that is cancelled ends
\* (CancellableScope), one that is not may run for ever.
ProgramFairSpec ==
    /\ ProgramSpec
    /\ \A c \in Callers : SF_allVars(Running /\ (InHandle(c) \/ SessionStep(c)))
    /\ WF_vars(Running /\ StatusStep) /\ WF_vars(Running /\ WatchdogStep)
    /\ SF_allVars(Running /\ ProgramStep)
    /\ WF_allVars(Running /\ (JoinProgramThread \/ UpdateUi))

-----------------------------------------------------------------------------
ProgramTypeOK ==
    /\ kind \in {"single", "multi"}
    /\ program_state \in {"STOPPED", "RUNNING", "STOPPING"}
    /\ program \in {"none", "begin", "refer", "publish", "run", "withdraw", "finish"}
    /\ refers_to \in 0 .. MaxConnections
    /\ m_scope \in BOOLEAN /\ cancelled \in BOOLEAN
    /\ session_lock \in Callers \cup {Program, Free} /\ asleep \subseteq Callers
    /\ at \in [Callers -> {"out", "lock", "stop", "cancel", "await", "reset", "join", "gone"}]
    /\ closing \in BOOLEAN /\ allowed \in BOOLEAN /\ starts \in 0 .. MaxStarts

\* The scope lives on the stack of the program's thread, and is cancelled
\* through a pointer by another: it must be there still.
CancelsLiveScope == \A c \in Callers : at[c] = "cancel" => program \in {"run", "withdraw"}

\* BotBaseHandle.h:53-54: a pointer to the connection is valid until the
\* next reset().  The session of many consoles makes sure that its program
\* has none when it resets; the one of a single console does not, nor does
\* try_reset(), which others may call.
ResetsUnusedConnection == kind = "multi" => \A c \in Callers : at[c] = "reset" => refers_to = 0

\* Where the handle is known to be stuck, or the whole program is over: see
\* TryResetReturns, and ShutdownIsFinal for a READY that nobody can stop.
HandleIsStuck == status = "error" \/ (status = "join" /\ m_state = "READY") \/ ~ Running

\* A program whose scope has been cancelled is STOPPED one day, whoever
\* else stops, closes or resets in the meantime.
CancelStopsProgram ==
    m_scope /\ cancelled ~> program_state = "STOPPED" \/ HandleIsStuck

\* A session that waits for its program does not sleep when the scope is
\* gone.  (It may wait for a second program, which has been started and
\* has published its scope before the session gets the lock.)
WaiterIsWoken == \A c \in asleep : at[c] = "await" /\ m_scope

\* ProgramSession.h:86: stop_program() "Returns before the program is
\* completely stopped", so the program is STOPPED one day.
StopIsHeard ==
    program_state = "STOPPING" /\ (\A c \in Callers : at[c] = "out") ~> program_state = "STOPPED" \/ ~ Running
=============================================================================
