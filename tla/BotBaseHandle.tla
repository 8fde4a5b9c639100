--------------------------- MODULE BotBaseHandle ---------------------------
(***************************************************************************)
(* The handle that owns a connection: class BotBaseHandle                  *)
(* (CommonFramework/Tools/BotBaseHandle.h, .cpp).  The GUI stops and       *)
(* resets it, other threads send single requests or ask for a reset, and   *)
(* for every connection a status thread connects, verifies, and then polls *)
(* the device, helped by a watchdog thread.                                *)
(*                                                                         *)
(* The connection itself (PABotBase) appears as up or stopped.  A call of  *)
(* a stopped one throws InvalidConnectionStateException; any other failure *)
(* is an error of the device.  m_label and the signals are left out.       *)
(***************************************************************************)
EXTENDS Naturals

CONSTANTS
    Callers,        \* threads that use the handle
    Script,         \* which of the operations each of them calls
    DeviceErrors,   \* whether the device may fail
    MaxConnections, \* bound: connections opened
    NoCaller

Operations == {"stop", "reset", "try_reset", "try_send_request"}

ASSUME BotBaseHandleAssumption ==
    /\ Script \in [Callers -> SUBSET Operations]
    /\ DeviceErrors \in BOOLEAN
    /\ MaxConnections \in Nat
    /\ NoCaller \notin Callers

VARIABLES
    m_state,
    m_lock,         \* the caller that holds it
    connection,     \* m_botbase: "none", "up", "stopped"
    status,         \* where thread_body() is, "none" when there is no thread
    watchdog,       \* likewise
    pc, op,         \* per caller
    opened          \* how much of the bound has been used

callerVars == <<m_lock, pc, op>>
threadVars == <<status, watchdog>>
vars       == <<m_state, connection, opened, callerVars, threadVars>>

Goto(c, label) == pc' = [pc EXCEPT ![c] = label]
Return(c)      == Goto(c, "idle") /\ op' = [op EXCEPT ![c] = "none"]
Unlock(c)      == Return(c) /\ m_lock' = NoCaller

\* m_cv: both threads sleep on it.
Awake(label, there) == IF label = "sleep" THEN there ELSE label

-----------------------------------------------------------------------------
(* Callers.                                                                *)

\* stop() and reset() wait for the lock.
Call(c) ==
    /\ pc[c] = "idle"
    /\ \E o \in Script[c] \cap {"stop", "reset"} : op' = [op EXCEPT ![c] = o]
    /\ Goto(c, "lock")
    /\ UNCHANGED <<m_state, connection, opened, m_lock, threadVars>>

Lock(c) ==
    /\ pc[c] = "lock" /\ m_lock = NoCaller
    /\ m_lock' = c
    /\ Goto(c, "load")
    /\ UNCHANGED <<m_state, connection, opened, op, threadVars>>

\* The try functions give up when the lock is taken, when the state is not
\* READY or when the user may not send; then nothing happens.
TryReset(c) ==
    /\ pc[c] = "idle" /\ "try_reset" \in Script[c]
    /\ m_lock = NoCaller /\ m_state = "READY"
    /\ m_lock' = c
    /\ op' = [op EXCEPT ![c] = "try_reset"]
    /\ Goto(c, "load")
    /\ UNCHANGED <<m_state, connection, opened, threadVars>>

\* try_send_request(), try_stop_commands() and try_next_interrupt().
TrySend(c) ==
    /\ pc[c] = "idle" /\ "try_send_request" \in Script[c]
    /\ m_lock = NoCaller /\ m_state = "READY"
    /\ m_lock' = c
    /\ op' = [op EXCEPT ![c] = "try_send_request"]
    /\ Goto(c, "issue")
    /\ UNCHANGED <<m_state, connection, opened, threadVars>>

\* The request is issued or dropped, or the call throws.
Issue(c) ==
    /\ pc[c] = "issue"
    /\ Unlock(c)
    /\ UNCHANGED <<m_state, connection, opened, threadVars>>

-----------------------------------------------------------------------------
(* stop_unprotected(), with the lock.  When it finds SHUTDOWN it waits for  *)
(* the thread that stops the handle to be done, at "spin".  No action      *)
(* leaves that place: see NobodySpins.                                     *)

Stopped(c) == IF op[c] = "stop" THEN Unlock(c) ELSE Goto(c, "open") /\ UNCHANGED <<op, m_lock>>

Load(c) ==
    /\ pc[c] = "load"
    /\ CASE m_state = "NOT_CONNECTED" -> Stopped(c)
         [] m_state = "SHUTDOWN" -> Goto(c, "spin") /\ UNCHANGED <<op, m_lock>>
         [] OTHER -> Goto(c, "shutdown") /\ UNCHANGED <<op, m_lock>>
    /\ UNCHANGED <<m_state, connection, opened, threadVars>>

Shutdown(c) ==
    /\ pc[c] = "shutdown"
    /\ m_state' = "SHUTDOWN"
    /\ Goto(c, "halt")
    /\ UNCHANGED <<connection, opened, m_lock, op, threadVars>>

\* m_botbase->stop(): it gets the status thread out of every wait in there.
Halt(c) ==
    /\ pc[c] = "halt"
    /\ connection' = "stopped"
    /\ Goto(c, "notify")
    /\ UNCHANGED <<m_state, opened, m_lock, op, threadVars>>

Notify(c) ==
    /\ pc[c] = "notify"
    /\ status' = Awake(status, "poll") /\ watchdog' = Awake(watchdog, "check")
    /\ Goto(c, "join")
    /\ UNCHANGED <<m_state, connection, opened, m_lock, op>>

\* Mutant: the thread is left to itself.
JoinNot(c) ==
    /\ pc[c] = "join"
    /\ m_state' = "NOT_CONNECTED"
    /\ Stopped(c)
    /\ UNCHANGED <<connection, opened, threadVars>>

Join(c) ==
    /\ pc[c] = "join" /\ status = "exited"
    /\ status' = "none"
    /\ m_state' = "NOT_CONNECTED"
    /\ Stopped(c)
    /\ UNCHANGED <<connection, opened, watchdog>>

-----------------------------------------------------------------------------
(* reset_unprotected(), after the stop.                                    *)

\* There is no port, or it cannot be opened; m_botbase stays as it is.
OpenFails(c) ==
    /\ pc[c] = "open"
    /\ Unlock(c)
    /\ UNCHANGED <<m_state, connection, opened, threadVars>>

\* The new connection replaces the old one, and its status thread starts.
Open(c) ==
    /\ pc[c] = "open" /\ opened < MaxConnections
    /\ opened' = opened + 1
    /\ connection' = "up"
    /\ m_state' = "CONNECTING"
    /\ status' = "connect"
    /\ Unlock(c)
    /\ UNCHANGED watchdog

-----------------------------------------------------------------------------
(* thread_body().                                                          *)

At(label)        == status = label
StatusGoto(next) == status' = next /\ UNCHANGED <<opened, callerVars>>

\* connect(): an error stops the connection, and the state stays.
Connect ==
    /\ At("connect")
    /\ IF connection = "stopped"
       THEN StatusGoto("exited") /\ UNCHANGED connection
       ELSE \/ StatusGoto("verify") /\ UNCHANGED connection
            \/ DeviceErrors /\ StatusGoto("exited") /\ connection' = "stopped"
    /\ UNCHANGED <<m_state, watchdog>>

\* verify_protocol(), verify_pabotbase() and the version of the program.
Verify ==
    /\ At("verify")
    /\ IF connection = "stopped"
       THEN StatusGoto("exited")
       ELSE \/ StatusGoto("ready")
            \/ DeviceErrors /\ StatusGoto("unverified")
    /\ UNCHANGED <<m_state, connection, watchdog>>

Ready ==
    /\ At("ready")
    /\ m_state' = "READY"
    /\ StatusGoto("clear")
    /\ UNCHANGED <<connection, watchdog>>

\* Mutant: the handle is READY before the device has been verified.
UnverifiedReady ==
    /\ At("unverified")
    /\ m_state' = "READY"
    /\ StatusGoto("fail")
    /\ UNCHANGED <<connection, watchdog>>

Unverified ==
    /\ At("unverified")
    /\ m_state' = "STOPPED"
    /\ StatusGoto("fail")
    /\ UNCHANGED <<connection, watchdog>>

Fail ==
    /\ At("fail")
    /\ connection' = "stopped"
    /\ StatusGoto("exited")
    /\ UNCHANGED <<m_state, watchdog>>

\* stop_all_commands() outside of any try block, then the watchdog starts.
Clear ==
    /\ At("clear")
    /\ \/ /\ connection = "stopped" \/ DeviceErrors
          /\ StatusGoto("uncaught") /\ UNCHANGED watchdog
       \/ /\ connection = "up"
          /\ StatusGoto("poll") /\ watchdog' = "check"
    /\ UNCHANGED <<m_state, connection>>

Poll ==
    /\ At("poll")
    /\ StatusGoto(IF m_state = "READY" THEN "ask" ELSE "finish")
    /\ UNCHANGED <<m_state, connection, watchdog>>

\* system_clock().
Ask ==
    /\ At("ask")
    /\ IF connection = "stopped"
       THEN StatusGoto("finish")
       ELSE \/ StatusGoto("nap")
            \/ DeviceErrors /\ StatusGoto("error")
    /\ UNCHANGED <<m_state, connection, watchdog>>

\* Needs the lock of the callers.
Error ==
    /\ At("error") /\ m_lock = NoCaller
    /\ m_state' = IF m_state = "READY" THEN "ERRORED" ELSE m_state
    /\ StatusGoto("finish")
    /\ UNCHANGED <<connection, watchdog>>

\* Under m_sleep_lock, then wait_for().
Nap ==
    /\ At("nap")
    /\ StatusGoto(IF m_state = "READY" THEN "sleep" ELSE "finish")
    /\ UNCHANGED <<m_state, connection, watchdog>>

WakeUp ==
    /\ At("sleep")
    /\ StatusGoto("poll")
    /\ UNCHANGED <<m_state, connection, watchdog>>

Finish ==
    /\ At("finish")
    /\ watchdog' = Awake(watchdog, "check")
    /\ StatusGoto("join")
    /\ UNCHANGED <<m_state, connection>>

JoinWatchdog ==
    /\ At("join") /\ watchdog = "exited"
    /\ watchdog' = "none"
    /\ StatusGoto("exited")
    /\ UNCHANGED <<m_state, connection>>

\* Mutant: the loop does not end.
WatchdogForever ==
    /\ watchdog = "check"
    /\ watchdog' = "sleep"
    /\ UNCHANGED <<m_state, connection, opened, callerVars, status>>

\* The watchdog looks at the state and sleeps.
WatchdogCheck ==
    /\ watchdog = "check"
    /\ watchdog' = IF m_state = "READY" THEN "sleep" ELSE "exited"
    /\ UNCHANGED <<m_state, connection, opened, callerVars, status>>

WatchdogWakeUp ==
    /\ watchdog = "sleep"
    /\ watchdog' = "check"
    /\ UNCHANGED <<m_state, connection, opened, callerVars, status>>

-----------------------------------------------------------------------------
\* The constructor, before it calls reset().
Init ==
    /\ m_state = "NOT_CONNECTED" /\ m_lock = NoCaller
    /\ connection = "none" /\ status = "none" /\ watchdog = "none"
    /\ pc = [c \in Callers |-> "idle"] /\ op = [c \in Callers |-> "none"]
    /\ opened = 0

CallerStep(c) ==
    \/ Lock(c) \/ Issue(c) \/ Load(c) \/ Shutdown(c) \/ Halt(c) \/ Notify(c) \/ Join(c)
    \/ OpenFails(c) \/ Open(c)

StatusStep ==
    \/ Connect \/ Verify \/ Ready \/ Unverified \/ Fail \/ Clear \/ Poll \/ Ask \/ Error
    \/ Nap \/ WakeUp \/ Finish \/ JoinWatchdog

WatchdogStep == WatchdogCheck \/ WatchdogWakeUp

\* An uncaught exception ends the program.
Running == status # "uncaught"

Next ==
    /\ Running
    /\ \/ \E c \in Callers : Call(c) \/ TryReset(c) \/ TrySend(c) \/ CallerStep(c)
       \/ StatusStep
       \/ WatchdogStep

Spec == Init /\ [][Next]_vars

\* Every thread keeps running; sleeps end after SERIAL_REFRESH_RATE, and a
\* device that neither answers nor fails is given up by m_botbase->stop().
FairSpec ==
    /\ Spec
    /\ \A c \in Callers : WF_vars(Running /\ CallerStep(c))
    /\ WF_vars(Running /\ StatusStep) /\ WF_vars(Running /\ WatchdogStep)

-----------------------------------------------------------------------------
TypeOK ==
    /\ m_state \in {"NOT_CONNECTED", "CONNECTING", "READY", "ERRORED", "STOPPED", "SHUTDOWN"}
    /\ m_lock \in Callers \cup {NoCaller}
    /\ connection \in {"none", "up", "stopped"}
    /\ status \in {"none", "connect", "verify", "ready", "unverified", "fail", "clear", "uncaught",
                   "poll", "ask", "error", "nap", "sleep", "finish", "join", "exited"}
    /\ watchdog \in {"none", "check", "sleep", "exited"}
    /\ pc \in [Callers -> {"idle", "lock", "load", "spin", "shutdown", "halt", "notify", "join", "open", "issue"}]
    /\ op \in [Callers -> Operations \cup {"none"}]
    /\ opened \in 0 .. MaxConnections

\* A caller that gets the lock and finds the handle READY has a connection
\* that nobody has stopped.
ReadyIsUp == m_lock = NoCaller /\ m_state = "READY" => connection = "up"

\* The old connection is destroyed and a new status thread started only
\* when no thread of the old connection is left to use it.
ThreadsAreGone == \A c \in Callers : pc[c] = "open" => status = "none" /\ watchdog = "none"

\* SHUTDOWN never outlives the lock, so the busy wait in stop_unprotected(),
\* which would hold the lock for ever, is never entered.
NobodySpins == \A c \in Callers : pc[c] # "spin"

\* Stopping a connection that is being polled ends, unless the device fails
\* at that moment (see TryResetReturns).
StopEnds ==
    \A c \in Callers :
        pc[c] = "shutdown" /\ watchdog # "none" ~> pc[c] \in {"idle", "open"} \/ status = "error"

\* BotBaseHandle.h:67-68: try_reset() can be called from any thread, and
\* returns; an end of the program (see Clear) is not held against it.
TryResetReturns ==
    \A c \in Callers : op[c] = "try_reset" ~> op[c] # "try_reset" \/ ~Running

\* BotBaseHandle.h:45: in SHUTDOWN the connection is being destroyed, and
\* nothing but its end follows.
ShutdownIsFinal == [][m_state = "SHUTDOWN" => m_state' \in {"SHUTDOWN", "NOT_CONNECTED"}]_vars

=============================================================================
