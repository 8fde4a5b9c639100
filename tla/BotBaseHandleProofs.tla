------------------------ MODULE BotBaseHandleProofs ------------------------
(***************************************************************************)
(* Proofs about BotBaseHandle: a READY handle is up, and the lock keeps    *)
(* two stops of the same connection apart.                                 *)
(***************************************************************************)
EXTENDS BotBaseHandle, TLAPS

\* The places a step goes to: every leaf below looks at them.
USE DEF Goto, Return, Unlock, StatusGoto, At, Awake, callerVars, threadVars

\* Where a caller has the lock, where it has stopped the connection, where
\* the status thread has no watchdog, and where it may set READY later on.
Inside    == {"load", "spin", "shutdown", "halt", "notify", "join", "open", "issue"}
Halted    == {"notify", "join"}
Polling   == {"poll", "ask", "error", "nap", "sleep", "finish", "join"}
Verifying == {"connect", "verify", "ready"}
Early     == Verifying \cup {"unverified", "fail"}

LockIsInside     == \A c \in Callers : pc[c] \in Inside <=> m_lock = c
StateHasThread   == m_state = "NOT_CONNECTED" <=> status = "none"
ThreadHasObject  == status # "none" => connection # "none"
WatchdogIsOwned  == watchdog # "none" => status \in Polling
ShutdownIsHeld   == m_state = "SHUTDOWN" => \E c \in Callers : pc[c] \in {"halt"} \cup Halted
OpenIsAfterStop  == \A c \in Callers : pc[c] = "open" => m_state = "NOT_CONNECTED"
EarlyIsNotReady  == status \in Early => m_state # "READY"
VerifyingIsUp    == status \in Verifying /\ connection = "stopped" => \E c \in Callers : pc[c] \in Halted
ReadyIsUpOrHalted ==
    m_state = "READY" /\ connection # "up" => \E c \in Callers : pc[c] \in Halted
StopHasThread    == \A c \in Callers : pc[c] = "shutdown" => status # "none"
NoSpin           == \A c \in Callers : pc[c] # "spin"

Inv ==
    /\ TypeOK /\ LockIsInside /\ StateHasThread /\ ThreadHasObject /\ WatchdogIsOwned
    /\ ShutdownIsHeld /\ OpenIsAfterStop /\ EarlyIsNotReady /\ VerifyingIsUp
    /\ ReadyIsUpOrHalted /\ StopHasThread /\ NoSpin

\* The constructor establishes it.
LEMMA InitInv == ASSUME Init PROVE Inv
  BY BotBaseHandleAssumption DEF Init, Inv, TypeOK, LockIsInside, StateHasThread, ThreadHasObject,
     WatchdogIsOwned, ShutdownIsHeld, OpenIsAfterStop, EarlyIsNotReady, VerifyingIsUp,
     ReadyIsUpOrHalted, StopHasThread, NoSpin, Inside, Halted, Polling, Verifying, Early, Operations

\* A step of a caller.
LEMMA CallerKeepsInv ==
  ASSUME Inv, NEW c \in Callers, Call(c) \/ TryReset(c) \/ TrySend(c) \/ CallerStep(c)
  PROVE  Inv'
<1> USE BotBaseHandleAssumption DEF Inv, TypeOK, LockIsInside, StateHasThread, ThreadHasObject, WatchdogIsOwned,
            ShutdownIsHeld, OpenIsAfterStop, EarlyIsNotReady, VerifyingIsUp,
            ReadyIsUpOrHalted, StopHasThread, NoSpin, Inside, Halted, Polling, Verifying, Early, Operations
<1>1. CASE Call(c)
  BY <1>1 DEF Call
<1>2. CASE Lock(c)
  BY <1>2 DEF Lock
<1>3. CASE TryReset(c)
  BY <1>3 DEF TryReset
<1>4. CASE TrySend(c)
  BY <1>4 DEF TrySend
<1>5. CASE Issue(c)
  BY <1>5 DEF Issue
<1>6. CASE Load(c)
  BY <1>6 DEF Load, Stopped
<1>7. CASE Shutdown(c)
  BY <1>7 DEF Shutdown
<1>8. CASE Halt(c)
  BY <1>8 DEF Halt
<1>9. CASE Notify(c)
  BY <1>9 DEF Notify
<1>10. CASE Join(c)
  BY <1>10 DEF Join, Stopped
<1>11. CASE OpenFails(c)
  BY <1>11 DEF OpenFails
<1>12. CASE Open(c)
  BY <1>12 DEF Open
<1> QED
  BY <1>1, <1>2, <1>3, <1>4, <1>5, <1>6, <1>7, <1>8, <1>9, <1>10, <1>11, <1>12 DEF CallerStep

\* A step of the status thread or of the watchdog.
LEMMA ThreadKeepsInv ==
  ASSUME Inv, StatusStep \/ WatchdogStep
  PROVE  Inv'
<1> USE BotBaseHandleAssumption DEF Inv, TypeOK, LockIsInside, StateHasThread, ThreadHasObject, WatchdogIsOwned,
            ShutdownIsHeld, OpenIsAfterStop, EarlyIsNotReady, VerifyingIsUp,
            ReadyIsUpOrHalted, StopHasThread, NoSpin, Inside, Halted, Polling, Verifying, Early, Operations
<1>1. CASE Connect
  BY <1>1 DEF Connect
<1>2. CASE Verify
  BY <1>2 DEF Verify
<1>3. CASE Ready
  BY <1>3 DEF Ready
<1>4. CASE Unverified
  BY <1>4 DEF Unverified
<1>5. CASE Fail
  BY <1>5 DEF Fail
<1>6. CASE Clear
  BY <1>6 DEF Clear
<1>7. CASE Poll
  BY <1>7 DEF Poll
<1>8. CASE Ask
  BY <1>8 DEF Ask
<1>9. CASE Error
  BY <1>9 DEF Error
<1>10. CASE Nap
  BY <1>10 DEF Nap
<1>11. CASE WakeUp
  BY <1>11 DEF WakeUp
<1>12. CASE Finish
  BY <1>12 DEF Finish
<1>13. CASE JoinWatchdog
  BY <1>13 DEF JoinWatchdog
<1>14. CASE WatchdogCheck
  BY <1>14 DEF WatchdogCheck
<1>15. CASE WatchdogWakeUp
  BY <1>15 DEF WatchdogWakeUp
<1> QED
  BY <1>1, <1>2, <1>3, <1>4, <1>5, <1>6, <1>7, <1>8, <1>9, <1>10, <1>11, <1>12, <1>13, <1>14, <1>15 DEF StatusStep, WatchdogStep

\* So does a step that changes nothing here.
LEMMA StutterKeepsInv == ASSUME Inv, UNCHANGED vars PROVE Inv'
  BY DEF vars, Inv, TypeOK, LockIsInside, StateHasThread, ThreadHasObject, WatchdogIsOwned,
            ShutdownIsHeld, OpenIsAfterStop, EarlyIsNotReady, VerifyingIsUp,
            ReadyIsUpOrHalted, StopHasThread, NoSpin, Inside, Halted, Polling, Verifying, Early, Operations

\* The inductive invariant of the handle.
THEOREM InvHolds == Spec => []Inv
<1>1. ASSUME Inv, [Next]_vars PROVE Inv'
  BY <1>1, CallerKeepsInv, ThreadKeepsInv, StutterKeepsInv DEF Next
<1> QED
  BY <1>1, InitInv, PTL DEF Spec

\* Whoever gets the lock of a READY handle can use its connection: the
\* check that try_send_request() makes before it dereferences m_botbase.
THEOREM ReadyHandleIsUp == Spec => []ReadyIsUp
<1>1. Inv => ReadyIsUp
  BY BotBaseHandleAssumption DEF Inv, LockIsInside, ReadyIsUpOrHalted, ReadyIsUp, Inside, Halted
<1> QED
  BY <1>1, InvHolds, PTL

\* reset_unprotected() destroys a connection only when its threads have ended.
THEOREM ConnectionOutlivesThreads == Spec => []ThreadsAreGone
<1>1. Inv => ThreadsAreGone
  BY DEF Inv, OpenIsAfterStop, StateHasThread, WatchdogIsOwned, ThreadsAreGone, Polling
<1> QED
  BY <1>1, InvHolds, PTL

\* The busy wait of stop_unprotected() is dead code.
THEOREM BusyWaitIsNeverEntered == Spec => []NobodySpins
<1>1. Inv => NobodySpins
  BY DEF Inv, NoSpin, NobodySpins
<1> QED
  BY <1>1, InvHolds, PTL
=============================================================================
