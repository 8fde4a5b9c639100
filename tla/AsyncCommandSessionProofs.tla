---------------------- MODULE AsyncCommandSessionProofs ----------------------
(***************************************************************************)
(* Proofs about AsyncCommandSession: the bare pointer of the thread is     *)
(* good, and no cancel leaves a command untold.                            *)
(***************************************************************************)
EXTENDS AsyncCommandSession, TLAPS

USE DEF ThreadEnded, OwnerGoto, ThreadGoto, AboveUnlocked, AboveFlag, notify_all, aboveVars, sessionVars, ownerVars, threadVars

\* Where the owner has a set of its own, and where it has attached it.
Dispatching == {"attach", "context", "lock", "check", "replace", "discard", "discard_throw"}
HasSet      == {"context", "lock", "check", "replace"}

\* A set that may run one day, or that runs.
Alive(c) ==
    \/ c = m_current
    \/ c = pending /\ owner \in HasSet

LockIsHeld     == (m_lock = "owner" <=> owner = "check") /\ (m_lock = "thread" <=> thread = "unlock")
NumbersInOrder ==
    /\ m_current <= dispatched /\ current <= dispatched /\ dispatched <= MaxDispatch
    /\ owner \in Dispatching => pending = dispatched /\ pending # None /\ m_current < pending /\ current < pending
    /\ thread \in {"unlock", "drop"} => current # m_current
ThreadIsGone   == owner \in {"free", "gone"} => ThreadEnded

\* The thread that cancels the scope comes to every set that has not been
\* told, by way of the children.
UntoldIsVisited ==
    \A c \in Commands : Alive(c) /\ mark[c] = "no" =>
        \/ above \in {"none", "flagged"} /\ c \in children
        \/ above \in {"locked", "in_session"} /\ c \in todo
        \/ above = "terminated"

\* Only the first cancel() of the session gets to the section.
OneCanceller   == (owner = "cancel_lock" => cancelled /\ above # "in_session") /\ (above = "in_session" => cancelled)

Facts ==
    /\ LockIsHeld /\ NumbersInOrder /\ ThreadIsGone /\ RunsTheCurrent
    /\ UntoldIsVisited /\ OneCanceller /\ StopReachesCommands

Inv == TypeOK /\ Facts

\* What the proofs need to know of the numbers of commands.
LEMMA CommandNumbers == Commands \subseteq Nat /\ \A n \in Nat : n \in Commands <=> 1 <= n /\ n <= MaxDispatch
  BY AsyncCommandSessionAssumption DEF Commands

\* The constructor establishes it.
LEMMA InitTypes == ASSUME Init PROVE TypeOK
<1> USE CommandNumbers, AsyncCommandSessionAssumption DEF Init, None
<1>1. AboveTypeOK
  BY DEF AboveTypeOK
<1>2. SessionTypeOK
  BY DEF SessionTypeOK
<1>3. ThreadsTypeOK
  BY DEF ThreadsTypeOK
<1> QED
  BY <1>1, <1>2, <1>3 DEF TypeOK

LEMMA InitFacts == ASSUME Init PROVE Facts
  BY CommandNumbers, AsyncCommandSessionAssumption DEF Init, Facts, TypeOK, AboveTypeOK, SessionTypeOK, ThreadsTypeOK, LockIsHeld, NumbersInOrder, ThreadIsGone, RunsTheCurrent, UntoldIsVisited, OneCanceller,
            StopReachesCommands, Alive, Dispatching, HasSet, Session, None

\* Types: a step of the owner.
LEMMA OwnerKeepsTypes ==
  ASSUME TypeOK, Facts, OwnerCall \/ OwnerStep
  PROVE  TypeOK'
<1> USE AsyncCommandSessionAssumption, CommandNumbers DEF TypeOK, None
<1>1. CASE Construct
  <2>1. AboveTypeOK'
    BY <1>1 DEF Construct, AboveTypeOK, ThreadsTypeOK, Session
  <2>2. SessionTypeOK'
    BY <1>1 DEF Construct, SessionTypeOK, ThreadsTypeOK
  <2>3. ThreadsTypeOK'
    BY <1>1 DEF Construct, SessionTypeOK, ThreadsTypeOK
  <2> QED
    BY <2>1, <2>2, <2>3
<1>2. CASE Abandon
  BY <1>2 DEF Abandon, AboveTypeOK, SessionTypeOK, ThreadsTypeOK, Session
<1>3. CASE Dispatch
  <2>1. AboveTypeOK'
    BY <1>3 DEF Dispatch, AboveTypeOK, ThreadsTypeOK, Session
  <2>2. SessionTypeOK'
    BY <1>3 DEF Dispatch, SessionTypeOK, ThreadsTypeOK
  <2>3. ThreadsTypeOK'
    BY <1>3 DEF Dispatch, SessionTypeOK, ThreadsTypeOK
  <2> QED
    BY <2>1, <2>2, <2>3
<1>4. CASE AttachSet
  <2>1. AboveTypeOK'
    BY <1>4 DEF AttachSet, AboveTypeOK, ThreadsTypeOK, Session, Facts, NumbersInOrder, Dispatching
  <2>2. SessionTypeOK'
    BY <1>4 DEF AttachSet, SessionTypeOK, ThreadsTypeOK
  <2>3. ThreadsTypeOK'
    BY <1>4 DEF AttachSet, SessionTypeOK, ThreadsTypeOK
  <2> QED
    BY <2>1, <2>2, <2>3
<1>5. CASE AttachContext
  BY <1>5 DEF AttachContext, AboveTypeOK, SessionTypeOK, ThreadsTypeOK, Session
<1>6. CASE Lock
  BY <1>6 DEF Lock, AboveTypeOK, SessionTypeOK, ThreadsTypeOK, Session
<1>7. CASE CheckCancelled
  BY <1>7 DEF CheckCancelled, AboveTypeOK, SessionTypeOK, ThreadsTypeOK, Session
<1>8. CASE CheckIdle
  <2>1. AboveTypeOK'
    BY <1>8 DEF CheckIdle, Store, AboveTypeOK, ThreadsTypeOK, Session
  <2>2. SessionTypeOK'
    BY <1>8 DEF CheckIdle, Store, SessionTypeOK, ThreadsTypeOK
  <2>3. ThreadsTypeOK'
    BY <1>8 DEF CheckIdle, Store, SessionTypeOK, ThreadsTypeOK
  <2> QED
    BY <2>1, <2>2, <2>3
<1>9. CASE CheckReplace
  <2>1. AboveTypeOK'
    BY <1>9 DEF CheckReplace, Cancel, Marked, AboveTypeOK, ThreadsTypeOK, Session
  <2>2. SessionTypeOK'
    BY <1>9 DEF CheckReplace, Cancel, Marked, SessionTypeOK, ThreadsTypeOK
  <2>3. ThreadsTypeOK'
    BY <1>9 DEF CheckReplace, Cancel, Marked, SessionTypeOK, ThreadsTypeOK
  <2> QED
    BY <2>1, <2>2, <2>3
<1>10. CASE Replace
  <2>1. AboveTypeOK'
    BY <1>10 DEF Replace, Store, AboveTypeOK, ThreadsTypeOK, Session
  <2>2. SessionTypeOK'
    BY <1>10 DEF Replace, Store, SessionTypeOK, ThreadsTypeOK
  <2>3. ThreadsTypeOK'
    BY <1>10 DEF Replace, Store, SessionTypeOK, ThreadsTypeOK
  <2> QED
    BY <2>1, <2>2, <2>3
<1>11. CASE Discard
  BY <1>11 DEF Discard, AboveTypeOK, SessionTypeOK, ThreadsTypeOK, Session
<1>12. CASE CallWait
  BY <1>12 DEF CallWait, AboveTypeOK, SessionTypeOK, ThreadsTypeOK, Session
<1>13. CASE Wait
  <2>1. AboveTypeOK'
    BY <1>13 DEF Wait, AboveTypeOK, ThreadsTypeOK, Session
  <2>2. SessionTypeOK'
    BY <1>13 DEF Wait, SessionTypeOK, ThreadsTypeOK
  <2>3. ThreadsTypeOK'
    BY <1>13 DEF Wait, SessionTypeOK, ThreadsTypeOK
  <2> QED
    BY <2>1, <2>2, <2>3
<1>14. CASE CallStop
  BY <1>14 DEF CallStop, AboveTypeOK, SessionTypeOK, ThreadsTypeOK, Session
<1>15. CASE Unwind
  BY <1>15 DEF Unwind, AboveTypeOK, SessionTypeOK, ThreadsTypeOK, Session
<1>16. CASE Detach
  BY <1>16 DEF Detach, AboveTypeOK, SessionTypeOK, ThreadsTypeOK, Session
<1>17. CASE SetFlag
  BY <1>17 DEF SetFlag, AboveTypeOK, SessionTypeOK, ThreadsTypeOK, Session
<1>18. CASE OwnerCancels
  <2>1. AboveTypeOK'
    BY <1>18 DEF OwnerCancels, CancelSection, Cancel, Marked, Terminates, AboveTypeOK, ThreadsTypeOK, Session
  <2>2. SessionTypeOK'
    BY <1>18 DEF OwnerCancels, CancelSection, Cancel, Marked, Terminates, SessionTypeOK, ThreadsTypeOK
  <2>3. ThreadsTypeOK'
    BY <1>18 DEF OwnerCancels, CancelSection, Cancel, Marked, Terminates, SessionTypeOK, ThreadsTypeOK
  <2> QED
    BY <2>1, <2>2, <2>3
<1>19. CASE Join
  <2>1. AboveTypeOK'
    BY <1>19 DEF Join, AboveTypeOK, ThreadsTypeOK, Session
  <2>2. SessionTypeOK'
    BY <1>19 DEF Join, SessionTypeOK, ThreadsTypeOK
  <2>3. ThreadsTypeOK'
    BY <1>19 DEF Join, SessionTypeOK, ThreadsTypeOK
  <2> QED
    BY <2>1, <2>2, <2>3
<1>20. CASE Free
  <2>1. AboveTypeOK'
    BY <1>20 DEF Free, AboveTypeOK, ThreadsTypeOK, Session
  <2>2. SessionTypeOK'
    BY <1>20 DEF Free, SessionTypeOK, ThreadsTypeOK
  <2>3. ThreadsTypeOK'
    BY <1>20 DEF Free, SessionTypeOK, ThreadsTypeOK
  <2> QED
    BY <2>1, <2>2, <2>3
<1> QED
  BY <1>1, <1>2, <1>3, <1>4, <1>5, <1>6, <1>7, <1>8, <1>9, <1>10, <1>11, <1>12, <1>13, <1>14, <1>15, <1>16, <1>17, <1>18, <1>19, <1>20 DEF OwnerCall, OwnerStep

\* Types: a step of the thread that cancels the scope.
LEMMA AboveKeepsTypes ==
  ASSUME TypeOK, Facts, AboveStep
  PROVE  TypeOK'
<1> USE AsyncCommandSessionAssumption, CommandNumbers DEF TypeOK, None
<1>1. CASE LockAbove
  BY <1>1 DEF LockAbove, AboveTypeOK, SessionTypeOK, ThreadsTypeOK, Session
<1>2. ASSUME NEW c \in Commands, CancelCommand(c) PROVE TypeOK'
  BY <1>2 DEF CancelCommand, Cancel, Marked, AboveTypeOK, SessionTypeOK, ThreadsTypeOK, Session
<1>3. CASE FlagSession
  BY <1>3 DEF FlagSession, AboveTypeOK, SessionTypeOK, ThreadsTypeOK, Session
<1>4. CASE CancelSession
  <2>1. AboveTypeOK'
    BY <1>4 DEF CancelSession, CancelSection, Cancel, Marked, Terminates, AboveTypeOK, ThreadsTypeOK, Session
  <2>2. SessionTypeOK'
    BY <1>4 DEF CancelSession, CancelSection, Cancel, Marked, Terminates, SessionTypeOK, ThreadsTypeOK
  <2>3. ThreadsTypeOK'
    BY <1>4 DEF CancelSession, CancelSection, Cancel, Marked, Terminates, SessionTypeOK, ThreadsTypeOK
  <2> QED
    BY <2>1, <2>2, <2>3
<1>5. CASE UnlockAbove
  BY <1>5 DEF UnlockAbove, AboveTypeOK, SessionTypeOK, ThreadsTypeOK, Session
<1> QED
  BY <1>1, <1>2, <1>3, <1>4, <1>5 DEF AboveStep

\* Types: a step of the thread of the session.
LEMMA ThreadKeepsTypes ==
  ASSUME TypeOK, Facts, ThreadStep \/ RunReturns \/ RunThrows
  PROVE  TypeOK'
<1> USE AsyncCommandSessionAssumption, CommandNumbers DEF TypeOK, None
<1>1. CASE Loop
  <2>1. AboveTypeOK'
    BY <1>1 DEF Loop, AboveTypeOK, ThreadsTypeOK, Session
  <2>2. SessionTypeOK'
    BY <1>1 DEF Loop, SessionTypeOK, ThreadsTypeOK
  <2>3. ThreadsTypeOK'
    BY <1>1 DEF Loop, SessionTypeOK, ThreadsTypeOK
  <2> QED
    BY <2>1, <2>2, <2>3
<1>2. CASE RunReturns
  BY <1>2 DEF RunReturns, AboveTypeOK, SessionTypeOK, ThreadsTypeOK, Session
<1>3. CASE RunCancelled
  BY <1>3 DEF RunCancelled, AboveTypeOK, SessionTypeOK, ThreadsTypeOK, Session
<1>4. CASE RunThrows
  BY <1>4 DEF RunThrows, AboveTypeOK, SessionTypeOK, ThreadsTypeOK, Session
<1>5. CASE Finish
  BY <1>5 DEF Finish, AboveTypeOK, SessionTypeOK, ThreadsTypeOK, Session
<1>6. CASE Unlock
  BY <1>6 DEF Unlock, AboveTypeOK, SessionTypeOK, ThreadsTypeOK, Session
<1>7. CASE Drop
  BY <1>7 DEF Drop, AboveTypeOK, SessionTypeOK, ThreadsTypeOK, Session
<1> QED
  BY <1>1, <1>2, <1>3, <1>4, <1>5, <1>6, <1>7 DEF ThreadStep

\* A step of the owner.
LEMMA OwnerKeepsFacts ==
  ASSUME TypeOK, Facts, OwnerCall \/ OwnerStep
  PROVE  Facts'
<1> USE AsyncCommandSessionAssumption, CommandNumbers DEF Facts, TypeOK, AboveTypeOK, SessionTypeOK, ThreadsTypeOK, LockIsHeld, NumbersInOrder, ThreadIsGone, RunsTheCurrent, UntoldIsVisited, OneCanceller,
            StopReachesCommands, Alive, Dispatching, HasSet, Session, None
<1>1. CASE Construct
  <2>1. CASE above # "none"
    BY <1>1, <2>1 DEF Construct
  <2>2. CASE above = "none"
    BY <1>1, <2>2 DEF Construct
  <2> QED
    BY <2>1, <2>2
<1>2. CASE Abandon
  BY <1>2 DEF Abandon
<1>3. CASE Dispatch
  BY <1>3 DEF Dispatch
<1>4. CASE AttachSet
  <2>1. CASE above # "none"
    BY <1>4, <2>1 DEF AttachSet
  <2>2. CASE above = "none"
    BY <1>4, <2>2 DEF AttachSet
  <2> QED
    BY <2>1, <2>2
<1>5. CASE AttachContext
  BY <1>5 DEF AttachContext
<1>6. CASE Lock
  BY <1>6 DEF Lock
<1>7. CASE CheckCancelled
  BY <1>7 DEF CheckCancelled
<1>8. CASE CheckIdle
  BY <1>8 DEF CheckIdle, Store
<1>9. CASE CheckReplace
  <2>1. CASE connection = "stopped"
    BY <1>9, <2>1 DEF CheckReplace, Cancel, Marked
  <2>2. CASE connection # "stopped"
    BY <1>9, <2>2 DEF CheckReplace, Cancel, Marked
  <2> QED
    BY <2>1, <2>2
<1>10. CASE Replace
  <2>1. CASE m_current = None
    BY <1>10, <2>1 DEF Replace, Store
  <2>2. CASE m_current # None
    BY <1>10, <2>2 DEF Replace, Store
  <2> QED
    BY <2>1, <2>2
<1>11. CASE Discard
  BY <1>11 DEF Discard
<1>12. CASE CallWait
  BY <1>12 DEF CallWait
<1>13. CASE Wait
  <2>1. CASE m_current = None
    BY <1>13, <2>1 DEF Wait
  <2>2. CASE m_current # None
    BY <1>13, <2>2 DEF Wait
  <2> QED
    BY <2>1, <2>2
<1>14. CASE CallStop
  BY <1>14 DEF CallStop
<1>15. CASE Unwind
  BY <1>15 DEF Unwind
<1>16. CASE Detach
  BY <1>16 DEF Detach
<1>17. CASE SetFlag
  BY <1>17 DEF SetFlag
<1>18. CASE OwnerCancels
  BY <1>18 DEF OwnerCancels, CancelSection, Cancel, Marked, Terminates
<1>19. CASE Join
  BY <1>19 DEF Join
<1>20. CASE Free
  BY <1>20 DEF Free
<1> QED
  BY <1>1, <1>2, <1>3, <1>4, <1>5, <1>6, <1>7, <1>8, <1>9, <1>10, <1>11, <1>12, <1>13, <1>14, <1>15, <1>16, <1>17, <1>18, <1>19, <1>20 DEF OwnerCall, OwnerStep

\* A step of the thread that cancels the scope.
LEMMA AboveKeepsFacts ==
  ASSUME TypeOK, Facts, AboveStep
  PROVE  Facts'
<1> USE AsyncCommandSessionAssumption, CommandNumbers DEF Facts, TypeOK, AboveTypeOK, SessionTypeOK, ThreadsTypeOK, LockIsHeld, NumbersInOrder, ThreadIsGone, RunsTheCurrent, UntoldIsVisited, OneCanceller,
            StopReachesCommands, Alive, Dispatching, HasSet, Session, None
<1>1. CASE LockAbove
  BY <1>1 DEF LockAbove
<1>2. ASSUME NEW c \in Commands, CancelCommand(c) PROVE Facts'
  BY <1>2 DEF CancelCommand, Cancel, Marked
<1>3. CASE FlagSession
  BY <1>3 DEF FlagSession
<1>4. CASE CancelSession
  BY <1>4 DEF CancelSession, CancelSection, Cancel, Marked, Terminates
<1>5. CASE UnlockAbove
  BY <1>5 DEF UnlockAbove
<1> QED
  BY <1>1, <1>2, <1>3, <1>4, <1>5 DEF AboveStep

\* A step of the thread of the session.
LEMMA ThreadKeepsFacts ==
  ASSUME TypeOK, Facts, ThreadStep \/ RunReturns \/ RunThrows
  PROVE  Facts'
<1> USE AsyncCommandSessionAssumption, CommandNumbers DEF Facts, TypeOK, AboveTypeOK, SessionTypeOK, ThreadsTypeOK, LockIsHeld, NumbersInOrder, ThreadIsGone, RunsTheCurrent, UntoldIsVisited, OneCanceller,
            StopReachesCommands, Alive, Dispatching, HasSet, Session, None
<1>1. CASE Loop
  <2>1. CASE cancelled
    BY <1>1, <2>1 DEF Loop
  <2>2. CASE ~ cancelled /\ m_current # None
    BY <1>1, <2>2 DEF Loop
  <2>3. CASE ~ cancelled /\ m_current = None
    BY <1>1, <2>3 DEF Loop
  <2> QED
    BY <2>1, <2>2, <2>3
<1>2. CASE RunReturns
  BY <1>2 DEF RunReturns
<1>3. CASE RunCancelled
  BY <1>3 DEF RunCancelled
<1>4. CASE RunThrows
  BY <1>4 DEF RunThrows
<1>5. CASE Finish
  BY <1>5 DEF Finish
<1>6. CASE Unlock
  BY <1>6 DEF Unlock
<1>7. CASE Drop
  BY <1>7 DEF Drop
<1> QED
  BY <1>1, <1>2, <1>3, <1>4, <1>5, <1>6, <1>7 DEF ThreadStep

\* The rest, and a step that changes nothing here.
OtherStep == (\E e \in {"plain", "exception"} : CancelAbove(e)) \/ StopConnection
             \/ (\E t \in {"owner", "thread"} : SpuriousWakeup(t)) \/ UNCHANGED vars

LEMMA OthersKeepTypes == ASSUME TypeOK, OtherStep PROVE TypeOK'
<1> USE DEF OtherStep, CancelAbove, StopConnection, SpuriousWakeup, vars, TypeOK
<1>1. AboveTypeOK'
  BY DEF AboveTypeOK
<1>2. SessionTypeOK'
  BY DEF SessionTypeOK
<1>3. ThreadsTypeOK'
  BY DEF ThreadsTypeOK
<1> QED
  BY <1>1, <1>2, <1>3

LEMMA OthersKeepFacts == ASSUME TypeOK, Facts, OtherStep PROVE Facts'
  BY CommandNumbers, AsyncCommandSessionAssumption
  DEF OtherStep, CancelAbove, StopConnection, SpuriousWakeup, vars, Facts, TypeOK, AboveTypeOK, SessionTypeOK, ThreadsTypeOK, LockIsHeld, NumbersInOrder, ThreadIsGone, RunsTheCurrent, UntoldIsVisited, OneCanceller,
            StopReachesCommands, Alive, Dispatching, HasSet, Session, None

\* The inductive invariant of the session.
THEOREM InvHolds == Spec => []Inv
<1>1. ASSUME Inv, [Next]_vars PROVE Inv'
  BY <1>1, OwnerKeepsTypes, OwnerKeepsFacts, AboveKeepsTypes, AboveKeepsFacts, ThreadKeepsTypes,
     ThreadKeepsFacts, OthersKeepTypes, OthersKeepFacts DEF Next, Inv, OtherStep
<1>2. Init => Inv
  BY InitTypes, InitFacts DEF Inv
<1> QED
  BY <1>1, <1>2, PTL DEF Spec

\* thread_loop() never uses a command set that has been destroyed.
THEOREM PointerIsGood == Spec => []RunsTheCurrent
<1>1. Inv => RunsTheCurrent
  BY DEF Inv, Facts
<1> QED
  BY <1>1, InvHolds, PTL

\* A cancel from above that has returned has told whatever still runs.
THEOREM CancelIsComplete == Spec => []CancelReachesCommands
<1>1. Inv => CancelReachesCommands
  BY DEF Inv, Facts, TypeOK, AboveTypeOK, ThreadsTypeOK, RunsTheCurrent, UntoldIsVisited, CancelReachesCommands, Alive, None
<1> QED
  BY <1>1, InvHolds, PTL

\* So has the cancel() of stop_session_and_rethrow() and of the destructor.
THEOREM StopIsComplete == Spec => []StopReachesCommands
<1>1. Inv => StopReachesCommands
  BY DEF Inv, Facts
<1> QED
  BY <1>1, InvHolds, PTL
=============================================================================
