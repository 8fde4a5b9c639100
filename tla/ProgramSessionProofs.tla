------------------------ MODULE ProgramSessionProofs ------------------------
(***************************************************************************)
(* Proofs about ProgramSession: the session uses its handle as             *)
(* BotBaseHandle allows, so all that is proved there holds here; and the   *)
(* lock of the session keeps the scope and the connection of its program.  *)
(***************************************************************************)
EXTENDS ProgramSession, BotBaseHandleProofs

USE DEF AtGoto, ProgramGoto, ResetHandle, Outside, Reachable, programVars, sessionVars

\* Where a caller has the lock of the session, and where the program has it.
LockIsInSession  == \A c \in Callers : at[c] \in {"stop", "cancel", "reset"} <=> session_lock = c
LockIsInProgram  == session_lock = Program <=> kind = "multi" /\ program \in {"refer", "publish"}
ScopeIsPublished == m_scope <=> program \in {"run", "withdraw"}

\* The program has a reference only when it is past is_ready().
ReferenceIsInside == refers_to # 0 => program \in {"publish", "run", "withdraw"}

SessionFacts ==
    /\ LockIsInSession /\ LockIsInProgram /\ ScopeIsPublished /\ ReferenceIsInside
    /\ CancelsLiveScope /\ WaiterIsWoken /\ ResetsUnusedConnection

SessionInv == ProgramTypeOK /\ SessionFacts

\* Every step of the session is one of the handle, or none.
LEMMA SessionUsesHandle == ASSUME [ProgramNext]_allVars PROVE [Next]_vars
<1> USE ProgramSessionAssumption
<1>1. CASE Running /\ HandleStep
  BY <1>1 DEF HandleStep, Next
<1>2. ASSUME NEW c \in Callers, Running, InHandle(c) PROVE Next
  BY <1>2 DEF InHandle, Next
<1>3. ASSUME NEW c \in Callers, Running, StartProgram(c) \/ StopProgram(c) \/ SessionStep(c) \/ SpuriousWakeup(c)
      PROVE  [Next]_vars
  BY <1>3 DEF StartProgram, StopProgram, SessionStep, SpuriousWakeup, StopHandle, LookAtScope, CancelScope, Await,
              StopReturns, Next
<1>4. CASE Close \/ Shut \/ UpdateUi \/ JoinProgramThread
  BY <1>4 DEF Close, Shut, UpdateUi, JoinProgramThread
<1>5. CASE ProgramStep \/ NoVideo \/ RunEnds
  BY <1>5 DEF ProgramStep, CheckReady, Refer, Publish, RunIsCancelled, Withdraw, FinishProgram, NoVideo, RunEnds, vars
<1> QED
  BY <1>1, <1>2, <1>3, <1>4, <1>5 DEF ProgramNext, allVars

\* What the session does to its handle, the specification of the handle
\* allows: the handle in the program is the handle that has been checked.
THEOREM HandleIsUsedAsSpecified == ProgramSpec => Spec
<1>1. ProgramInit => Init
  BY DEF ProgramInit
<1> QED
  BY <1>1, SessionUsesHandle, PTL DEF ProgramSpec, Spec

\* Types.
LEMMA SessionTypes ==
  ASSUME ProgramTypeOK, opened \in 0 .. MaxConnections, [ProgramNext]_allVars
  PROVE  ProgramTypeOK'
<1> USE ProgramSessionAssumption, BotBaseHandleAssumption DEF ProgramTypeOK
<1>1. CASE HandleStep
  BY <1>1 DEF HandleStep
<1>2. ASSUME NEW c \in Callers, InHandle(c) PROVE ProgramTypeOK'
  BY <1>2 DEF InHandle
<1>3. ASSUME NEW c \in Callers, StartProgram(c) PROVE ProgramTypeOK'
  BY <1>3 DEF StartProgram
<1>4. ASSUME NEW c \in Callers, StopProgram(c) PROVE ProgramTypeOK'
  BY <1>4 DEF StopProgram
<1>5. ASSUME NEW c \in Callers, StopHandle(c) PROVE ProgramTypeOK'
  BY <1>5 DEF StopHandle
<1>6. ASSUME NEW c \in Callers, LookAtScope(c) PROVE ProgramTypeOK'
  BY <1>6 DEF LookAtScope
<1>7. ASSUME NEW c \in Callers, CancelScope(c) PROVE ProgramTypeOK'
  BY <1>7 DEF CancelScope
<1>8. ASSUME NEW c \in Callers, Await(c) PROVE ProgramTypeOK'
  BY <1>8 DEF Await
<1>9. ASSUME NEW c \in Callers, SpuriousWakeup(c) PROVE ProgramTypeOK'
  BY <1>9 DEF SpuriousWakeup
<1>10. ASSUME NEW c \in Callers, StopReturns(c) PROVE ProgramTypeOK'
  BY <1>10 DEF StopReturns
<1>11. CASE Close
  BY <1>11 DEF Close
<1>12. CASE Shut
  BY <1>12 DEF Shut
<1>13. CASE UpdateUi
  BY <1>13 DEF UpdateUi
<1>14. CASE JoinProgramThread
  BY <1>14 DEF JoinProgramThread
<1>15. CASE CheckReady
  BY <1>15 DEF CheckReady
<1>16. CASE Refer
  BY <1>16 DEF Refer
<1>17. CASE NoVideo
  <2>1. refers_to' \in 0 .. MaxConnections
    BY <1>17 DEF NoVideo
  <2> QED
    BY <1>17, <2>1 DEF NoVideo
<1>18. CASE Publish
  BY <1>18 DEF Publish
<1>19. CASE RunEnds
  BY <1>19 DEF RunEnds
<1>20. CASE RunIsCancelled
  BY <1>20 DEF RunIsCancelled
<1>21. CASE Withdraw
  <2>1. refers_to' \in 0 .. MaxConnections
    BY <1>21 DEF Withdraw
  <2> QED
    BY <1>21, <2>1 DEF Withdraw
<1>22. CASE FinishProgram
  BY <1>22 DEF FinishProgram
<1>23. CASE UNCHANGED allVars
  BY <1>23 DEF allVars
<1> QED
  BY <1>1, <1>2, <1>3, <1>4, <1>5, <1>6, <1>7, <1>8, <1>9, <1>10, <1>11, <1>12, <1>13, <1>14, <1>15, <1>16, <1>17, <1>18, <1>19, <1>20, <1>21, <1>22, <1>23
  DEF ProgramNext, SessionStep, ProgramStep

\* The lock of the session, and what it protects.
LEMMA SessionKeepsFacts ==
  ASSUME ProgramTypeOK, SessionFacts, [ProgramNext]_allVars
  PROVE  SessionFacts'
<1> USE ProgramSessionAssumption, BotBaseHandleAssumption DEF SessionFacts, LockIsInSession, LockIsInProgram, ScopeIsPublished, ReferenceIsInside, CancelsLiveScope, WaiterIsWoken,
            ResetsUnusedConnection, Program, Free
<1>1. CASE HandleStep
  BY <1>1 DEF HandleStep, ProgramTypeOK
<1>2. ASSUME NEW c \in Callers, InHandle(c) PROVE SessionFacts'
  BY <1>2 DEF InHandle, ProgramTypeOK
<1>3. ASSUME NEW c \in Callers, StartProgram(c) PROVE SessionFacts'
  BY <1>3 DEF StartProgram, ProgramTypeOK
<1>4. ASSUME NEW c \in Callers, StopProgram(c) PROVE SessionFacts'
  BY <1>4 DEF StopProgram, ProgramTypeOK
<1>5. ASSUME NEW c \in Callers, StopHandle(c) PROVE SessionFacts'
  BY <1>5 DEF StopHandle, ProgramTypeOK
<1>6. ASSUME NEW c \in Callers, LookAtScope(c) PROVE SessionFacts'
  BY <1>6 DEF LookAtScope, ProgramTypeOK
<1>7. ASSUME NEW c \in Callers, CancelScope(c) PROVE SessionFacts'
  BY <1>7 DEF CancelScope, ProgramTypeOK
<1>8. ASSUME NEW c \in Callers, Await(c) PROVE SessionFacts'
  <2>1. CASE m_scope
    BY <1>8, <2>1 DEF Await, ProgramTypeOK
  <2>2. CASE ~ m_scope
    <3>1. (kind = "multi" => refers_to' = 0) /\ at' = [at EXCEPT ![c] = "reset"] /\ session_lock' = c /\ ~ m_scope'
      BY <1>8, <2>2 DEF Await
    <3>2. UNCHANGED <<kind, program, refers_to, asleep>> /\ c \notin asleep /\ session_lock = Free
      BY <1>8, <2>2 DEF Await
    <3> QED
      BY <2>2, <3>1, <3>2 DEF ProgramTypeOK
  <2> QED
    BY <2>1, <2>2
<1>9. ASSUME NEW c \in Callers, SpuriousWakeup(c) PROVE SessionFacts'
  BY <1>9 DEF SpuriousWakeup, ProgramTypeOK
<1>10. ASSUME NEW c \in Callers, StopReturns(c) PROVE SessionFacts'
  BY <1>10 DEF StopReturns, ProgramTypeOK
<1>11. CASE Close
  BY <1>11 DEF Close, ProgramTypeOK
<1>12. CASE Shut
  BY <1>12 DEF Shut, ProgramTypeOK
<1>13. CASE UpdateUi
  BY <1>13 DEF UpdateUi, ProgramTypeOK
<1>14. CASE JoinProgramThread
  BY <1>14 DEF JoinProgramThread, ProgramTypeOK
<1>15. CASE CheckReady
  BY <1>15 DEF CheckReady, ProgramTypeOK
<1>16. CASE Refer
  BY <1>16 DEF Refer, ProgramTypeOK
<1>17. CASE NoVideo
  BY <1>17 DEF NoVideo, ProgramTypeOK
<1>18. CASE Publish
  BY <1>18 DEF Publish, ProgramTypeOK
<1>19. CASE RunEnds
  BY <1>19 DEF RunEnds, ProgramTypeOK
<1>20. CASE RunIsCancelled
  BY <1>20 DEF RunIsCancelled, ProgramTypeOK
<1>21. CASE Withdraw
  BY <1>21 DEF Withdraw, ProgramTypeOK
<1>22. CASE FinishProgram
  BY <1>22 DEF FinishProgram, ProgramTypeOK
<1>23. CASE UNCHANGED allVars
  BY <1>23 DEF allVars, ProgramTypeOK
<1> QED
  BY <1>1, <1>2, <1>3, <1>4, <1>5, <1>6, <1>7, <1>8, <1>9, <1>10, <1>11, <1>12, <1>13, <1>14, <1>15, <1>16, <1>17, <1>18, <1>19, <1>20, <1>21, <1>22, <1>23
  DEF ProgramNext, SessionStep, ProgramStep

\* The inductive invariant of the session, on top of the one of the handle.
THEOREM SessionInvHolds == ProgramSpec => []SessionInv
<1>1. ProgramInit => SessionInv
  <2>1. ProgramInit => ProgramTypeOK
    <3>1. 0 \in 0 .. MaxConnections /\ 0 \in 0 .. MaxStarts
      BY ProgramSessionAssumption, BotBaseHandleAssumption
    <3> QED
      BY <3>1 DEF ProgramInit, ProgramTypeOK
  <2>2. ProgramInit => SessionFacts
    BY ProgramSessionAssumption DEF ProgramInit, SessionFacts, LockIsInSession, LockIsInProgram, ScopeIsPublished, ReferenceIsInside, CancelsLiveScope, WaiterIsWoken,
            ResetsUnusedConnection, Program, Free
  <2> QED
    BY <2>1, <2>2 DEF SessionInv
<1>2. ASSUME Inv, SessionInv, [ProgramNext]_allVars PROVE SessionInv'
  BY <1>2, SessionTypes, SessionKeepsFacts DEF SessionInv, Inv, TypeOK
<1> QED
  BY <1>1, <1>2, HandleIsUsedAsSpecified, InvHolds, PTL DEF ProgramSpec

\* internal_stop_program() never cancels a scope that has been destroyed.
THEOREM CancelledScopeIsLive == ProgramSpec => []CancelsLiveScope
<1>1. SessionInv => CancelsLiveScope
  BY DEF SessionInv, SessionFacts
<1> QED
  BY <1>1, SessionInvHolds, PTL

\* The session of many consoles replaces no connection that its program refers to.
THEOREM MultiResetsSafely == ProgramSpec => []ResetsUnusedConnection
<1>1. SessionInv => ResetsUnusedConnection
  BY DEF SessionInv, SessionFacts
<1> QED
  BY <1>1, SessionInvHolds, PTL

\* Nobody sleeps in internal_stop_program() when there is no scope to wait for.
THEOREM NoLostWakeup == ProgramSpec => []WaiterIsWoken
<1>1. SessionInv => WaiterIsWoken
  BY DEF SessionInv, SessionFacts
<1> QED
  BY <1>1, SessionInvHolds, PTL

\* Whatever sessions do to it, a READY handle is up.
THEOREM ReadyIsUpInSession == ProgramSpec => []ReadyIsUp
  BY HandleIsUsedAsSpecified, ReadyHandleIsUp, PTL
=============================================================================
