------------------------ MODULE InferencePivotProofs ------------------------
(***************************************************************************)
(* Proofs about InferencePivot, for any tree of sessions and any number of *)
(* callbacks: the pivot and its sessions use their scopes as               *)
(* CancellableScope allows, so all that is proved there holds here; what   *)
(* the runner runs is registered; and no trigger gets lost.                *)
(***************************************************************************)
EXTENDS InferencePivot, CancellableScopeProofs, FiniteSetTheorems

Entries == [id : Nat \ {0}, event : Addresses, due : BOOLEAN]

SessionTypes ==
    /\ where \in [Sessions -> {"unused", "add", "adding", "inside", "caught", "remove", "removing", "over"}]
    /\ listed \in [Sessions -> SUBSET Callbacks]
    /\ calling \in [Sessions -> Callbacks \cup {NoCallback}]
    /\ m_triggered \in [Sessions -> Callbacks \cup {NoCallback}]
    /\ m_map \in [Callbacks -> Addresses \cup {NoAddress}]

RunnerTypes ==
    /\ m_events \in [Addresses -> Nat]
    /\ m_callback_id \in Nat \ {0}
    /\ m_schedule \in Seq(Entries)
    /\ runner \in {"none", "top", "yield", "yielded", "sleep", "woken", "run", "trigger", "cancel", "exited"}
    /\ current \in Entries \cup {NoEntry}
    /\ fate \in {"unborn", "used", "detached", "flagged", "joining", "gone"}

PivotTypeOK == SessionTypes /\ RunnerTypes

\* What the session has listed, the pivot has in its map, and has an event
\* unless it is being added.
ListedAreOwn   == \A s \in Sessions : \A c \in listed[s] : ScopeOf[c] = s
CallIsListed   == \A s \in Sessions : InPivot(s) => calling[s] \in listed[s] /\ m_map[calling[s]] # NoAddress
MappedIsListed == \A c \in Callbacks : m_map[c] # NoAddress => c \in listed[ScopeOf[c]]
MapIsInjective == \A c, d \in Callbacks : m_map[c] = m_map[d] /\ m_map[c] # NoAddress => c = d
EventIsMapped  == \A a \in Addresses : m_events[a] # 0 => \E c \in Callbacks : m_map[c] = a

MapFacts == ListedAreOwn /\ CallIsListed /\ MappedIsListed /\ MapIsInjective /\ EventIsMapped

\* Where a session is, tells whether its scope exists, and whether there
\* may be scopes below it.
BirthIsKnown ==
    \A s \in Sessions :
        /\ life[s] = "unborn" <=> where[s] = "unused"
        /\ life[s] = "dead" <=> where[s] = "over"
        /\ listed[s] # {} => where[s] \notin {"unused", "over"}
ParentIsInside ==
    \A s \in Sessions : Parent[s] \in Sessions /\ life[s] = "attached" => where[Parent[s]] = "inside"

\* The runner has the lock from the look at the schedule to the end of the call.
RunsLive == Running => current \in Entries /\ Live(current)

\* Which threads may be inside a call of which scope.
WaitsInside   == \A s \in Sessions : at[s] \in {NoNode, s} /\ (at[s] = s => where[s] = "inside")
StopsAtRoot   == at[Stopper] \in {NoNode, Root}
RunnerCancels ==
    at[Runner] # NoNode =>
        runner = "cancel" /\ \E c \in Callbacks : m_map[c] = current.event /\ at[Runner] = ScopeOf[c]

PlaceFacts == WaitsInside /\ StopsAtRoot /\ RunnerCancels
ScopeFacts == BirthIsKnown /\ ParentIsInside /\ RunsLive /\ PlaceFacts

\* Why a session may be cancelled.
UnbornIsNotCancelled == \A n \in Nodes : life[n] = "unborn" => ~ cancelled[n]
TriggerIsSet ==
    runner = "trigger" => \E c \in Callbacks : m_map[c] = current.event /\ m_triggered[ScopeOf[c]] # NoCallback
CaughtIsCancelled == \A s \in Sessions : where[s] = "caught" => cancelled[s]
CancelHasCause ==
    \A s \in Sessions :
        cancelled[s] /\ life[s] = "attached" =>
            cancelled[Parent[s]] \/ m_triggered[s] # NoCallback \/ exception[s] # NoException

CauseFacts == UnbornIsNotCancelled /\ TriggerIsSet /\ CaughtIsCancelled /\ CancelHasCause

\* Who is in the stop_all_commands() of a context: the cancel() of the scope
\* above, which holds its lock, or the runner with a callback of the context.
SessionsDoNotCancel == \A s \in Sessions : pc[s] # "cancel"
HeldFromAbove(s) == stage[Parent[s]] = "locked" /\ by[Parent[s]] = by[s]
HeldByRunner(s)  ==
    by[s] = Runner /\ runner = "cancel" /\ \E c \in Callbacks : m_map[c] = current.event /\ ScopeOf[c] = s
StopIsHeld ==
    \A s \in stopping : /\ s \in Contexts /\ life[s] = "attached" /\ stage[s] = "done"
                        /\ HeldFromAbove(s) \/ HeldByRunner(s)

StopFacts == SessionsDoNotCancel /\ StopIsHeld

PivotInv == PivotTypeOK /\ MapFacts /\ ScopeFacts /\ CauseFacts /\ StopFacts
-----------------------------------------------------------------------------
\* The runner is always with a callback that is in the map.
LEMMA CurrentIsMapped ==
  ASSUME PivotTypeOK, MapFacts, RunsLive, Running
  PROVE  \E c \in Callbacks : /\ CallbackAt(current.event) = c /\ m_map[c] = current.event
                              /\ ScopeOf[c] \in Sessions /\ c \in listed[ScopeOf[c]]
<1> USE InferencePivotAssumption
<1>1. current \in Entries /\ m_events[current.event] = current.id
  BY DEF RunsLive, Live
<1>2. current.id # 0 /\ current.event \in Addresses
  BY <1>1 DEF Entries
<1>3. PICK c \in Callbacks : m_map[c] = current.event
  BY <1>1, <1>2 DEF MapFacts, EventIsMapped
<1>4. m_map[c] # NoAddress
  BY <1>2, <1>3
<1>5. \A d \in Callbacks : m_map[d] = current.event => d = c
  BY <1>3, <1>4 DEF MapFacts, MapIsInjective
<1>6. CallbackAt(current.event) = c
  BY <1>3, <1>5 DEF CallbackAt
<1>7. c \in listed[ScopeOf[c]]
  BY <1>4 DEF MapFacts, MappedIsListed
<1> QED
  BY <1>3, <1>6, <1>7

\* Every step is a step of CancellableScope, or none.
LEMMA PivotUsesTree ==
  ASSUME PivotTypeOK, MapFacts, RunsLive, [PivotNext]_pvars
  PROVE  [Next]_vars
<1> USE InferencePivotAssumption, CancellableScopeAssumption
<1>1. ASSUME NEW s \in Sessions, Enter(s) \/ Leaves(s) \/ Wait(s) \/ WaitEnds(s) \/ WaitPasses(s)
      PROVE  Next
  <2>1. s \in Nodes /\ s \in Threads
    BY DEF Sessions
  <2> QED
    BY <1>1, <2>1 DEF Enter, Leaves, Wait, WaitEnds, WaitPasses, Next
<1>2. ASSUME NEW s \in Sessions, \/ AddCallback(s) \/ AddEvent(s) \/ CommandEnds(s) \/ Return(s)
                                 \/ RemoveCallback(s) \/ RemoveEvent(s)
      PROVE  UNCHANGED vars
  BY <1>2 DEF AddCallback, AddEvent, CommandEnds, Return, RemoveCallback, RemoveEvent, Remove
<1>3. CASE Top \/ Yield \/ SleepEnds \/ RunnerSpuriousWakeup \/ RunReturns \/ RunStops \/ CancelReturned
  BY <1>3 DEF Top, Yield, SleepEnds, RunnerSpuriousWakeup, RunReturns, RunStops, CancelReturned
<1>4. CASE Trigger \/ RunThrows
  <2>1. Running
    BY <1>4 DEF Trigger, RunThrows, Running
  <2>2. PICK c \in Callbacks : CallbackAt(current.event) = c /\ ScopeOf[c] \in Sessions
    BY <2>1, CurrentIsMapped
  <2>3. Runner \in Threads /\ ScopeOf[c] \in Nodes
    BY <2>2 DEF Sessions
  <2>4. \E e \in Exceptions \cup {NoException} : CallCancel(Runner, ScopeOf[c], e)
    BY <1>4, <2>2 DEF Trigger, RunThrows
  <2> QED
    BY <2>3, <2>4 DEF Next
<1>5. ASSUME NEW n \in Nodes, CancelSteps(n) PROVE Next
  BY <1>5 DEF CancelSteps, CancelTree, PivotLock, PivotCancel, CancelStep, Next
<1>6. ASSUME NEW id \in 1 .. Cardinality(Callbacks), Time(id) PROVE UNCHANGED vars
  BY <1>6 DEF Time
<1>7. CASE Stop
  BY <1>7 DEF Stop, Next
<1>8. CASE Construct \/ Detach
  BY <1>8 DEF Construct, Detach, Next
<1>9. CASE DestructorStep
  BY <1>9 DEF DestructorStep, StopThread, NotifyThread, Join
<1>10. CASE UNCHANGED pvars
  BY <1>10 DEF pvars
<1>11. ASSUME NEW n \in Nodes, CommandsStopped(n) PROVE UNCHANGED vars
  BY <1>11 DEF CommandsStopped
<1> QED
  BY <1>1, <1>2, <1>3, <1>4, <1>5, <1>6, <1>7, <1>8, <1>9, <1>10, <1>11
  DEF PivotNext, SessionStep, RunnerStep, RunStep

\* Types.
LEMMA SessionTypesStep ==
  ASSUME PivotTypeOK, MapFacts, RunsLive, [PivotNext]_pvars
  PROVE  SessionTypes'
<1> USE InferencePivotAssumption, CancellableScopeAssumption DEF PivotTypeOK, SessionTypes, sessionVars, pivotVars, Goto, SessionOnly, RunnerOnly, DestructorOnly, pvars
<1>1. ASSUME NEW s \in Sessions, Enter(s) PROVE SessionTypes'
  BY <1>1 DEF Enter, Attach
<1>2. ASSUME NEW s \in Sessions, AddCallback(s) PROVE SessionTypes'
  <2>1. PICK c \in CallbacksOf(s) : TRUE
    BY <1>2 DEF AddCallback
  <2>2. CallbacksOf(s) \subseteq Callbacks
    BY DEF CallbacksOf
  <2>3. \A d \in CallbacksOf(s) : Heap[d] \subseteq Addresses
    BY DEF Addresses, CallbacksOf
  <2> QED
    BY <1>2, <2>2, <2>3 DEF AddCallback
<1>3. ASSUME NEW s \in Sessions, AddEvent(s) PROVE SessionTypes'
  BY <1>3 DEF AddEvent
<1>4. ASSUME NEW s \in Sessions, Wait(s) PROVE SessionTypes'
  BY <1>4 DEF Wait, CallWait
<1>5. ASSUME NEW s \in Sessions, WaitEnds(s) PROVE SessionTypes'
  BY <1>5 DEF WaitEnds, WaitCheck
<1>6. ASSUME NEW s \in Sessions, WaitPasses(s) PROVE SessionTypes'
  BY <1>6 DEF WaitPasses, WaitTimeout, SpuriousWakeup
<1>7. ASSUME NEW s \in Sessions, CommandEnds(s) PROVE SessionTypes'
  BY <1>7 DEF CommandEnds
<1>8. ASSUME NEW s \in Sessions, Return(s) PROVE SessionTypes'
  BY <1>8 DEF Return
<1>9. ASSUME NEW s \in Sessions, RemoveCallback(s) PROVE SessionTypes'
  BY <1>9 DEF RemoveCallback
<1>10. ASSUME NEW s \in Sessions, RemoveEvent(s) PROVE SessionTypes'
  BY <1>10 DEF RemoveEvent, Remove
<1>11. ASSUME NEW s \in Sessions, Leaves(s) PROVE SessionTypes'
  BY <1>11 DEF Leaves, Destroy, MayDestroy
<1>12. ASSUME NEW n \in Nodes, CancelTree(n) PROVE SessionTypes'
  BY <1>12 DEF CancelTree
<1>13. CASE PivotLock
  BY <1>13 DEF PivotLock
<1>14. CASE PivotCancel
  BY <1>14 DEF PivotCancel
<1>15. CASE Top
  BY <1>15 DEF Top
<1>16. CASE Yield
  BY <1>16 DEF Yield
<1>17. CASE SleepEnds
  BY <1>17 DEF SleepEnds
<1>18. CASE RunnerSpuriousWakeup
  BY <1>18 DEF RunnerSpuriousWakeup
<1>19. CASE RunReturns
  BY <1>19 DEF RunReturns
<1>20. CASE RunStops
  <2>1. PICK c \in Callbacks : CallbackAt(current.event) = c
    BY <1>20, CurrentIsMapped DEF RunStops, Running
  <2> QED
    BY <1>20, <2>1 DEF RunStops
<1>21. CASE Trigger
  BY <1>21 DEF Trigger
<1>22. CASE RunThrows
  BY <1>22 DEF RunThrows
<1>23. CASE CancelReturned
  BY <1>23 DEF CancelReturned
<1>24. CASE Stop
  BY <1>24 DEF Stop
<1>25. CASE Construct
  BY <1>25 DEF Construct, Attach
<1>26. CASE Detach
  BY <1>26 DEF Detach, Destroy, MayDestroy
<1>27. CASE StopThread
  BY <1>27 DEF StopThread
<1>28. CASE NotifyThread
  BY <1>28 DEF NotifyThread
<1>29. CASE Join
  BY <1>29 DEF Join
<1>30. ASSUME NEW id \in 1 .. Cardinality(Callbacks), Time(id) PROVE SessionTypes'
  BY <1>30 DEF Time
<1>31. CASE UNCHANGED pvars
  BY <1>31 DEF pvars
<1>32. ASSUME NEW n \in Nodes, CommandsStopped(n) PROVE SessionTypes'
  BY <1>32 DEF CommandsStopped
<1> QED
  BY <1>1, <1>2, <1>3, <1>4, <1>5, <1>6, <1>7, <1>8, <1>9, <1>10, <1>11, <1>12, <1>13, <1>14, <1>15, <1>16,
     <1>17, <1>18, <1>19, <1>20, <1>21, <1>22, <1>23, <1>24, <1>25, <1>26, <1>27, <1>28, <1>29, <1>30, <1>31, <1>32
  DEF PivotNext, SessionStep, RunnerStep, RunStep, CancelSteps, DestructorStep

\* Sequences of entries stay what they are.
LEMMA InsertType ==
  ASSUME NEW seq \in Seq(Entries), NEW i \in 0 .. Len(seq), NEW e \in Entries
  PROVE  Insert(seq, i, e) \in Seq(Entries)
<1>1. SubSeq(seq, 1, i) \in Seq(Entries) /\ SubSeq(seq, i + 1, Len(seq)) \in Seq(Entries)
  OBVIOUS
<1>2. <<e>> \in Seq(Entries)
  OBVIOUS
<1> QED
  BY <1>1, <1>2 DEF Insert

\* What is due comes first or not, there is no more of it than there is in all.
LEMMA DueCountType ==
  ASSUME NEW seq \in Seq(Entries)
  PROVE  DueCount(seq) \in 0 .. Len(seq)
<1> DEFINE D == {i \in 1 .. Len(seq) : seq[i].due}
<1>1. Len(seq) \in Nat /\ DOMAIN seq = 1 .. Len(seq)
  OBVIOUS
<1>2. IsFiniteSet(1 .. Len(seq)) /\ Cardinality(1 .. Len(seq)) = Len(seq)
  BY SMTT(20), <1>1, FS_Interval
<1>3. Cardinality(D) <= Cardinality(1 .. Len(seq)) /\ IsFiniteSet(D)
  BY <1>2, FS_Subset
<1>4. Cardinality(D) \in Nat
  BY <1>3, FS_CardinalityType
<1>5. DueCount(seq) = Cardinality(D)
  BY <1>1 DEF DueCount
<1> HIDE DEF D
<1> QED
  BY <1>1, <1>2, <1>3, <1>4, <1>5

LEMMA PickTypes ==
  ASSUME RunnerTypes, Pick
  PROVE  m_events' = m_events /\ m_callback_id' = m_callback_id /\ m_schedule' \in Seq(Entries)
         /\ runner' \in {"run", "exited", "sleep"} /\ current' \in Entries \cup {NoEntry}
<1> USE DEF RunnerTypes
<1>0. UNCHANGED <<m_events, m_callback_id>> /\ Len(m_schedule) \in Nat /\ DOMAIN m_schedule = 1 .. Len(m_schedule)
  BY DEF Pick
<1> DEFINE due == {i \in DOMAIN m_schedule : m_schedule[i].due /\ Live(m_schedule[i])}
<1>1. CASE due # {}
  <2>1. PICK i \in due : /\ Reschedule(SubSeq(m_schedule, i + 1, Len(m_schedule)), m_schedule[i])
                         /\ current' = m_schedule[i] /\ runner' = "run"
    BY <1>1 DEF Pick
  <2>2. i \in 1 .. Len(m_schedule) /\ m_schedule[i] \in Entries
    BY <1>0
  <2> DEFINE rest == SubSeq(m_schedule, i + 1, Len(m_schedule))
             e    == m_schedule[i]
  <2>3. rest \in Seq(Entries)
    BY <1>0, <2>2
  <2>4. \A due1 \in BOOLEAN : Entry(e.id, e.event, due1) \in Entries
    BY <2>2 DEF Entry, Entries
  <2>5. DueCount(rest) \in 0 .. Len(rest) /\ Len(rest) \in Nat
    <3> HIDE DEF rest
    <3> QED
      BY <2>3, DueCountType
  <2>6. m_schedule' \in Seq(Entries)
    <3> HIDE DEF rest, e
    <3>1. \/ m_schedule' = Insert(rest, DueCount(rest), Entry(e.id, e.event, TRUE))
          \/ \E j \in DueCount(rest) .. Len(rest) : m_schedule' = Insert(rest, j, Entry(e.id, e.event, FALSE))
      BY <2>1 DEF Reschedule, rest, e
    <3>2. \A j \in DueCount(rest) .. Len(rest) : j \in 0 .. Len(rest)
      BY <2>5
    <3> QED
      BY <3>1, <3>2, <2>3, <2>4, <2>5, InsertType
  <2> QED
    BY <1>0, <2>1, <2>2, <2>6
<1>2. CASE due = {}
  <2>1. /\ m_schedule' = SubSeq(m_schedule, DueCount(m_schedule) + 1, Len(m_schedule))
        /\ runner' \in {"exited", "sleep"} /\ UNCHANGED current
    BY <1>2 DEF Pick
  <2>2. DueCount(m_schedule) \in 0 .. Len(m_schedule)
    BY DueCountType
  <2>3. m_schedule' \in Seq(Entries)
    BY <1>0, <2>1, <2>2
  <2> QED
    BY <1>0, <2>1, <2>3
<1> QED
  BY <1>1, <1>2

\* The runner keeps its types, and its ids.
LEMMA RunnerTypesStep ==
  ASSUME PivotTypeOK, MapFacts, [PivotNext]_pvars
  PROVE  RunnerTypes'
<1> USE InferencePivotAssumption, CancellableScopeAssumption DEF PivotTypeOK, RunnerTypes, runnerVars, scheduleVars, pivotVars, notify, NoEntry, SessionOnly, RunnerOnly, DestructorOnly, sessionVars, pvars
<1>1. ASSUME NEW s \in Sessions, Enter(s) PROVE RunnerTypes'
  BY <1>1 DEF Enter, Attach
<1>2. ASSUME NEW s \in Sessions, AddCallback(s) PROVE RunnerTypes'
  BY <1>2 DEF AddCallback
<1>3. ASSUME NEW s \in Sessions, AddEvent(s) PROVE RunnerTypes'
  <2> DEFINE a == m_map[calling[s]]
  <2>1. a \in Addresses
    BY <1>3 DEF AddEvent, MapFacts, CallIsListed, InPivot, SessionTypes
  <2>2. Entry(m_callback_id, a, TRUE) \in Entries
    BY <2>1 DEF Entry, Entries
  <2>3. DueCount(m_schedule) \in 0 .. Len(m_schedule)
    BY DueCountType
  <2>4. m_schedule' \in Seq(Entries)
    <3>1. PICK i \in 0 .. DueCount(m_schedule) : m_schedule' = Insert(m_schedule, i, Entry(m_callback_id, a, TRUE))
      BY <1>3 DEF AddEvent, Add
    <3>2. i \in 0 .. Len(m_schedule)
      BY <2>3
    <3> QED
      BY <2>2, <3>1, <3>2, InsertType
  <2>5. m_events' \in [Addresses -> Nat] /\ m_callback_id' \in Nat \ {0}
    BY <1>3, <2>1 DEF AddEvent, Add
  <2>6. UNCHANGED <<current, fate>> /\ runner' \in {"yielded", "woken", runner}
    BY <1>3 DEF AddEvent
  <2> QED
    BY <2>4, <2>5, <2>6
<1>4. ASSUME NEW s \in Sessions, Wait(s) PROVE RunnerTypes'
  BY <1>4 DEF Wait, CallWait
<1>5. ASSUME NEW s \in Sessions, WaitEnds(s) PROVE RunnerTypes'
  BY <1>5 DEF WaitEnds, WaitCheck
<1>6. ASSUME NEW s \in Sessions, WaitPasses(s) PROVE RunnerTypes'
  BY <1>6 DEF WaitPasses, WaitTimeout, SpuriousWakeup
<1>7. ASSUME NEW s \in Sessions, CommandEnds(s) PROVE RunnerTypes'
  BY <1>7 DEF CommandEnds
<1>8. ASSUME NEW s \in Sessions, Return(s) PROVE RunnerTypes'
  BY <1>8 DEF Return
<1>9. ASSUME NEW s \in Sessions, RemoveCallback(s) PROVE RunnerTypes'
  BY <1>9 DEF RemoveCallback
<1>10. ASSUME NEW s \in Sessions, RemoveEvent(s) PROVE RunnerTypes'
  BY <1>10 DEF RemoveEvent, Remove, Drop
<1>11. ASSUME NEW s \in Sessions, Leaves(s) PROVE RunnerTypes'
  BY <1>11 DEF Leaves, Destroy, MayDestroy
<1>12. ASSUME NEW n \in Nodes, CancelTree(n) PROVE RunnerTypes'
  BY <1>12 DEF CancelTree
<1>13. CASE PivotLock
  BY <1>13 DEF PivotLock
<1>14. CASE PivotCancel
  BY <1>14 DEF PivotCancel
<1>15. CASE Top
  BY <1>15, PickTypes DEF Top
<1>16. CASE Yield
  BY <1>16, PickTypes DEF Yield
<1>17. CASE SleepEnds
  BY <1>17 DEF SleepEnds
<1>18. CASE RunnerSpuriousWakeup
  BY <1>18 DEF RunnerSpuriousWakeup
<1>19. CASE RunReturns
  BY <1>19 DEF RunReturns
<1>20. CASE RunStops
  BY <1>20 DEF RunStops
<1>21. CASE Trigger
  BY <1>21 DEF Trigger
<1>22. CASE RunThrows
  BY <1>22 DEF RunThrows
<1>23. CASE CancelReturned
  BY <1>23 DEF CancelReturned
<1>24. CASE Stop
  BY <1>24 DEF Stop
<1>25. CASE Construct
  BY <1>25 DEF Construct, Attach
<1>26. CASE Detach
  BY <1>26 DEF Detach, Destroy, MayDestroy
<1>27. CASE StopThread
  BY <1>27 DEF StopThread
<1>28. CASE NotifyThread
  BY <1>28 DEF NotifyThread
<1>29. CASE Join
  BY <1>29 DEF Join
<1>30. ASSUME NEW id \in 1 .. Cardinality(Callbacks), Time(id) PROVE RunnerTypes'
  <2>1. PICK i \in DOMAIN m_schedule :
            m_schedule' = [j \in DOMAIN m_schedule |->
                              IF j <= i THEN [m_schedule[j] EXCEPT !.due = TRUE] ELSE m_schedule[j]]
    BY <1>30 DEF Time
  <2>2. DOMAIN m_schedule = 1 .. Len(m_schedule) /\ Len(m_schedule) \in Nat
    OBVIOUS
  <2>3. \A j \in DOMAIN m_schedule : [m_schedule[j] EXCEPT !.due = TRUE] \in Entries /\ m_schedule[j] \in Entries
    <3>1. \A e \in Entries : [e EXCEPT !.due = TRUE] \in Entries
      BY DEF Entries
    <3> QED
      BY <2>2, <3>1
  <2>4. m_schedule' \in [1 .. Len(m_schedule) -> Entries]
    BY <2>1, <2>2, <2>3
  <2>5. m_schedule' \in Seq(Entries)
    BY SMTT(20), <2>2, <2>4
  <2> QED
    BY <1>30, <2>5 DEF Time
<1>31. CASE UNCHANGED pvars
  BY <1>31 DEF pvars
<1>32. ASSUME NEW n \in Nodes, CommandsStopped(n) PROVE RunnerTypes'
  BY <1>32 DEF CommandsStopped
<1> QED
  BY <1>1, <1>2, <1>3, <1>4, <1>5, <1>6, <1>7, <1>8, <1>9, <1>10, <1>11, <1>12, <1>13, <1>14, <1>15, <1>16,
     <1>17, <1>18, <1>19, <1>20, <1>21, <1>22, <1>23, <1>24, <1>25, <1>26, <1>27, <1>28, <1>29, <1>30, <1>31, <1>32
  DEF PivotNext, SessionStep, RunnerStep, RunStep, CancelSteps, DestructorStep

\* What the calls of a session do to the map, the lists and the events.
LEMMA AddCallbackEffect ==
  ASSUME NEW s \in Sessions, AddCallback(s)
  PROVE  /\ UNCHANGED <<m_events, m_callback_id, runner, current>>
         /\ \A t \in Sessions : ~ InPivot(t)
         /\ \E c \in CallbacksOf(s) \ listed[s] :
               /\ listed' = [listed EXCEPT ![s] = @ \cup {c}]
               /\ \/ where' = [where EXCEPT ![s] = "remove"] /\ UNCHANGED <<calling, m_map>>
                  \/ /\ where' = [where EXCEPT ![s] = "adding"]
                     /\ calling' = [calling EXCEPT ![s] = c]
                     /\ \E a \in Heap[c] : /\ \A d \in Callbacks : m_map[d] # a
                                           /\ m_map' = [m_map EXCEPT ![c] = a]
<1>1. PICK c \in CallbacksOf(s) \ listed[s] :
          /\ listed' = [listed EXCEPT ![s] = @ \cup {c}]
          /\ IF cancelled[Pivot]
             THEN Goto(s, "remove") /\ UNCHANGED <<calling, m_map>>
             ELSE /\ Goto(s, "adding")
                  /\ calling' = [calling EXCEPT ![s] = c]
                  /\ \E a \in Heap[c] \ {m_map[d] : d \in Callbacks} : m_map' = [m_map EXCEPT ![c] = a]
  BY Zenon DEF AddCallback
<1>2. \A a \in Heap[c] \ {m_map[d] : d \in Callbacks} : \A d \in Callbacks : m_map[d] # a
  OBVIOUS
<1>3. \/ where' = [where EXCEPT ![s] = "remove"] /\ UNCHANGED <<calling, m_map>>
      \/ /\ where' = [where EXCEPT ![s] = "adding"]
         /\ calling' = [calling EXCEPT ![s] = c]
         /\ \E a \in Heap[c] : (\A d \in Callbacks : m_map[d] # a) /\ m_map' = [m_map EXCEPT ![c] = a]
  BY <1>1, <1>2 DEF Goto
<1>4. UNCHANGED <<m_events, m_callback_id, runner, current>> /\ \A t \in Sessions : ~ InPivot(t)
  BY DEF AddCallback, PivotFree, scheduleVars, runnerVars
<1> QED
  BY <1>1, <1>3, <1>4

LEMMA RemoveCallbackEffect ==
  ASSUME NEW s \in Sessions, RemoveCallback(s)
  PROVE  /\ UNCHANGED <<m_map, m_events, m_callback_id, runner, current>>
         /\ \A t \in Sessions : ~ InPivot(t)
         /\ where[s] = "remove"
         /\ \E c \in listed[s] :
               \/ m_map[c] = NoAddress /\ listed' = [listed EXCEPT ![s] = @ \ {c}] /\ UNCHANGED <<where, calling>>
               \/ /\ m_map[c] # NoAddress
                  /\ where' = [where EXCEPT ![s] = "removing"]
                  /\ calling' = [calling EXCEPT ![s] = c]
                  /\ listed' = listed
<1>1. PICK c \in listed[s] :
          IF m_map[c] = NoAddress
          THEN listed' = [listed EXCEPT ![s] = @ \ {c}] /\ UNCHANGED <<where, calling>>
          ELSE /\ Goto(s, "removing")
               /\ calling' = [calling EXCEPT ![s] = c]
               /\ UNCHANGED listed
  BY Zenon DEF RemoveCallback
<1>2. /\ UNCHANGED <<m_map, m_events, m_callback_id, runner, current>>
      /\ \A t \in Sessions : ~ InPivot(t)
      /\ where[s] = "remove"
  BY DEF RemoveCallback, PivotFree, scheduleVars, runnerVars
<1> QED
  BY <1>1, <1>2 DEF Goto

LEMMA RemoveEventEffect ==
  ASSUME NEW s \in Sessions, PivotTypeOK, MapFacts, RemoveEvent(s)
  PROVE  \E c \in Callbacks :
            /\ c = calling[s] /\ c \in listed[s] /\ ScopeOf[c] = s /\ m_map[c] \in Addresses
            /\ m_map' = [m_map EXCEPT ![c] = NoAddress]
            /\ listed' = [listed EXCEPT ![s] = @ \ {c}]
            /\ calling' = [calling EXCEPT ![s] = NoCallback]
            /\ where[s] = "removing" /\ where' = [where EXCEPT ![s] = "remove"]
            /\ m_events' = [m_events EXCEPT ![m_map[c]] = 0]
            /\ ~ Running /\ UNCHANGED <<vars, m_triggered, m_callback_id, current>>
<1>1. where[s] = "removing" /\ ~ Running /\ Remove(s)
  BY DEF RemoveEvent, LockFree
<1>2. calling[s] \in listed[s] /\ m_map[calling[s]] # NoAddress
  BY <1>1 DEF MapFacts, CallIsListed, InPivot
<1>3. listed[s] \subseteq Callbacks
  BY DEF PivotTypeOK, SessionTypes
<1>4. calling[s] \in Callbacks /\ ScopeOf[calling[s]] = s
  BY <1>2, <1>3 DEF MapFacts, ListedAreOwn
<1>5. m_map[calling[s]] \in Addresses
  BY <1>2, <1>4 DEF PivotTypeOK, SessionTypes
<1>6. /\ m_map' = [m_map EXCEPT ![calling[s]] = NoAddress]
      /\ listed' = [listed EXCEPT ![s] = @ \ {calling[s]}]
      /\ calling' = [calling EXCEPT ![s] = NoCallback]
      /\ where' = [where EXCEPT ![s] = "remove"]
      /\ UNCHANGED <<vars, m_triggered, m_callback_id, current>>
      /\ m_events' = [m_events EXCEPT ![m_map[calling[s]]] = 0]
  BY <1>1 DEF Remove, Goto, SessionOnly, Drop
<1> QED
  BY <1>1, <1>2, <1>4, <1>5, <1>6

LEMMA AddCallbackMap ==
  ASSUME NEW s \in Sessions, PivotTypeOK, MapFacts, AddCallback(s)
  PROVE  MapFacts'
<1> USE InferencePivotAssumption DEF SessionTypes, RunnerTypes, PivotTypeOK
<1>1. m_events' = m_events /\ \A t \in Sessions : ~ InPivot(t)
  BY AddCallbackEffect
<1>2. PICK c \in CallbacksOf(s) \ listed[s] :
         /\ listed' = [listed EXCEPT ![s] = @ \cup {c}]
         /\ \/ where' = [where EXCEPT ![s] = "remove"] /\ UNCHANGED <<calling, m_map>>
            \/ /\ where' = [where EXCEPT ![s] = "adding"]
               /\ calling' = [calling EXCEPT ![s] = c]
               /\ \E a \in Heap[c] : /\ \A d \in Callbacks : m_map[d] # a
                                     /\ m_map' = [m_map EXCEPT ![c] = a]
  BY AddCallbackEffect
<1>3. c \in Callbacks /\ ScopeOf[c] = s /\ Heap[c] \subseteq Addresses /\ c \notin listed[s]
  BY DEF CallbacksOf, Addresses
<1>4. m_map[c] = NoAddress
  BY <1>3 DEF MapFacts, MappedIsListed
<1>5. ListedAreOwn'
  BY <1>2, <1>3 DEF MapFacts, ListedAreOwn
<1>6. CASE where' = [where EXCEPT ![s] = "remove"] /\ UNCHANGED <<calling, m_map>>
  <2>1. CallIsListed'
    BY <1>1, <1>6 DEF CallIsListed, InPivot
  <2>2. MappedIsListed' /\ MapIsInjective' /\ EventIsMapped'
    BY <1>1, <1>2, <1>6 DEF MapFacts, MappedIsListed, MapIsInjective, EventIsMapped
  <2> QED
    BY <1>5, <2>1, <2>2 DEF MapFacts
<1>7. ASSUME NEW a \in Heap[c], \A d \in Callbacks : m_map[d] # a, m_map' = [m_map EXCEPT ![c] = a],
             where' = [where EXCEPT ![s] = "adding"], calling' = [calling EXCEPT ![s] = c]
      PROVE  MapFacts'
  <2>1. a \in Addresses /\ a # NoAddress
    BY <1>3
  <2>2. CallIsListed'
    BY <1>1, <1>2, <1>3, <1>7, <2>1 DEF CallIsListed, InPivot
  <2>3. MappedIsListed'
    BY <1>2, <1>3, <1>7 DEF MapFacts, MappedIsListed
  <2>4. MapIsInjective'
    BY <1>3, <1>7 DEF MapFacts, MapIsInjective
  <2>5. EventIsMapped'
    <3>1. \A b \in Addresses, d \in Callbacks : m_map[d] = b => m_map'[d] = b
      BY <1>3, <1>4, <1>7
    <3> QED
      BY <1>1, <3>1 DEF MapFacts, EventIsMapped
  <2> QED
    BY <1>5, <2>2, <2>3, <2>4, <2>5 DEF MapFacts
<1> QED
  BY <1>2, <1>6, <1>7

LEMMA RemoveCallbackMap ==
  ASSUME NEW s \in Sessions, PivotTypeOK, MapFacts, RemoveCallback(s)
  PROVE  MapFacts'
<1> USE InferencePivotAssumption DEF SessionTypes, RunnerTypes, PivotTypeOK
<1>1. UNCHANGED <<m_map, m_events>> /\ \A t \in Sessions : ~ InPivot(t)
  BY RemoveCallbackEffect
<1>2. PICK c \in listed[s] :
         \/ m_map[c] = NoAddress /\ listed' = [listed EXCEPT ![s] = @ \ {c}] /\ UNCHANGED <<where, calling>>
         \/ /\ m_map[c] # NoAddress
            /\ where' = [where EXCEPT ![s] = "removing"]
            /\ calling' = [calling EXCEPT ![s] = c]
            /\ listed' = listed
  BY RemoveCallbackEffect
<1>3. c \in Callbacks /\ ScopeOf[c] = s
  BY DEF MapFacts, ListedAreOwn
<1>4. ListedAreOwn'
  <2>1. \A t \in Sessions : listed'[t] \subseteq listed[t]
    BY SMTT(20), <1>2
  <2> QED
    BY <2>1 DEF MapFacts, ListedAreOwn
<1>5. CallIsListed'
  BY <1>1, <1>2, <1>3 DEF CallIsListed, InPivot
<1>6. MappedIsListed'
  BY <1>1, <1>2, <1>3 DEF MapFacts, MappedIsListed
<1>7. MapIsInjective' /\ EventIsMapped'
  BY <1>1 DEF MapFacts, MapIsInjective, EventIsMapped
<1> QED
  BY <1>4, <1>5, <1>6, <1>7 DEF MapFacts

LEMMA RemoveEventMap ==
  ASSUME NEW s \in Sessions, PivotTypeOK, MapFacts, RemoveEvent(s)
  PROVE  MapFacts'
<1>1. PICK c \in Callbacks :
         /\ c = calling[s] /\ c \in listed[s] /\ ScopeOf[c] = s /\ m_map[c] \in Addresses
         /\ m_map' = [m_map EXCEPT ![c] = NoAddress]
         /\ listed' = [listed EXCEPT ![s] = @ \ {c}]
         /\ calling' = [calling EXCEPT ![s] = NoCallback]
         /\ where[s] = "removing" /\ where' = [where EXCEPT ![s] = "remove"]
         /\ m_events' = [m_events EXCEPT ![m_map[c]] = 0]
  BY RemoveEventEffect
<1> USE InferencePivotAssumption DEF SessionTypes, RunnerTypes, PivotTypeOK
<1>2. ListedAreOwn'
  <2>1. \A t \in Sessions : listed'[t] \subseteq listed[t]
    BY SMTT(20), <1>1
  <2> QED
    BY <2>1 DEF MapFacts, ListedAreOwn
<1>3. CallIsListed'
  <2>1. ASSUME NEW t \in Sessions, InPivot(t)' PROVE calling'[t] \in listed'[t] /\ m_map'[calling'[t]] # NoAddress
    <3>1. t # s /\ InPivot(t) /\ calling'[t] = calling[t] /\ listed'[t] = listed[t]
      BY <1>1, <2>1 DEF InPivot
    <3>2. calling[t] \in listed[t] /\ m_map[calling[t]] # NoAddress
      BY <3>1 DEF MapFacts, CallIsListed
    <3>3. ScopeOf[calling[t]] = t /\ calling[t] \in Callbacks
      BY <3>2 DEF MapFacts, ListedAreOwn
    <3>4. calling[t] # c
      BY <1>1, <3>1, <3>3
    <3> QED
      BY <1>1, <3>1, <3>2, <3>3, <3>4
  <2> QED
    BY <2>1 DEF CallIsListed
<1>4. MappedIsListed'
  BY <1>1 DEF MapFacts, MappedIsListed
<1>5. MapIsInjective'
  BY <1>1 DEF MapFacts, MapIsInjective
<1>6. EventIsMapped'
  <2>1. ASSUME NEW a \in Addresses, m_events'[a] # 0 PROVE \E d \in Callbacks : m_map'[d] = a
    <3>1. m_events[a] # 0 /\ a # m_map[c]
      BY <1>1, <2>1
    <3>2. PICK d \in Callbacks : m_map[d] = a
      BY <3>1 DEF MapFacts, EventIsMapped
    <3>3. d # c
      BY <3>1, <3>2
    <3> QED
      BY <1>1, <3>2, <3>3
  <2> QED
    BY <2>1 DEF EventIsMapped
<1> QED
  BY <1>2, <1>3, <1>4, <1>5, <1>6 DEF MapFacts

\* The map of the pivot, the lists of its sessions and the events of its runner agree.
LEMMA MapFactsStep ==
  ASSUME PivotTypeOK, MapFacts, RunsLive, [PivotNext]_pvars
  PROVE  MapFacts'
<1> USE InferencePivotAssumption, CancellableScopeAssumption DEF PivotTypeOK, SessionTypes, RunnerTypes, MapFacts, ListedAreOwn, CallIsListed, MappedIsListed, MapIsInjective, EventIsMapped, sessionVars, pivotVars, Goto, SessionOnly, RunnerOnly, DestructorOnly, scheduleVars, runnerVars, InPivot
<1>1. ASSUME NEW s \in Sessions, Enter(s) PROVE MapFacts'
  BY <1>1 DEF Enter, Attach
<1>2. ASSUME NEW s \in Sessions, AddCallback(s) PROVE MapFacts'
  BY <1>2, AddCallbackMap
<1>3. ASSUME NEW s \in Sessions, AddEvent(s) PROVE MapFacts'
  <2> DEFINE c == calling[s]
  <2>1. /\ c \in listed[s] /\ c \in Callbacks /\ m_map[c] \in Addresses
        /\ UNCHANGED <<listed, m_map>>
        /\ m_events' = [m_events EXCEPT ![m_map[c]] = m_callback_id]
    BY <1>3 DEF AddEvent, Add
  <2>2. \A t \in Sessions \ {s} : calling'[t] = calling[t] /\ where'[t] = where[t]
    BY <1>3 DEF AddEvent
  <2>3. where'[s] \in {"inside", "add"}
    BY <1>3 DEF AddEvent
  <2>4. ListedAreOwn' /\ MappedIsListed' /\ MapIsInjective'
    BY <2>1
  <2>5. CallIsListed'
    <3>1. ASSUME NEW t \in Sessions, where'[t] \in {"adding", "removing"}
          PROVE  calling'[t] \in listed[t] /\ m_map[calling'[t]] # NoAddress
      BY <2>2, <2>3, <3>1
    <3> QED
      BY <2>1, <3>1
  <2>6. EventIsMapped'
    BY <2>1
  <2> QED
    BY <2>4, <2>5, <2>6
<1>4. ASSUME NEW s \in Sessions, Wait(s) PROVE MapFacts'
  BY <1>4 DEF Wait, CallWait
<1>5. ASSUME NEW s \in Sessions, WaitEnds(s) PROVE MapFacts'
  BY <1>5 DEF WaitEnds, WaitCheck
<1>6. ASSUME NEW s \in Sessions, WaitPasses(s) PROVE MapFacts'
  BY <1>6 DEF WaitPasses, WaitTimeout, SpuriousWakeup
<1>7. ASSUME NEW s \in Sessions, CommandEnds(s) PROVE MapFacts'
  BY <1>7 DEF CommandEnds
<1>8. ASSUME NEW s \in Sessions, Return(s) PROVE MapFacts'
  BY <1>8 DEF Return
<1>9. ASSUME NEW s \in Sessions, RemoveCallback(s) PROVE MapFacts'
  BY <1>9, RemoveCallbackMap
<1>10. ASSUME NEW s \in Sessions, RemoveEvent(s) PROVE MapFacts'
  BY <1>10, RemoveEventMap
<1>11. ASSUME NEW s \in Sessions, Leaves(s) PROVE MapFacts'
  BY <1>11 DEF Leaves, Destroy, MayDestroy
<1>12. ASSUME NEW n \in Nodes, CancelTree(n) PROVE MapFacts'
  BY <1>12 DEF CancelTree
<1>13. CASE PivotLock
  BY <1>13 DEF PivotLock
<1>14. CASE PivotCancel
  BY <1>14 DEF PivotCancel
<1>15. CASE Top
  BY <1>15 DEF Top, Pick
<1>16. CASE Yield
  BY <1>16 DEF Yield, Pick
<1>17. CASE SleepEnds
  BY <1>17 DEF SleepEnds
<1>18. CASE RunnerSpuriousWakeup
  BY <1>18 DEF RunnerSpuriousWakeup
<1>19. CASE RunReturns
  BY <1>19 DEF RunReturns
<1>20. CASE RunStops
  BY <1>20 DEF RunStops
<1>21. CASE Trigger
  BY <1>21 DEF Trigger
<1>22. CASE RunThrows
  BY <1>22 DEF RunThrows
<1>23. CASE CancelReturned
  BY <1>23 DEF CancelReturned
<1>24. CASE Stop
  BY <1>24 DEF Stop
<1>25. CASE Construct
  BY <1>25 DEF Construct, Attach
<1>26. CASE Detach
  BY <1>26 DEF Detach, Destroy, MayDestroy
<1>27. CASE StopThread
  BY <1>27 DEF StopThread
<1>28. CASE NotifyThread
  BY <1>28 DEF NotifyThread
<1>29. CASE Join
  BY <1>29 DEF Join
<1>30. ASSUME NEW id \in 1 .. Cardinality(Callbacks), Time(id) PROVE MapFacts'
  BY <1>30 DEF Time
<1>31. CASE UNCHANGED pvars
  BY <1>31 DEF pvars
<1>32. ASSUME NEW n \in Nodes, CommandsStopped(n) PROVE MapFacts'
  BY <1>32 DEF CommandsStopped
<1> QED
  BY <1>1, <1>2, <1>3, <1>4, <1>5, <1>6, <1>7, <1>8, <1>9, <1>10, <1>11, <1>12, <1>13, <1>14, <1>15, <1>16,
     <1>17, <1>18, <1>19, <1>20, <1>21, <1>22, <1>23, <1>24, <1>25, <1>26, <1>27, <1>28, <1>29, <1>30, <1>31, <1>32
  DEF PivotNext, SessionStep, RunnerStep, RunStep, CancelSteps, DestructorStep

LEMMA RemoveCallbackBirth ==
  ASSUME NEW s \in Sessions, PivotTypeOK, TypeOK, BirthIsKnown, ParentIsInside, RemoveCallback(s)
  PROVE  BirthIsKnown' /\ ParentIsInside'
<1>1. UNCHANGED life
  BY DEF RemoveCallback, vars
<1>2. PICK c \in listed[s] : listed' = listed \/ listed' = [listed EXCEPT ![s] = @ \ {c}]
  BY RemoveCallbackEffect
<1>3. \A t \in Sessions : listed'[t] \subseteq listed[t]
  BY <1>2 DEF PivotTypeOK, SessionTypes
<1>4. where[s] = "remove" /\ (where' = where \/ where' = [where EXCEPT ![s] = "removing"])
  BY RemoveCallbackEffect
<1>5. \A t \in Sessions : where'[t] = where[t] \/ (t = s /\ where'[t] = "removing")
  BY <1>4 DEF PivotTypeOK, SessionTypes
<1>6. BirthIsKnown'
  BY <1>1, <1>3, <1>4, <1>5 DEF BirthIsKnown
<1>7. ParentIsInside'
  BY <1>1, <1>4, <1>5 DEF ParentIsInside
<1> QED
  BY <1>6, <1>7

\* A scope exists while its session goes on, and a session below another one only inside it.
LEMMA BirthStep ==
  ASSUME PivotTypeOK, TypeOK, BirthIsKnown, ParentIsInside, [PivotNext]_pvars
  PROVE  (BirthIsKnown /\ ParentIsInside)'
<1> USE InferencePivotAssumption, CancellableScopeAssumption DEF PivotTypeOK, SessionTypes, RunnerTypes, sessionVars, pivotVars, Goto, SessionOnly, RunnerOnly, DestructorOnly, scheduleVars, runnerVars, BirthIsKnown, ParentIsInside, Sessions, vars
<1>1. ASSUME NEW s \in Sessions, Enter(s) PROVE (BirthIsKnown /\ ParentIsInside)'
  BY <1>1 DEF Enter, Attach, Inside, CallbacksOf, TypeOK
<1>2. ASSUME NEW s \in Sessions, AddCallback(s) PROVE (BirthIsKnown /\ ParentIsInside)'
  <2>1. UNCHANGED life
    BY <1>2 DEF AddCallback
  <2>2. where[s] = "add" /\ where'[s] \in {"remove", "adding"}
    BY <1>2 DEF AddCallback
  <2>3. \A t \in Sessions \ {s} : where'[t] = where[t] /\ listed'[t] = listed[t]
    BY <1>2 DEF AddCallback
  <2> QED
    BY <2>1, <2>2, <2>3
<1>3. ASSUME NEW s \in Sessions, AddEvent(s) PROVE (BirthIsKnown /\ ParentIsInside)'
  BY <1>3 DEF AddEvent, TypeOK
<1>4. ASSUME NEW s \in Sessions, Wait(s) PROVE (BirthIsKnown /\ ParentIsInside)'
  BY <1>4 DEF Wait, CallWait, CallWait, TypeOK
<1>5. ASSUME NEW s \in Sessions, WaitEnds(s) PROVE (BirthIsKnown /\ ParentIsInside)'
  BY <1>5 DEF WaitEnds, WaitCheck, WaitCheck, TypeOK
<1>6. ASSUME NEW s \in Sessions, WaitPasses(s) PROVE (BirthIsKnown /\ ParentIsInside)'
  BY <1>6 DEF WaitPasses, WaitTimeout, SpuriousWakeup, WaitTimeout, SpuriousWakeup, TypeOK
<1>7. ASSUME NEW s \in Sessions, CommandEnds(s) PROVE (BirthIsKnown /\ ParentIsInside)'
  BY <1>7 DEF CommandEnds, Inside, Nested, TypeOK
<1>8. ASSUME NEW s \in Sessions, Return(s) PROVE (BirthIsKnown /\ ParentIsInside)'
  BY <1>8 DEF Return, TypeOK
<1>9. ASSUME NEW s \in Sessions, RemoveCallback(s) PROVE (BirthIsKnown /\ ParentIsInside)'
  BY <1>9, RemoveCallbackBirth
<1>10. ASSUME NEW s \in Sessions, RemoveEvent(s) PROVE (BirthIsKnown /\ ParentIsInside)'
  BY <1>10 DEF RemoveEvent, Remove, TypeOK
<1>11. ASSUME NEW s \in Sessions, Leaves(s) PROVE (BirthIsKnown /\ ParentIsInside)'
  BY <1>11 DEF Leaves, Destroy, MayDestroy, Over, ChildrenOf, TypeOK
<1>12. ASSUME NEW n \in Nodes, CancelTree(n) PROVE (BirthIsKnown /\ ParentIsInside)'
  BY <1>12 DEF CancelTree, CancelStep, CancelLock, CancelChild, CancelReturn, TypeOK
<1>13. CASE PivotLock
  BY <1>13 DEF PivotLock, CancelLock, TypeOK
<1>14. CASE PivotCancel
  BY <1>14 DEF PivotCancel, CancelReturn, TypeOK
<1>15. CASE Top
  BY <1>15 DEF Top, TypeOK
<1>16. CASE Yield
  BY <1>16 DEF Yield, TypeOK
<1>17. CASE SleepEnds
  BY <1>17 DEF SleepEnds, TypeOK
<1>18. CASE RunnerSpuriousWakeup
  BY <1>18 DEF RunnerSpuriousWakeup, TypeOK
<1>19. CASE RunReturns
  BY <1>19 DEF RunReturns, TypeOK
<1>20. CASE RunStops
  BY <1>20 DEF RunStops, TypeOK
<1>21. CASE Trigger
  BY <1>21 DEF Trigger, CallCancel, TypeOK
<1>22. CASE RunThrows
  BY <1>22 DEF RunThrows, CallCancel, TypeOK
<1>23. CASE CancelReturned
  BY <1>23 DEF CancelReturned, TypeOK
<1>24. CASE Stop
  BY <1>24 DEF Stop, CallCancel, TypeOK
<1>25. CASE Construct
  BY <1>25 DEF Construct, Attach, Attach, TypeOK
<1>26. CASE Detach
  BY <1>26 DEF Detach, Destroy, MayDestroy, TypeOK
<1>27. CASE StopThread
  BY <1>27 DEF StopThread, TypeOK
<1>28. CASE NotifyThread
  BY <1>28 DEF NotifyThread, TypeOK
<1>29. CASE Join
  BY <1>29 DEF Join, TypeOK
<1>30. ASSUME NEW id \in 1 .. Cardinality(Callbacks), Time(id) PROVE (BirthIsKnown /\ ParentIsInside)'
  BY <1>30 DEF Time
<1>31. CASE UNCHANGED pvars
  BY <1>31 DEF pvars
<1>32. ASSUME NEW n \in Nodes, CommandsStopped(n) PROVE (BirthIsKnown /\ ParentIsInside)'
  BY <1>32 DEF CommandsStopped
<1> QED
  BY <1>1, <1>2, <1>3, <1>4, <1>5, <1>6, <1>7, <1>8, <1>9, <1>10, <1>11, <1>12, <1>13, <1>14, <1>15, <1>16,
     <1>17, <1>18, <1>19, <1>20, <1>21, <1>22, <1>23, <1>24, <1>25, <1>26, <1>27, <1>28, <1>29, <1>30, <1>31, <1>32
  DEF PivotNext, SessionStep, RunnerStep, RunStep, CancelSteps, DestructorStep

LEMMA PickRuns ==
  ASSUME RunnerTypes, Pick
  PROVE  /\ m_events' = m_events
         /\ runner' = "run" => current' \in Entries /\ m_events[current'.event] = current'.id
         /\ runner' \in {"run", "exited", "sleep"}
<1> DEFINE due == {i \in DOMAIN m_schedule : m_schedule[i].due /\ Live(m_schedule[i])}
<1>1. CASE due # {}
  <2>1. PICK i \in due : current' = m_schedule[i] /\ runner' = "run"
    BY <1>1 DEF Pick
  <2>2. m_schedule[i] \in Entries
    BY DEF RunnerTypes
  <2> QED
    BY <2>1, <2>2 DEF Live, Pick
<1>2. CASE due = {}
  BY <1>2 DEF Pick
<1> QED
  BY <1>1, <1>2

\* Nothing is added or removed while the runner runs a callback.
LEMMA RunsLiveStep ==
  ASSUME PivotTypeOK, RunsLive, [PivotNext]_pvars
  PROVE  RunsLive'
<1> USE InferencePivotAssumption, CancellableScopeAssumption DEF PivotTypeOK, SessionTypes, RunnerTypes, sessionVars, pivotVars, Goto, SessionOnly, RunnerOnly, DestructorOnly, scheduleVars, runnerVars, RunsLive, Live, Running
<1>1. ASSUME NEW s \in Sessions, Enter(s) PROVE RunsLive'
  BY <1>1 DEF Enter, Attach
<1>2. ASSUME NEW s \in Sessions, AddCallback(s) PROVE RunsLive'
  BY <1>2 DEF AddCallback
<1>3. ASSUME NEW s \in Sessions, AddEvent(s) PROVE RunsLive'
  BY <1>3 DEF AddEvent, LockFree, Running, notify
<1>4. ASSUME NEW s \in Sessions, Wait(s) PROVE RunsLive'
  BY <1>4 DEF Wait, CallWait, CallWait
<1>5. ASSUME NEW s \in Sessions, WaitEnds(s) PROVE RunsLive'
  BY <1>5 DEF WaitEnds, WaitCheck, WaitCheck
<1>6. ASSUME NEW s \in Sessions, WaitPasses(s) PROVE RunsLive'
  BY <1>6 DEF WaitPasses, WaitTimeout, SpuriousWakeup, WaitTimeout, SpuriousWakeup
<1>7. ASSUME NEW s \in Sessions, CommandEnds(s) PROVE RunsLive'
  BY <1>7 DEF CommandEnds
<1>8. ASSUME NEW s \in Sessions, Return(s) PROVE RunsLive'
  BY <1>8 DEF Return
<1>9. ASSUME NEW s \in Sessions, RemoveCallback(s) PROVE RunsLive'
  BY <1>9 DEF RemoveCallback
<1>10. ASSUME NEW s \in Sessions, RemoveEvent(s) PROVE RunsLive'
  BY <1>10 DEF RemoveEvent, Remove, LockFree, Running, notify
<1>11. ASSUME NEW s \in Sessions, Leaves(s) PROVE RunsLive'
  BY <1>11 DEF Leaves, Destroy, MayDestroy
<1>12. ASSUME NEW n \in Nodes, CancelTree(n) PROVE RunsLive'
  BY <1>12 DEF CancelTree, CancelStep, CancelLock, CancelChild, CancelReturn
<1>13. CASE PivotLock
  BY <1>13 DEF PivotLock, CancelLock
<1>14. CASE PivotCancel
  BY <1>14 DEF PivotCancel, notify
<1>15. CASE Top
  BY <1>15, PickRuns DEF Top
<1>16. CASE Yield
  BY <1>16, PickRuns DEF Yield
<1>17. CASE SleepEnds
  BY <1>17 DEF SleepEnds
<1>18. CASE RunnerSpuriousWakeup
  BY <1>18 DEF RunnerSpuriousWakeup, notify
<1>19. CASE RunReturns
  BY <1>19 DEF RunReturns
<1>20. CASE RunStops
  BY <1>20 DEF RunStops
<1>21. CASE Trigger
  BY <1>21 DEF Trigger, CallCancel
<1>22. CASE RunThrows
  BY <1>22 DEF RunThrows, CallCancel
<1>23. CASE CancelReturned
  BY <1>23 DEF CancelReturned
<1>24. CASE Stop
  BY <1>24 DEF Stop, CallCancel
<1>25. CASE Construct
  BY <1>25 DEF Construct, Attach
<1>26. CASE Detach
  BY <1>26 DEF Detach, Destroy, MayDestroy
<1>27. CASE StopThread
  BY <1>27 DEF StopThread
<1>28. CASE NotifyThread
  BY <1>28 DEF NotifyThread, notify
<1>29. CASE Join
  BY <1>29 DEF Join
<1>30. ASSUME NEW id \in 1 .. Cardinality(Callbacks), Time(id) PROVE RunsLive'
  BY <1>30 DEF Time
<1>31. CASE UNCHANGED pvars
  BY <1>31 DEF pvars
<1>32. ASSUME NEW n \in Nodes, CommandsStopped(n) PROVE RunsLive'
  BY <1>32 DEF CommandsStopped
<1> QED
  BY <1>1, <1>2, <1>3, <1>4, <1>5, <1>6, <1>7, <1>8, <1>9, <1>10, <1>11, <1>12, <1>13, <1>14, <1>15, <1>16,
     <1>17, <1>18, <1>19, <1>20, <1>21, <1>22, <1>23, <1>24, <1>25, <1>26, <1>27, <1>28, <1>29, <1>30, <1>31, <1>32
  DEF PivotNext, SessionStep, RunnerStep, RunStep, CancelSteps, DestructorStep

\* Where the calls of a cancel leave the threads.
LEMMA CancelPlaces ==
  ASSUME TypeOK, NEW n \in Nodes, CancelStep(n)
  PROVE  \A t \in Threads : at'[t] \in {at[t], NoNode}
<1>1. CASE CancelLock(n) \/ CancelChild(n)
  BY <1>1 DEF CancelLock, CancelChild, threadVars
<1>2. CASE CancelReturn(n)
  BY <1>2 DEF CancelReturn, Leave, TypeOK
<1> QED
  BY <1>1, <1>2 DEF CancelStep

LEMMA AddCallbackKeeps ==
  ASSUME NEW s \in Sessions, PivotTypeOK, MapFacts, AddCallback(s)
  PROVE  \A d \in Callbacks : m_map[d] # NoAddress => m_map'[d] = m_map[d]
<1>1. PICK c \in CallbacksOf(s) \ listed[s] : UNCHANGED m_map \/ \E a \in Heap[c] : m_map' = [m_map EXCEPT ![c] = a]
  BY AddCallbackEffect
<1>2. c \in Callbacks /\ ScopeOf[c] = s
  BY DEF CallbacksOf
<1>3. m_map[c] = NoAddress
  BY <1>2 DEF MapFacts, MappedIsListed
<1> QED
  BY <1>1, <1>2, <1>3 DEF PivotTypeOK, SessionTypes

\* Which thread may be in a call of which scope.
LEMMA PlaceStep ==
  ASSUME Inv, PivotTypeOK, MapFacts, ScopeFacts, [PivotNext]_pvars
  PROVE  PlaceFacts'
<1> USE InferencePivotAssumption, CancellableScopeAssumption DEF sessionVars, pivotVars, Goto, SessionOnly, RunnerOnly, DestructorOnly, scheduleVars, runnerVars, PlaceFacts, WaitsInside, StopsAtRoot, RunnerCancels, RunsLive, Running
<1>0. /\ WaitsInside /\ StopsAtRoot /\ RunnerCancels /\ RunsLive
      /\ at \in [Threads -> Nodes \cup {NoNode}] /\ Inv
      /\ \A t \in Threads : pc[t] = "idle" <=> at[t] = NoNode
      /\ where \in [Sessions -> {"unused", "add", "adding", "inside", "caught", "remove", "removing", "over"}]
      /\ Runner \in Threads /\ Stopper \in Threads /\ Sessions \subseteq Threads /\ NoNode \notin Nodes
  BY DEF ScopeFacts, PlaceFacts, Inv, TypeOK, PlaceIsFunction, PivotTypeOK, SessionTypes
<1> USE <1>0
<1>1. ASSUME NEW s \in Sessions, Enter(s) PROVE PlaceFacts'
  BY <1>1 DEF Enter, Attach, vars, threadVars
<1>2. ASSUME NEW s \in Sessions, AddCallback(s) PROVE PlaceFacts'
  <2>1. UNCHANGED <<at, runner, current>> /\ \A d \in Callbacks : m_map[d] # NoAddress => m_map'[d] = m_map[d]
    BY <1>2, AddCallbackEffect, AddCallbackKeeps DEF AddCallback, vars, threadVars
  <2>2. where[s] = "add" /\ \A t \in Sessions \ {s} : where'[t] = where[t]
    BY <1>2 DEF AddCallback
  <2>3. at[Runner] # NoNode => current.event # NoAddress
    BY DEF Entries
  <2> QED
    BY <2>1, <2>2, <2>3
<1>3. ASSUME NEW s \in Sessions, AddEvent(s) PROVE PlaceFacts'
  <2>1. UNCHANGED at /\ where[s] = "adding" /\ \A t \in Sessions \ {s} : where'[t] = where[t]
    BY <1>3 DEF AddEvent, vars, threadVars
  <2>2. at[Runner] = NoNode
    BY <1>3 DEF AddEvent, LockFree
  <2> QED
    BY <2>1, <2>2
<1>4. ASSUME NEW s \in Sessions, Wait(s) PROVE PlaceFacts'
  BY <1>4 DEF Wait, CallWait, CallWait, Inside, vars, threadVars
<1>5. ASSUME NEW s \in Sessions, WaitEnds(s) PROVE PlaceFacts'
  BY <1>5 DEF WaitEnds, WaitCheck, vars, threadVars
<1>6. ASSUME NEW s \in Sessions, WaitPasses(s) PROVE PlaceFacts'
  BY <1>6 DEF WaitPasses, WaitTimeout, SpuriousWakeup, vars, threadVars
<1>7. ASSUME NEW s \in Sessions, CommandEnds(s) PROVE PlaceFacts'
  <2>1. at[s] = NoNode
    BY <1>7 DEF CommandEnds, Inside
  <2>2. \A t \in Sessions \ {s} : where'[t] = where[t]
    BY <1>7 DEF CommandEnds
  <2>3. UNCHANGED <<at, runner, m_map, current>>
    BY <1>7 DEF CommandEnds, vars, threadVars
  <2>4. s # NoNode
    BY DEF Sessions
  <2> QED
    BY <2>1, <2>2, <2>3, <2>4
<1>8. ASSUME NEW s \in Sessions, Return(s) PROVE PlaceFacts'
  BY <1>8 DEF Return, vars, threadVars
<1>9. ASSUME NEW s \in Sessions, RemoveCallback(s) PROVE PlaceFacts'
  <2>1. UNCHANGED <<at, runner, current, m_map>>
    BY <1>9, RemoveCallbackEffect DEF RemoveCallback, vars, threadVars
  <2>2. where[s] = "remove" /\ \A t \in Sessions \ {s} : where'[t] = where[t]
    BY <1>9, RemoveCallbackEffect
  <2> QED
    BY <2>1, <2>2
<1>10. ASSUME NEW s \in Sessions, RemoveEvent(s) PROVE PlaceFacts'
  <2>1. UNCHANGED at /\ where[s] = "removing" /\ where' = [where EXCEPT ![s] = "remove"]
    BY <1>10 DEF RemoveEvent, Remove, vars, threadVars
  <2>2. at[Runner] = NoNode
    BY <1>10 DEF RemoveEvent, LockFree
  <2> QED
    BY <2>1, <2>2
<1>11. ASSUME NEW s \in Sessions, Leaves(s) PROVE PlaceFacts'
  BY <1>11 DEF Leaves, Destroy, MayDestroy, vars, threadVars
<1>12. ASSUME NEW n \in Nodes, CancelTree(n) PROVE PlaceFacts'
  <2>1. \A t \in Threads : at'[t] \in {at[t], NoNode}
    BY <1>12, CancelPlaces DEF CancelTree, CancelStep, Inv
  <2> QED
    BY <1>12, <2>1 DEF CancelTree
<1>13. CASE PivotLock
  <2>1. \A t \in Threads : at'[t] \in {at[t], NoNode}
    BY <1>13, CancelPlaces DEF PivotLock, CancelStep, Inv
  <2> QED
    BY <1>13, <2>1 DEF PivotLock
<1>14. CASE PivotCancel
  <2>1. \A t \in Threads : at'[t] \in {at[t], NoNode}
    BY <1>14, CancelPlaces DEF PivotCancel, CancelStep, Inv
  <2>2. runner = "cancel" => runner' = "cancel"
    BY <1>14 DEF PivotCancel, notify
  <2> QED
    BY <1>14, <2>1, <2>2 DEF PivotCancel
<1>15. CASE Top
  <2>1. at' = at /\ runner # "cancel" /\ UNCHANGED where
    BY <1>15 DEF Top, vars, threadVars
  <2> QED
    BY <2>1
<1>16. CASE Yield
  <2>1. at' = at /\ runner # "cancel" /\ UNCHANGED where
    BY <1>16 DEF Yield, vars, threadVars
  <2> QED
    BY <2>1
<1>17. CASE SleepEnds
  BY <1>17 DEF SleepEnds, vars, threadVars
<1>18. CASE RunnerSpuriousWakeup
  BY <1>18 DEF RunnerSpuriousWakeup, notify, vars, threadVars
<1>19. CASE RunReturns
  BY <1>19 DEF RunReturns, vars, threadVars
<1>20. CASE RunStops
  BY <1>20 DEF RunStops, vars, threadVars
<1>21. CASE Trigger
  <2>1. Running
    BY <1>21 DEF Trigger
  <2>2. PICK c \in Callbacks : CallbackAt(current.event) = c /\ m_map[c] = current.event /\ ScopeOf[c] \in Sessions
    BY <2>1, CurrentIsMapped DEF ScopeFacts
  <2>3. at' = at \/ at' = [at EXCEPT ![Runner] = ScopeOf[c]]
    BY <1>21, <2>2 DEF Trigger, CallCancel, threadVars
  <2>4. runner' = "cancel" /\ UNCHANGED <<m_map, current, where>>
    BY <1>21 DEF Trigger
  <2> QED
    BY <2>2, <2>3, <2>4
<1>22. CASE RunThrows
  <2>1. Running
    BY <1>22 DEF RunThrows
  <2>2. PICK c \in Callbacks : CallbackAt(current.event) = c /\ m_map[c] = current.event /\ ScopeOf[c] \in Sessions
    BY <2>1, CurrentIsMapped DEF ScopeFacts
  <2>3. at' = at \/ at' = [at EXCEPT ![Runner] = ScopeOf[c]]
    BY <1>22, <2>2 DEF RunThrows, CallCancel, threadVars
  <2>4. runner' = "cancel" /\ UNCHANGED <<m_map, current, where>>
    BY <1>22 DEF RunThrows
  <2> QED
    BY <2>2, <2>3, <2>4
<1>23. CASE CancelReturned
  BY <1>23 DEF CancelReturned, vars, threadVars
<1>24. CASE Stop
  BY <1>24 DEF Stop, CallCancel, vars, threadVars
<1>25. CASE Construct
  BY <1>25 DEF Construct, Attach, vars, threadVars
<1>26. CASE Detach
  BY <1>26 DEF Detach, Destroy, MayDestroy, vars, threadVars
<1>27. CASE StopThread
  BY <1>27 DEF StopThread, vars, threadVars
<1>28. CASE NotifyThread
  BY <1>28 DEF NotifyThread, notify, vars, threadVars
<1>29. CASE Join
  BY <1>29 DEF Join, vars, threadVars
<1>30. ASSUME NEW id \in 1 .. Cardinality(Callbacks), Time(id) PROVE PlaceFacts'
  <2>1. UNCHANGED <<at, where, runner, m_map, current>>
    BY <1>30 DEF Time, vars, threadVars
  <2> QED
    BY <2>1
<1>31. CASE UNCHANGED pvars
  <2>1. UNCHANGED <<at, where, runner, m_map, current>>
    BY <1>31 DEF pvars, vars, threadVars
  <2> QED
    BY <2>1
<1>32. ASSUME NEW n \in Nodes, CommandsStopped(n) PROVE PlaceFacts'
  <2>1. UNCHANGED <<at, where, runner, m_map, current>>
    BY <1>32 DEF CommandsStopped, vars, threadVars
  <2> QED
    BY <2>1
<1> QED
  BY <1>1, <1>2, <1>3, <1>4, <1>5, <1>6, <1>7, <1>8, <1>9, <1>10, <1>11, <1>12, <1>13, <1>14, <1>15, <1>16,
     <1>17, <1>18, <1>19, <1>20, <1>21, <1>22, <1>23, <1>24, <1>25, <1>26, <1>27, <1>28, <1>29, <1>30, <1>31, <1>32
  DEF PivotNext, SessionStep, RunnerStep, RunStep, CancelSteps, DestructorStep

\* Who gets cancelled: the node itself, or a child of a cancelled one.
LEMMA CancelEffect ==
  ASSUME Inv, NEW n \in Nodes, CancelStep(n)
  PROVE  /\ UNCHANGED life
         /\ \A m \in Nodes : /\ cancelled[m] => cancelled'[m]
                             /\ exception[m] # NoException => exception'[m] # NoException
                             /\ cancelled'[m] /\ ~ cancelled[m] =>
                                   life[m] = "attached" /\ m # Root /\ cancelled[Parent[m]]
<1>1. CASE CancelLock(n) \/ CancelReturn(n)
  BY <1>1 DEF CancelLock, CancelReturn
<1>2. CASE CancelChild(n)
  <2>1. stage[n] = "locked" /\ UNCHANGED life
    BY <1>2 DEF CancelChild
  <2>2. PICK c \in todo[n] : Mark(by[n], c, carried[n])
    BY <1>2 DEF CancelChild
  <2>3. c \in Nodes \ {Root} /\ Parent[c] = n /\ life[c] = "attached" /\ cancelled[n]
    BY <2>1 DEF Inv, SetsAreChildren, FlagIsStage
  <2>4. cancelled' = [cancelled EXCEPT ![c] = TRUE]
    BY <2>2, <2>3 DEF Mark, Inv, TypeOK
  <2>5. exception' = exception \/ (exception[c] = NoException /\ exception' = [exception EXCEPT ![c] = carried[n]])
    BY <2>2 DEF Mark
  <2> QED
    BY <2>1, <2>3, <2>4, <2>5 DEF Inv, TypeOK
<1> QED
  BY <1>1, <1>2 DEF CancelStep

LEMMA CallEffect ==
  ASSUME Inv, NEW t \in Threads, NEW n \in Nodes, NEW e \in Exceptions \cup {NoException}, CallCancel(t, n, e)
  PROVE  /\ UNCHANGED life
         /\ life[n] = "attached" /\ (e # NoException => exception'[n] # NoException)
         /\ \A m \in Nodes : /\ cancelled[m] => cancelled'[m]
                             /\ exception[m] # NoException => exception'[m] # NoException
                             /\ cancelled'[m] /\ ~ cancelled[m] => m = n
<1>1. Mark(t, n, e) /\ life[n] = "attached" /\ UNCHANGED life
  BY DEF CallCancel
<1>2. cancelled' = [cancelled EXCEPT ![n] = TRUE]
  BY <1>1 DEF Mark, Inv, TypeOK
<1>3. exception' = IF exception[n] = NoException THEN [exception EXCEPT ![n] = e] ELSE exception
  BY <1>1 DEF Mark
<1> QED
  BY <1>1, <1>2, <1>3 DEF Inv, TypeOK

LEMMA TriggerEffect ==
  ASSUME RunStops
  PROVE  LET c == CallbackAt(current.event)
         IN  m_triggered' = [m_triggered EXCEPT ![ScopeOf[c]] = IF m_triggered[ScopeOf[c]] = NoCallback THEN c
                                                                ELSE m_triggered[ScopeOf[c]]]
BY Zenon DEF RunStops

\* A session is cancelled from above, or a callback has set m_triggered or thrown.
LEMMA CauseStep ==
  ASSUME Inv, PivotTypeOK, MapFacts, ScopeFacts, CauseFacts, [PivotNext]_pvars
  PROVE  CauseFacts'
<1> USE InferencePivotAssumption, CancellableScopeAssumption DEF sessionVars, pivotVars, Goto, SessionOnly, RunnerOnly, DestructorOnly, scheduleVars, runnerVars, vars, CauseFacts, UnbornIsNotCancelled, TriggerIsSet, CaughtIsCancelled, CancelHasCause
<1>0. /\ RunsLive /\ life \in [Nodes -> {"unborn", "attached", "dead"}] /\ cancelled \in [Nodes -> BOOLEAN]
      /\ m_triggered \in [Sessions -> Callbacks \cup {NoCallback}]
      /\ where \in [Sessions -> {"unused", "add", "adding", "inside", "caught", "remove", "removing", "over"}]
      /\ Root \in Nodes /\ Runner \in Threads /\ Stopper \in Threads /\ Sessions \subseteq Nodes \ {Root, Pivot}
      /\ RunnerTypes /\ Inv /\ (\A s \in Sessions : Parent[s] \in Nodes) /\ NoCallback \notin Callbacks
  BY DEF ScopeFacts, Inv, TypeOK, PivotTypeOK, SessionTypes, Sessions
<1> USE <1>0
<1>1. ASSUME NEW s \in Sessions, Enter(s) PROVE CauseFacts'
  <2>1. /\ UNCHANGED <<cancelled, exception, m_triggered, runner, current, m_map>>
        /\ \A n \in Nodes : n # s => life'[n] = life[n]
        /\ life[s] = "unborn" /\ life'[s] # "unborn"
    BY <1>1 DEF Enter, Attach, cancelVars
  <2>2. \A t \in Sessions : where'[t] = "caught" => where[t] = "caught"
    BY <1>1 DEF Enter
  <2> QED
    BY <2>1, <2>2
<1>2. ASSUME NEW s \in Sessions, AddCallback(s) PROVE CauseFacts'
  <2>1. /\ UNCHANGED <<life, cancelled, exception, m_triggered, runner, current>>
        /\ \A d \in Callbacks : m_map[d] # NoAddress => m_map'[d] = m_map[d]
    BY <1>2, AddCallbackEffect, AddCallbackKeeps DEF AddCallback, cancelVars
  <2>2. \A t \in Sessions : where'[t] = "caught" => where[t] = "caught"
    BY <1>2 DEF AddCallback
  <2>3. runner = "trigger" => current.event # NoAddress
    BY DEF Entries, RunsLive, Running
  <2> QED
    BY <2>1, <2>2, <2>3
<1>3. ASSUME NEW s \in Sessions, AddEvent(s) PROVE CauseFacts'
  <2>1. UNCHANGED <<life, cancelled, exception, m_triggered>> /\ runner' # "trigger"
    BY <1>3 DEF AddEvent, LockFree, Running, notify, cancelVars
  <2>2. \A t \in Sessions : where'[t] = "caught" => where[t] = "caught"
    BY <1>3 DEF AddEvent
  <2> QED
    BY <2>1, <2>2
<1>4. ASSUME NEW s \in Sessions, Wait(s) PROVE CauseFacts'
  BY <1>4 DEF Wait, CallWait, cancelVars
<1>5. ASSUME NEW s \in Sessions, WaitEnds(s) PROVE CauseFacts'
  BY <1>5 DEF WaitEnds, WaitCheck, WaitTimeout, SpuriousWakeup, cancelVars
<1>6. ASSUME NEW s \in Sessions, WaitPasses(s) PROVE CauseFacts'
  BY <1>6 DEF WaitPasses, WaitCheck, WaitTimeout, SpuriousWakeup, cancelVars
<1>7. ASSUME NEW s \in Sessions, CommandEnds(s) PROVE CauseFacts'
  <2>1. UNCHANGED <<life, cancelled, exception, m_triggered, runner, current, m_map>>
    BY <1>7 DEF CommandEnds, cancelVars
  <2>2. \A t \in Sessions : where'[t] = "caught" => where[t] = "caught" \/ cancelled[t]
    BY <1>7 DEF CommandEnds
  <2> QED
    BY <2>1, <2>2
<1>8. ASSUME NEW s \in Sessions, Return(s) PROVE CauseFacts'
  <2>1. UNCHANGED <<life, cancelled, exception, m_triggered, runner, current, m_map>>
    BY <1>8 DEF Return, cancelVars
  <2>2. \A t \in Sessions : where'[t] = "caught" => where[t] = "caught"
    BY <1>8 DEF Return
  <2> QED
    BY <2>1, <2>2
<1>9. ASSUME NEW s \in Sessions, RemoveCallback(s) PROVE CauseFacts'
  <2>1. UNCHANGED <<life, cancelled, exception, m_triggered, runner, current, m_map>>
    BY <1>9, RemoveCallbackEffect DEF RemoveCallback, cancelVars
  <2>2. where' = where \/ where' = [where EXCEPT ![s] = "removing"]
    BY <1>9, RemoveCallbackEffect
  <2> QED
    BY <2>1, <2>2
<1>10. ASSUME NEW s \in Sessions, RemoveEvent(s) PROVE CauseFacts'
  <2>1. UNCHANGED <<life, cancelled, exception, m_triggered>> /\ runner' # "trigger"
    BY <1>10 DEF RemoveEvent, Remove, LockFree, Running, notify, cancelVars
  <2>2. \A t \in Sessions : where'[t] = "caught" => where[t] = "caught"
    BY <1>10 DEF RemoveEvent, Remove
  <2> QED
    BY <2>1, <2>2
<1>11. ASSUME NEW s \in Sessions, Leaves(s) PROVE CauseFacts'
  <2>1. /\ UNCHANGED <<cancelled, exception, runner, current, m_map>>
        /\ life' = [life EXCEPT ![s] = "dead"]
        /\ m_triggered' = [m_triggered EXCEPT ![s] = NoCallback]
    BY <1>11 DEF Leaves, Destroy, cancelVars
  <2>2. \A t \in Sessions : where'[t] = "caught" => where[t] = "caught"
    BY <1>11 DEF Leaves
  <2>3. listed[s] = {}
    BY <1>11 DEF Leaves, Over
  <2>4. runner = "trigger" => current.event # NoAddress
    BY DEF Entries, RunsLive, Running
  <2>5. \A c \in Callbacks : m_map[c] # NoAddress => ScopeOf[c] # s
    BY <2>3 DEF MapFacts, MappedIsListed
  <2>6. TriggerIsSet'
    BY <2>1, <2>4, <2>5
  <2>7. UnbornIsNotCancelled' /\ CaughtIsCancelled'
    BY <2>1, <2>2
  <2>8. CancelHasCause'
    BY <2>1
  <2> QED
    BY <2>6, <2>7, <2>8
<1>12. ASSUME NEW n \in Nodes, CancelTree(n) PROVE CauseFacts'
  <2>1. PICK m \in Nodes : CancelStep(m)
    BY <1>12 DEF CancelTree, CancelStep
  <2>2. UNCHANGED <<m_triggered, where, current, m_map>> /\ (runner' = "trigger" => runner = "trigger")
    BY <1>12 DEF CancelTree, notify
  <2> QED
    BY <2>1, <2>2, CancelEffect
<1>13. CASE PivotLock
  <2>1. PICK m \in Nodes : CancelStep(m)
    BY <1>13 DEF PivotLock, CancelStep
  <2>2. UNCHANGED <<m_triggered, where, current, m_map>> /\ (runner' = "trigger" => runner = "trigger")
    BY <1>13 DEF PivotLock, notify
  <2> QED
    BY <2>1, <2>2, CancelEffect
<1>14. CASE PivotCancel
  <2>1. PICK m \in Nodes : CancelStep(m)
    BY <1>14 DEF PivotCancel, CancelStep
  <2>2. UNCHANGED <<m_triggered, where, current, m_map>> /\ (runner' = "trigger" => runner = "trigger")
    BY <1>14 DEF PivotCancel, notify
  <2> QED
    BY <2>1, <2>2, CancelEffect
<1>15. CASE Top
  <2>1. UNCHANGED <<life, cancelled, exception, m_triggered, where, m_map>> /\ runner' # "trigger"
    BY <1>15, PickRuns DEF Top, cancelVars
  <2> QED
    BY <2>1
<1>16. CASE Yield
  <2>1. UNCHANGED <<life, cancelled, exception, m_triggered, where, m_map>> /\ runner' # "trigger"
    BY <1>16, PickRuns DEF Yield, cancelVars
  <2> QED
    BY <2>1
<1>17. CASE SleepEnds
  BY <1>17 DEF SleepEnds, cancelVars
<1>18. CASE RunnerSpuriousWakeup
  BY <1>18 DEF RunnerSpuriousWakeup, notify, cancelVars
<1>19. CASE RunReturns
  BY <1>19 DEF RunReturns, cancelVars
<1>20. CASE RunStops
  <2>1. PICK c \in Callbacks : CallbackAt(current.event) = c /\ m_map[c] = current.event /\ ScopeOf[c] \in Sessions
    BY <1>20, CurrentIsMapped DEF RunStops, Running
  <2>2. \A t \in Sessions : /\ m_triggered[t] # NoCallback => m_triggered'[t] # NoCallback
                            /\ t = ScopeOf[c] => m_triggered'[t] # NoCallback
    <3>1. m_triggered' = [m_triggered EXCEPT ![ScopeOf[c]] = IF m_triggered[ScopeOf[c]] = NoCallback THEN c
                                                             ELSE m_triggered[ScopeOf[c]]]
      BY <1>20, <2>1, TriggerEffect
    <3> QED
      BY <2>1, <3>1
  <2>3. UNCHANGED <<life, cancelled, exception, where, current, m_map>>
    BY <1>20 DEF RunStops, cancelVars
  <2>4. UnbornIsNotCancelled' /\ CaughtIsCancelled'
    BY <2>3
  <2>5. TriggerIsSet'
    BY <2>1, <2>2, <2>3
  <2>6. CancelHasCause'
    <3>1. \A t \in Sessions : cancelled[t] /\ life[t] = "attached" =>
              cancelled[Parent[t]] \/ m_triggered'[t] # NoCallback \/ exception[t] # NoException
      BY <2>2
    <3> QED
      BY <2>3, <3>1
  <2> QED
    BY <2>4, <2>5, <2>6
<1>21. CASE Trigger
  <2>1. Running
    BY <1>21 DEF Trigger, Running
  <2>2. PICK c \in Callbacks : CallbackAt(current.event) = c /\ m_map[c] = current.event /\ ScopeOf[c] \in Sessions
    BY <2>1, CurrentIsMapped
  <2>3. runner' = "cancel" /\ UNCHANGED <<m_triggered, where, current, m_map>>
    BY <1>21 DEF Trigger
  <2>4. m_triggered[ScopeOf[c]] # NoCallback
    <3>1. PICK d \in Callbacks : m_map[d] = current.event /\ m_triggered[ScopeOf[d]] # NoCallback
      BY <1>21 DEF Trigger
    <3>2. current.event # NoAddress
      BY <2>1 DEF RunsLive, Entries
    <3>3. c = d
      BY <2>2, <3>1, <3>2 DEF MapFacts, MapIsInjective
    <3> QED
      BY <3>1, <3>3
  <2>5. CallCancel(Runner, ScopeOf[c], NoException)
    BY <1>21, <2>2 DEF Trigger
  <2> QED
    BY <2>2, <2>3, <2>4, <2>5, CallEffect
<1>22. CASE RunThrows
  <2>1. Running
    BY <1>22 DEF RunThrows, Running
  <2>2. PICK c \in Callbacks : CallbackAt(current.event) = c /\ m_map[c] = current.event /\ ScopeOf[c] \in Sessions
    BY <2>1, CurrentIsMapped
  <2>3. runner' = "cancel" /\ UNCHANGED <<m_triggered, where, current, m_map>>
    BY <1>22 DEF RunThrows
  <2>4. PICK e \in Exceptions : CallCancel(Runner, ScopeOf[c], e)
    BY <1>22, <2>2 DEF RunThrows
  <2> QED
    BY <2>2, <2>3, <2>4, CallEffect
<1>23. CASE CancelReturned
  BY <1>23 DEF CancelReturned, cancelVars
<1>24. CASE Stop
  <2>1. PICK e \in Exceptions : CallCancel(Stopper, Root, e)
    BY <1>24 DEF Stop
  <2>2. UNCHANGED <<m_triggered, where, runner, current, m_map>>
    BY <1>24 DEF Stop
  <2> QED
    BY <2>1, <2>2, CallEffect
<1>25. CASE Construct
  <2>1. /\ UNCHANGED <<cancelled, exception, m_triggered, runner, current, m_map, where>>
        /\ \A n \in Nodes : n # Pivot => life'[n] = life[n]
        /\ life'[Pivot] # "unborn"
    BY <1>25 DEF Construct, Attach, cancelVars
  <2> QED
    BY <2>1
<1>26. CASE Detach
  <2>1. /\ UNCHANGED <<cancelled, exception, m_triggered, runner, current, m_map, where>>
        /\ \A n \in Nodes : n # Pivot => life'[n] = life[n]
        /\ life'[Pivot] # "unborn"
    BY <1>26 DEF Detach, Destroy, cancelVars
  <2> QED
    BY <2>1
<1>27. CASE StopThread
  BY <1>27 DEF StopThread, cancelVars
<1>28. CASE NotifyThread
  BY <1>28 DEF NotifyThread, notify, cancelVars
<1>29. CASE Join
  BY <1>29 DEF Join, cancelVars
<1>30. ASSUME NEW id \in 1 .. Cardinality(Callbacks), Time(id) PROVE CauseFacts'
  <2>1. UNCHANGED <<life, cancelled, exception, m_triggered, where, runner, current, m_map>>
    BY <1>30 DEF Time, cancelVars
  <2> QED
    BY <2>1
<1>31. CASE UNCHANGED pvars
  BY <1>31 DEF pvars, cancelVars
<1>32. ASSUME NEW n \in Nodes, CommandsStopped(n) PROVE CauseFacts'
  <2>1. UNCHANGED <<life, cancelled, exception, m_triggered, where, runner, current, m_map>>
    BY <1>32 DEF CommandsStopped, cancelVars
  <2> QED
    BY <2>1
<1> QED
  BY <1>1, <1>2, <1>3, <1>4, <1>5, <1>6, <1>7, <1>8, <1>9, <1>10, <1>11, <1>12, <1>13, <1>14, <1>15, <1>16,
     <1>17, <1>18, <1>19, <1>20, <1>21, <1>22, <1>23, <1>24, <1>25, <1>26, <1>27, <1>28, <1>29, <1>30, <1>31, <1>32
  DEF PivotNext, SessionStep, RunnerStep, RunStep, CancelSteps, DestructorStep

\* A step that lets the tree alone, and the runner where it cancels.
LEMMA StopKept ==
  ASSUME StopFacts, UNCHANGED <<vars, stopping>>,
         runner = "cancel" => /\ runner' = "cancel" /\ current' = current
                              /\ \A c \in Callbacks : m_map[c] = current.event => m_map'[c] = m_map[c]
  PROVE  StopFacts'
<1>1. SessionsDoNotCancel'
  BY DEF StopFacts, SessionsDoNotCancel, vars, threadVars
<1>2. ASSUME NEW s \in stopping PROVE /\ s \in Contexts /\ life'[s] = "attached" /\ stage'[s] = "done"
                                      /\ HeldFromAbove(s)' \/ HeldByRunner(s)'
  <2>1. UNCHANGED <<life, stage, by>>
    BY DEF vars, cancelVars
  <2>2. HeldByRunner(s) => HeldByRunner(s)'
    BY <2>1 DEF HeldByRunner
  <2> QED
    BY <1>2, <2>1, <2>2 DEF StopFacts, StopIsHeld, HeldFromAbove
<1> QED
  BY <1>1, <1>2 DEF StopFacts, StopIsHeld

\* A cancel() that begins, or goes on to a child, is that of a node which has
\* not been cancelled before.
LEMMA StopKeptByMark ==
  ASSUME Inv, StopFacts, UNCHANGED <<stopping, life>>,
         NEW t \in Threads, NEW n \in Nodes, NEW e \in Exceptions \cup {NoException}, Mark(t, n, e),
         runner = "cancel" => runner' = "cancel" /\ UNCHANGED <<m_map, current>>
  PROVE  StopIsHeld'
<1> USE InferencePivotAssumption, CancellableScopeAssumption DEF Sessions
<1>1. \A m \in Nodes : stage[m] # "none" => stage'[m] = stage[m] /\ by'[m] = by[m]
  <2>1. CASE cancelled[n]
    BY <2>1, MarkEffect DEF Inv
  <2>2. CASE ~ cancelled[n]
    <3>1. stage' = [stage EXCEPT ![n] = "flagged"] /\ by' = [by EXCEPT ![n] = t] /\ stage[n] = "none"
      BY <2>2, MarkEffect DEF Inv, FlagIsStage
    <3> QED
      BY <3>1 DEF Inv, TypeOK
  <2> QED
    BY <2>1, <2>2
<1>2. ASSUME NEW s \in stopping PROVE /\ s \in Contexts /\ life'[s] = "attached" /\ stage'[s] = "done"
                                      /\ HeldFromAbove(s)' \/ HeldByRunner(s)'
  <2>1. s \in Contexts /\ life[s] = "attached" /\ stage[s] = "done" /\ (HeldFromAbove(s) \/ HeldByRunner(s))
    BY <1>2 DEF StopFacts, StopIsHeld
  <2>2. s \in Nodes /\ Parent[s] \in Nodes
    BY <2>1
  <2>3. HeldFromAbove(s) => HeldFromAbove(s)'
    BY <1>1, <2>1, <2>2 DEF HeldFromAbove
  <2>4. HeldByRunner(s) => HeldByRunner(s)'
    BY <1>1, <2>1, <2>2 DEF HeldByRunner
  <2> QED
    BY <1>1, <2>1, <2>2, <2>3, <2>4
<1> QED
  BY <1>2 DEF StopIsHeld

\* A call of cancel(), by the runner or by the thread that stops the program.
LEMMA StopKeptByCall ==
  ASSUME Inv, StopFacts, UNCHANGED stopping,
         NEW t \in Threads \ Sessions, NEW n \in Nodes, NEW e \in Exceptions \cup {NoException}, CallCancel(t, n, e),
         runner = "cancel" => runner' = "cancel" /\ UNCHANGED <<m_map, current>>
  PROVE  StopFacts'
<1> USE InferencePivotAssumption, CancellableScopeAssumption
<1>1. StopIsHeld'
  BY StopKeptByMark DEF CallCancel
<1>2. pc' = pc \/ pc' = [pc EXCEPT ![t] = "cancel"]
  BY DEF CallCancel, threadVars
<1>3. SessionsDoNotCancel'
  BY <1>2 DEF StopFacts, SessionsDoNotCancel, Inv, TypeOK
<1> QED
  BY <1>1, <1>3 DEF StopFacts

\* The end of a cancel() makes no thread begin one.
LEMMA ReturnPlaces ==
  ASSUME Inv, StopFacts, NEW n \in Nodes, CancelReturn(n)
  PROVE  SessionsDoNotCancel'
<1>1. \A t \in Threads : notify_all(n)[t] \in {pc[t], "wait_lock"}
  BY DEF notify_all
<1>2. \A t \in Threads : pc'[t] \in {pc[t], "wait_lock", "idle"}
  <2>1. pc' = notify_all(n) \/ pc' = [notify_all(n) EXCEPT ![by[n]] = "idle"]
    BY DEF CancelReturn, Leave
  <2>2. DOMAIN notify_all(n) = Threads
    BY DEF notify_all
  <2> HIDE DEF notify_all
  <2> QED
    BY <1>1, <2>1, <2>2
<1> QED
  BY <1>2, InferencePivotAssumption DEF StopFacts, SessionsDoNotCancel

\* The first part of a context's cancel() is over, and the second one begins.
LEMMA StopBegins ==
  ASSUME Inv, PivotTypeOK, ScopeFacts, StopFacts, NEW n \in Nodes \ {Pivot}, ~ InStop(n), CancelReturn(n),
         stopping' = stopping \cup ({n} \cap Contexts), UNCHANGED <<m_map, current, runner>>
  PROVE  StopFacts'
<1> USE InferencePivotAssumption, CancellableScopeAssumption
<1>1. /\ stage[n] = "locked" /\ ~ InChild(n) /\ UNCHANGED <<life, by>>
      /\ stage' = [stage EXCEPT ![n] = "done"]
  BY DEF CancelReturn
<1>2. stage \in [Nodes -> {"none", "flagged", "locked", "done"}] /\ Contexts \subseteq Nodes \ {Root, Pivot}
      /\ by \in [Nodes -> Threads] /\ \A s \in Contexts : Parent[s] \in Nodes
  BY DEF Inv, TypeOK, Sessions
<1>3. ASSUME NEW s \in stopping' PROVE /\ s \in Contexts /\ life'[s] = "attached" /\ stage'[s] = "done"
                                       /\ HeldFromAbove(s)' \/ HeldByRunner(s)'
  <2>1. CASE s \in stopping
    <3>1. s \in Contexts /\ life[s] = "attached" /\ stage[s] = "done" /\ (HeldFromAbove(s) \/ HeldByRunner(s))
      BY <2>1 DEF StopFacts, StopIsHeld
    <3>2. HeldByRunner(s) => HeldByRunner(s)'
      BY <1>1 DEF HeldByRunner
    <3>3. HeldFromAbove(s) => HeldFromAbove(s)'
      <4>1. HeldFromAbove(s) => Parent[s] # n
        BY <2>1 DEF HeldFromAbove, InStop
      <4> QED
        BY <1>1, <1>2, <3>1, <4>1 DEF HeldFromAbove
    <3>4. stage'[s] = "done"
      BY <1>1, <1>2, <3>1
    <3> QED
      BY <1>1, <3>1, <3>2, <3>3, <3>4
  <2>2. CASE s = n /\ n \in Contexts
    <3>1. life[n] = "attached" /\ n \in Sessions
      BY <1>1, <2>2 DEF Inv, ProgressIsHeld, InProgress
    <3>2. stage'[n] = "done"
      BY <1>1, <1>2
    <3>3. CASE n # Root /\ stage[Parent[n]] = "locked" /\ by[Parent[n]] = by[n]
      <4>1. Parent[n] # n
        BY <1>1, <1>2, <2>2 DEF InChild, ChildrenOf
      <4> QED
        BY <1>1, <1>2, <2>2, <3>1, <3>2, <3>3, <4>1 DEF HeldFromAbove
    <3>4. CASE at[by[n]] = n /\ pc[by[n]] = "cancel"
      <4>1. by[n] \in Threads /\ n # Root /\ n # NoNode
        BY <1>2, <2>2
      <4>2. by[n] \notin Sessions
        BY <3>4 DEF StopFacts, SessionsDoNotCancel
      <4>3. by[n] # Stopper
        BY <3>4, <4>1 DEF ScopeFacts, PlaceFacts, StopsAtRoot
      <4>4. by[n] = Runner
        BY <4>1, <4>2, <4>3
      <4>5. HeldByRunner(n)
        BY <3>4, <4>1, <4>4 DEF ScopeFacts, PlaceFacts, RunnerCancels, HeldByRunner
      <4>6. HeldByRunner(n)'
        BY <1>1, <4>5 DEF HeldByRunner
      <4> QED
        BY <1>1, <2>2, <3>1, <3>2, <4>6
    <3> QED
      BY <1>1, <3>3, <3>4 DEF Inv, ProgressIsHeld, InProgress
  <2> QED
    BY <1>3, <2>1, <2>2
<1>4. SessionsDoNotCancel'
  BY ReturnPlaces
<1> QED
  BY <1>3, <1>4 DEF StopFacts, StopIsHeld

\* The other parts of a cancel(), and the pivot's.
LEMMA StopGoesOn ==
  ASSUME Inv, PivotTypeOK, StopFacts, UNCHANGED <<stopping, m_map, current>>, runner = "cancel" => runner' = "cancel",
         NEW n \in Nodes, CancelLock(n) \/ CancelChild(n) \/ (n = Pivot /\ CancelReturn(n))
  PROVE  StopFacts'
<1> USE InferencePivotAssumption, CancellableScopeAssumption
<1>1. CASE CancelChild(n)
  <2>1. PICK c \in todo[n] : Mark(by[n], c, carried[n])
    BY <1>1 DEF CancelChild
  <2>2. c \in Nodes /\ by[n] \in Threads /\ carried[n] \in Exceptions \cup {NoException}
    BY DEF Inv, TypeOK
  <2>3. UNCHANGED <<life, pc>>
    BY <1>1 DEF CancelChild, threadVars
  <2>4. StopIsHeld'
    BY <2>1, <2>2, <2>3, StopKeptByMark
  <2> QED
    BY <2>3, <2>4 DEF StopFacts, SessionsDoNotCancel
<1>2. CASE CancelLock(n) \/ (n = Pivot /\ CancelReturn(n))
  <2>1. UNCHANGED <<life, by>> /\ \E v \in {"locked", "done"} : stage' = [stage EXCEPT ![n] = v]
    BY <1>2 DEF CancelLock, CancelReturn
  <2>2. n # Pivot => stage' = [stage EXCEPT ![n] = "locked"] /\ stage[n] = "flagged"
    BY <1>2 DEF CancelLock
  <2>3. stage \in [Nodes -> {"none", "flagged", "locked", "done"}]
    BY DEF Inv, TypeOK
  <2>4. ASSUME NEW s \in stopping PROVE /\ s \in Contexts /\ life'[s] = "attached" /\ stage'[s] = "done"
                                        /\ HeldFromAbove(s)' \/ HeldByRunner(s)'
    <3>1. s \in Contexts /\ life[s] = "attached" /\ stage[s] = "done" /\ (HeldFromAbove(s) \/ HeldByRunner(s))
      BY <2>4 DEF StopFacts, StopIsHeld
    <3>2. s \in Nodes \ {Root, Pivot} /\ Parent[s] \in Nodes \ {Pivot}
      BY <3>1 DEF Sessions
    <3>3. stage'[s] = "done"
      BY <2>1, <2>2, <2>3, <3>1, <3>2
    <3>4. HeldFromAbove(s) => HeldFromAbove(s)'
      BY <2>1, <2>2, <2>3, <3>2 DEF HeldFromAbove
    <3>5. HeldByRunner(s) => HeldByRunner(s)'
      BY <2>1 DEF HeldByRunner
    <3> QED
      BY <2>1, <3>1, <3>3, <3>4, <3>5
  <2>5. SessionsDoNotCancel'
    BY <1>2, ReturnPlaces DEF CancelLock, threadVars, StopFacts, SessionsDoNotCancel
  <2> QED
    BY <2>4, <2>5 DEF StopFacts, StopIsHeld
<1> QED
  BY <1>1, <1>2

\* A session leaves, when its scope is in nobody's hands.
LEMMA StopLeaves ==
  ASSUME Inv, PivotTypeOK, MapFacts, ScopeFacts, StopFacts, NEW s \in Sessions, Leaves(s)
  PROVE  StopFacts'
<1> USE InferencePivotAssumption, CancellableScopeAssumption
<1>1. /\ UNCHANGED <<stage, by, pc, runner, current, m_map, stopping>>
      /\ life' = [life EXCEPT ![s] = "dead"]
      /\ stage[Parent[s]] # "locked" /\ listed[s] = {}
  BY DEF Leaves, Destroy, Unlocked, cancelVars, threadVars, runnerVars, Over
<1>2. ASSUME HeldByRunner(s) PROVE FALSE
  <2>1. Running /\ \E c \in Callbacks : m_map[c] = current.event /\ ScopeOf[c] = s
    BY <1>2 DEF HeldByRunner, Running
  <2>2. current.event # NoAddress
    BY <2>1 DEF ScopeFacts, RunsLive, Entries
  <2> QED
    BY <1>1, <2>1, <2>2 DEF MapFacts, MappedIsListed
<1>3. s \notin stopping
  BY <1>1, <1>2 DEF StopFacts, StopIsHeld, HeldFromAbove
<1>4. \A t \in stopping : life'[t] = life[t]
  BY <1>1, <1>3 DEF StopFacts, StopIsHeld, Inv, TypeOK, Sessions
<1>5. ASSUME NEW t \in stopping PROVE /\ t \in Contexts /\ life'[t] = "attached" /\ stage'[t] = "done"
                                      /\ HeldFromAbove(t)' \/ HeldByRunner(t)'
  BY <1>1, <1>4, <1>5 DEF StopFacts, StopIsHeld, HeldFromAbove, HeldByRunner
<1> QED
  BY <1>1, <1>5 DEF StopFacts, StopIsHeld, SessionsDoNotCancel

\* A node that comes to life or dies is none of the contexts in stop_all_commands().
LEMMA StopOfOthers ==
  ASSUME StopFacts, NEW n \in Nodes, n = Pivot \/ life[n] = "unborn", \A m \in Nodes : m # n => life'[m] = life[m],
         UNCHANGED <<stage, by, pc, runner, current, m_map, stopping>>
  PROVE  StopFacts'
<1>1. \A s \in stopping : s \in Nodes /\ s # n
  BY InferencePivotAssumption DEF StopFacts, StopIsHeld, Sessions
<1>2. ASSUME NEW s \in stopping PROVE /\ s \in Contexts /\ life'[s] = "attached" /\ stage'[s] = "done"
                                      /\ HeldFromAbove(s)' \/ HeldByRunner(s)'
  BY <1>1, <1>2 DEF StopFacts, StopIsHeld, HeldFromAbove, HeldByRunner
<1> QED
  BY <1>2 DEF StopFacts, StopIsHeld, SessionsDoNotCancel

\* Whoever is in stop_all_commands() has the lock of the scope above or the
\* mutex of the runner, and keeps it.
LEMMA StopStep ==
  ASSUME Inv, PivotTypeOK, MapFacts, ScopeFacts, StopFacts, [PivotNext]_pvars
  PROVE  StopFacts'
<1> USE InferencePivotAssumption, CancellableScopeAssumption DEF sessionVars, pivotVars, scheduleVars, runnerVars, SessionOnly, RunnerOnly, DestructorOnly
<1>0. /\ Runner \in Threads \ Sessions /\ Stopper \in Threads \ Sessions /\ Root \in Nodes /\ Pivot \in Nodes
      /\ \A s \in Sessions : s \in Nodes \ {Root, Pivot} /\ s \in Threads
      /\ pc \in [Threads -> {"idle", "cancel", "wait_lock", "waiting"}] /\ life \in [Nodes -> {"unborn", "attached", "dead"}]
  BY DEF Inv, TypeOK, Sessions
<1>1. ASSUME NEW s \in Sessions, Enter(s) PROVE StopFacts'
  <2>1. life[s] = "unborn" /\ (\A m \in Nodes : m # s => life'[m] = life[m])
        /\ UNCHANGED <<stage, by, pc, runner, current, m_map, stopping>>
    BY <1>1, <1>0 DEF Enter, Attach, cancelVars, threadVars
  <2> QED
    BY <1>0, <2>1, StopOfOthers
<1>2. ASSUME NEW s \in Sessions, AddCallback(s) PROVE StopFacts'
  <2>1. UNCHANGED <<vars, stopping, runner, current>> /\ \A d \in Callbacks : m_map[d] # NoAddress => m_map'[d] = m_map[d]
    BY <1>2, AddCallbackEffect, AddCallbackKeeps DEF AddCallback
  <2>2. runner = "cancel" => current.event # NoAddress
    BY DEF ScopeFacts, RunsLive, Running, Entries
  <2> QED
    BY <2>1, <2>2, StopKept
<1>3. ASSUME NEW s \in Sessions, AddEvent(s) PROVE StopFacts'
  BY <1>3, StopKept DEF AddEvent, LockFree, Running
<1>4. ASSUME NEW s \in Sessions, Wait(s) PROVE StopFacts'
  <2>1. UNCHANGED <<life, stage, by, runner, current, m_map, stopping>> /\ (\A t \in Threads : pc'[t] # "cancel" \/ pc'[t] = pc[t])
    BY <1>4, <1>0 DEF Wait, CallWait, cancelVars
  <2>2. SessionsDoNotCancel'
    BY <1>0, <2>1 DEF StopFacts, SessionsDoNotCancel
  <2>3. StopIsHeld'
    BY <2>1 DEF StopFacts, StopIsHeld, HeldFromAbove, HeldByRunner
  <2> QED
    BY <2>2, <2>3 DEF StopFacts
<1>5. ASSUME NEW s \in Sessions, WaitEnds(s) PROVE StopFacts'
  <2>1. UNCHANGED <<life, stage, by, runner, current, m_map, stopping>> /\ (\A t \in Threads : pc'[t] # "cancel" \/ pc'[t] = pc[t])
    BY <1>5, <1>0 DEF WaitEnds, WaitCheck, cancelVars
  <2>2. SessionsDoNotCancel'
    BY <1>0, <2>1 DEF StopFacts, SessionsDoNotCancel
  <2>3. StopIsHeld'
    BY <2>1 DEF StopFacts, StopIsHeld, HeldFromAbove, HeldByRunner
  <2> QED
    BY <2>2, <2>3 DEF StopFacts
<1>6. ASSUME NEW s \in Sessions, WaitPasses(s) PROVE StopFacts'
  <2>1. UNCHANGED <<life, stage, by, runner, current, m_map, stopping>> /\ (\A t \in Threads : pc'[t] # "cancel" \/ pc'[t] = pc[t])
    BY <1>6, <1>0 DEF WaitPasses, WaitTimeout, SpuriousWakeup, cancelVars
  <2>2. SessionsDoNotCancel'
    BY <1>0, <2>1 DEF StopFacts, SessionsDoNotCancel
  <2>3. StopIsHeld'
    BY <2>1 DEF StopFacts, StopIsHeld, HeldFromAbove, HeldByRunner
  <2> QED
    BY <2>2, <2>3 DEF StopFacts
<1>7. ASSUME NEW s \in Sessions, CommandEnds(s) PROVE StopFacts'
  BY <1>7, StopKept DEF CommandEnds
<1>8. ASSUME NEW s \in Sessions, Return(s) PROVE StopFacts'
  BY <1>8, StopKept DEF Return
<1>9. ASSUME NEW s \in Sessions, RemoveCallback(s) PROVE StopFacts'
  BY <1>9, RemoveCallbackEffect, StopKept DEF RemoveCallback
<1>10. ASSUME NEW s \in Sessions, RemoveEvent(s) PROVE StopFacts'
  BY <1>10, StopKept DEF RemoveEvent, Remove, LockFree, Running
<1>11. ASSUME NEW s \in Sessions, Leaves(s) PROVE StopFacts'
  BY <1>11, StopLeaves
<1>12. ASSUME NEW n \in Nodes, CancelTree(n) PROVE StopFacts'
  <2>1. UNCHANGED <<m_map, current, runner>> /\ n # Pivot /\ ~ InStop(n)
    BY <1>12 DEF CancelTree
  <2>2. CASE (CancelLock(n) \/ CancelChild(n)) /\ UNCHANGED stopping
    BY <2>1, <2>2, StopGoesOn
  <2>3. CASE CancelReturn(n) /\ stopping' = stopping \cup ({n} \cap Contexts)
    BY <2>1, <2>3, StopBegins
  <2> QED
    BY <1>12, <2>2, <2>3 DEF CancelTree
<1>13. CASE PivotLock
  BY <1>13, <1>0, StopGoesOn DEF PivotLock
<1>14. CASE PivotCancel
  <2>1. CancelReturn(Pivot) /\ UNCHANGED <<stopping, m_map, current>> /\ (runner = "cancel" => runner' = "cancel")
    BY <1>14 DEF PivotCancel, notify
  <2> QED
    BY <1>0, <2>1, StopGoesOn
<1>15. CASE Top
  BY <1>15, StopKept DEF Top
<1>16. CASE Yield
  BY <1>16, StopKept DEF Yield
<1>17. CASE SleepEnds
  BY <1>17, StopKept DEF SleepEnds
<1>18. CASE RunnerSpuriousWakeup
  BY <1>18, StopKept DEF RunnerSpuriousWakeup, notify
<1>19. CASE RunReturns
  BY <1>19, StopKept DEF RunReturns
<1>20. CASE RunStops
  BY <1>20, StopKept DEF RunStops
<1>21. CASE Trigger
  <2>1. Running /\ runner # "cancel" /\ UNCHANGED stopping
    BY <1>21 DEF Trigger, Running
  <2>2. PICK c \in Callbacks : CallbackAt(current.event) = c /\ ScopeOf[c] \in Sessions
    BY <2>1, CurrentIsMapped DEF ScopeFacts
  <2>3. \E e \in Exceptions \cup {NoException} : CallCancel(Runner, ScopeOf[c], e)
    BY <1>21, <2>2 DEF Trigger
  <2> QED
    BY <1>0, <2>1, <2>2, <2>3, StopKeptByCall
<1>22. CASE RunThrows
  <2>1. Running /\ runner # "cancel" /\ UNCHANGED stopping
    BY <1>22 DEF RunThrows, Running
  <2>2. PICK c \in Callbacks : CallbackAt(current.event) = c /\ ScopeOf[c] \in Sessions
    BY <2>1, CurrentIsMapped DEF ScopeFacts
  <2>3. \E e \in Exceptions \cup {NoException} : CallCancel(Runner, ScopeOf[c], e)
    BY <1>22, <2>2 DEF RunThrows
  <2> QED
    BY <1>0, <2>1, <2>2, <2>3, StopKeptByCall
<1>23. CASE CancelReturned
  <2>1. UNCHANGED <<vars, stopping>> /\ ~ \E s \in stopping : by[s] = Runner
    BY <1>23 DEF CancelReturned
  <2>2. UNCHANGED <<life, stage, by, pc>>
    BY <2>1 DEF vars, cancelVars, threadVars
  <2>3. StopIsHeld'
    BY <2>1, <2>2 DEF StopFacts, StopIsHeld, HeldFromAbove, HeldByRunner
  <2> QED
    BY <2>2, <2>3 DEF StopFacts, SessionsDoNotCancel
<1>24. CASE Stop
  <2>1. PICK e \in Exceptions : CallCancel(Stopper, Root, e)
    BY <1>24 DEF Stop
  <2> QED
    BY <1>24, <1>0, <2>1, StopKeptByCall DEF Stop
<1>25. CASE Construct
  <2>1. (\A m \in Nodes : m # Pivot => life'[m] = life[m])
        /\ UNCHANGED <<stage, by, pc, runner, current, m_map, stopping>>
    BY <1>25, <1>0 DEF Construct, Attach, cancelVars, threadVars
  <2> QED
    BY <1>0, <2>1, StopOfOthers
<1>26. CASE Detach
  <2>1. (\A m \in Nodes : m # Pivot => life'[m] = life[m])
        /\ UNCHANGED <<stage, by, pc, runner, current, m_map, stopping>>
    BY <1>26, <1>0 DEF Detach, Destroy, cancelVars, threadVars
  <2> QED
    BY <1>0, <2>1, StopOfOthers
<1>27. CASE StopThread
  BY <1>27, StopKept DEF StopThread
<1>28. CASE NotifyThread
  BY <1>28, StopKept DEF NotifyThread, notify
<1>29. CASE Join
  BY <1>29, StopKept DEF Join
<1>30. ASSUME NEW id \in 1 .. Cardinality(Callbacks), Time(id) PROVE StopFacts'
  BY <1>30, StopKept DEF Time
<1>31. CASE UNCHANGED pvars
  BY <1>31, StopKept DEF pvars
<1>32. ASSUME NEW n \in Nodes, CommandsStopped(n) PROVE StopFacts'
  <2>1. UNCHANGED <<life, stage, by, pc, runner, current, m_map>> /\ stopping' \subseteq stopping
    BY <1>32 DEF CommandsStopped, vars, cancelVars, threadVars
  <2>2. StopIsHeld'
    BY <2>1 DEF StopFacts, StopIsHeld, HeldFromAbove, HeldByRunner
  <2> QED
    BY <2>1, <2>2 DEF StopFacts, SessionsDoNotCancel
<1> QED
  BY <1>1, <1>2, <1>3, <1>4, <1>5, <1>6, <1>7, <1>8, <1>9, <1>10, <1>11, <1>12, <1>13, <1>14, <1>15, <1>16,
     <1>17, <1>18, <1>19, <1>20, <1>21, <1>22, <1>23, <1>24, <1>25, <1>26, <1>27, <1>28, <1>29, <1>30, <1>31, <1>32
  DEF PivotNext, SessionStep, RunnerStep, RunStep, CancelSteps, DestructorStep

-----------------------------------------------------------------------------
LEMMA PivotInitInv == PivotInit => PivotInv
<1> SUFFICES ASSUME PivotInit PROVE PivotInv
  OBVIOUS
<1> USE InferencePivotAssumption, CancellableScopeAssumption DEF PivotInit, Init
<1>1. PivotTypeOK
  <2>1. m_schedule \in Seq(Entries)
    OBVIOUS
  <2> QED
    BY <2>1 DEF PivotTypeOK, SessionTypes, RunnerTypes
<1>2. MapFacts
  BY DEF MapFacts, ListedAreOwn, CallIsListed, MappedIsListed, MapIsInjective, EventIsMapped, InPivot
<1>3. ScopeFacts
  <2>1. BirthIsKnown /\ ParentIsInside
    BY DEF BirthIsKnown, ParentIsInside, Sessions
  <2>2. RunsLive /\ PlaceFacts
    BY DEF RunsLive, Running, PlaceFacts, WaitsInside, StopsAtRoot, RunnerCancels, Sessions
  <2> QED
    BY <2>1, <2>2 DEF ScopeFacts
<1>4. CauseFacts
  BY DEF CauseFacts, UnbornIsNotCancelled, TriggerIsSet, CaughtIsCancelled, CancelHasCause, Sessions
<1>5. StopFacts
  BY DEF StopFacts, SessionsDoNotCancel, StopIsHeld
<1> QED
  BY <1>1, <1>2, <1>3, <1>4, <1>5 DEF PivotInv

LEMMA PivotStepInv ==
  ASSUME Inv, PivotInv, [PivotNext]_pvars
  PROVE  PivotInv'
<1>1. PivotTypeOK'
  BY SessionTypesStep, RunnerTypesStep DEF PivotInv, PivotTypeOK, ScopeFacts
<1>2. MapFacts'
  BY MapFactsStep DEF PivotInv, ScopeFacts
<1>3. ScopeFacts'
  BY BirthStep, RunsLiveStep, PlaceStep DEF PivotInv, ScopeFacts, Inv
<1>4. CauseFacts'
  BY CauseStep DEF PivotInv
<1>5. StopFacts'
  BY StopStep DEF PivotInv
<1> QED
  BY <1>1, <1>2, <1>3, <1>4, <1>5 DEF PivotInv

\* The inductive invariant of the pivot and its sessions, together with the
\* one of the tree they hang in.
THEOREM PivotInvHolds == PivotSpec => [](Inv /\ PivotInv)
<1>1. PivotInit => Inv /\ PivotInv
  BY PivotInitInv, InitInv DEF PivotInit
<1>2. ASSUME Inv, PivotInv, [PivotNext]_pvars PROVE Inv' /\ PivotInv'
  <2>1. [Next]_vars
    BY <1>2, PivotUsesTree DEF PivotInv, ScopeFacts
  <2> QED
    BY <1>2, <2>1, StepInv, PivotStepInv
<1> QED
  BY <1>1, <1>2, PTL DEF PivotSpec

\* The pivot, its sessions and the thread that stops them use their scopes
\* as CancellableScope specifies: what is proved there holds here.
THEOREM TreeIsUsedAsSpecified == PivotSpec => Spec
<1>1. PivotInit => Init
  BY DEF PivotInit
<1>2. ASSUME PivotInv, [PivotNext]_pvars PROVE [Next]_vars
  BY <1>2, PivotUsesTree DEF PivotInv, ScopeFacts
<1> QED
  BY <1>1, <1>2, PivotInvHolds, PTL DEF PivotSpec, Spec

\* A stop that has returned has reached the pivot and every session.
THEOREM StopReachesSessions == PivotSpec => []ChildrenAreReached
  BY TreeIsUsedAsSpecified, CancelReachesChildren, PTL

LEMMA OverMayBeDestroyed == ASSUME Inv, PivotInv, NEW s \in Sessions, Over(s) PROVE MayDestroy(s)
<1> USE InferencePivotAssumption, CancellableScopeAssumption
<1>1. s \in Nodes \ {Root} /\ s # NoNode
  BY DEF Sessions
<1>2. where[s] = "remove" /\ listed[s] = {}
  BY DEF Over
<1>3. life[s] = "attached"
  BY <1>1, <1>2 DEF PivotInv, ScopeFacts, BirthIsKnown, Inv, TypeOK
<1>4. ASSUME NEW d \in Nodes \ {Root}, Parent[d] = s PROVE life[d] # "attached"
  <2>1. d \in Sessions
    BY <1>1, <1>4 DEF Sessions
  <2> QED
    BY <1>2, <1>4, <2>1 DEF PivotInv, ScopeFacts, ParentIsInside
<1>5. ASSUME NEW t \in Threads, at[t] = s PROVE FALSE
  <2>1. CASE t \in Sessions
    BY <1>1, <1>2, <1>5, <2>1 DEF PivotInv, ScopeFacts, PlaceFacts, WaitsInside
  <2>2. CASE t = Stopper
    BY <1>1, <1>5, <2>2 DEF PivotInv, ScopeFacts, PlaceFacts, StopsAtRoot
  <2>3. CASE t = Runner
    <3>1. Running /\ \E c \in Callbacks : m_map[c] = current.event /\ s = ScopeOf[c]
      BY <1>1, <1>5, <2>3 DEF PivotInv, ScopeFacts, PlaceFacts, RunnerCancels, Running
    <3>2. current.event # NoAddress
      BY <3>1 DEF PivotInv, ScopeFacts, RunsLive, Entries
    <3> QED
      BY <1>2, <3>1, <3>2 DEF PivotInv, MapFacts, MappedIsListed
  <2> QED
    BY <2>1, <2>2, <2>3
<1> QED
  BY <1>1, <1>3, <1>4, <1>5 DEF MayDestroy, ChildrenOf

\* What the runner runs is registered, at whatever addresses callbacks are
\* created, and a session that has removed its callbacks may go.
THEOREM RunnerRunsTheLiving == PivotSpec => []CallbackIsLive
<1>1. ASSUME Inv, PivotInv PROVE CallbackIsLive
  <2>1. ASSUME Running
        PROVE  \E c \in Callbacks : m_map[c] = current.event /\ Live(current) /\ life[ScopeOf[c]] = "attached"
    <3>1. PICK c \in Callbacks : m_map[c] = current.event /\ ScopeOf[c] \in Sessions /\ c \in listed[ScopeOf[c]]
      BY <1>1, <2>1, CurrentIsMapped DEF PivotInv, ScopeFacts
    <3>2. life[ScopeOf[c]] = "attached"
      BY <1>1, <3>1 DEF PivotInv, ScopeFacts, BirthIsKnown, Inv, TypeOK, Sessions
    <3> QED
      BY <1>1, <2>1, <3>1, <3>2 DEF PivotInv, ScopeFacts, RunsLive
  <2>2. \A s \in Sessions : Over(s) => MayDestroy(s)
    BY <1>1, OverMayBeDestroyed
  <2>3. \A s \in stopping : life[s] = "attached"
    BY <1>1 DEF PivotInv, StopFacts, StopIsHeld
  <2> QED
    BY <2>1, <2>2, <2>3 DEF CallbackIsLive
<1> QED
  BY <1>1, PivotInvHolds, PTL

\* When wait_until() or run_until() returns without a trigger, its scope was
\* cancelled from above, or with an exception.
THEOREM NoTriggerIsLost == PivotSpec => []TriggerIsReported
<1>1. ASSUME Inv, PivotInv PROVE TriggerIsReported
  <2>1. ASSUME NEW s \in Sessions, where[s] = "caught"
        PROVE  cancelled[s] /\ life[s] = "attached"
    BY <1>1, <2>1 DEF PivotInv, CauseFacts, CaughtIsCancelled, ScopeFacts, BirthIsKnown, Inv, TypeOK, Sessions
  <2> QED
    BY <1>1, <2>1 DEF TriggerIsReported, PivotInv, CauseFacts, CancelHasCause
<1> QED
  BY <1>1, PivotInvHolds, PTL
=============================================================================
