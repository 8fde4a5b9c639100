--------------------------- MODULE InferencePivot ---------------------------
(***************************************************************************)
(* Looking at the video while a command runs.  An inference session        *)
(* registers callbacks with the pivot of its console, whose thread runs    *)
(* each of them once per period; one that sees what it looks for cancels   *)
(* the scope of its session, and thereby ends the command in that scope:   *)
(*   PeriodicScheduler, PeriodicRunner (Common/Cpp/Concurrency/            *)
(*       PeriodicScheduler.h, .cpp),                                       *)
(*   VisualInferencePivot, InferenceSession, wait_until() and run_until()  *)
(*       (CommonFramework/InferenceInfra).                                 *)
(*                                                                         *)
(* Scopes, sessions and the pivot are nodes of a CancellableScope tree:    *)
(* the root is the scope of the program, the pivot is a child of the root, *)
(* every other node is the fresh scope of one session, below the root or   *)
(* below the session whose command has started it.                         *)
(*                                                                         *)
(* Of time, the schedule keeps the order of the entries and which of them  *)
(* are due.  The audio pivot is the same class with another feed.          *)
(***************************************************************************)
EXTENDS CancellableScope, Sequences

CONSTANTS
    Pivot,          \* the pivot, as a node of the tree
    Runner,         \* its thread
    Stopper,        \* the thread that stops the program
    Contexts,       \* the sessions of run_until(), whose scope is a BotBaseContext
    Callbacks,
    ScopeOf,        \* the session each of them belongs to
    NoCallback,
    Heap,           \* bound: the addresses that the PeriodicCallback of each may get
    NoAddress

Sessions  == Nodes \ {Root, Pivot}
Addresses == UNION {Heap[c] : c \in Callbacks}

\* Each session has a thread: that of the program, inside one more call.
ASSUME InferencePivotAssumption ==
    /\ Pivot \in Nodes \ {Root} /\ Parent[Pivot] = Root
    /\ Threads = Sessions \cup {Runner, Stopper}
    /\ Runner \notin Sessions \cup {Stopper} /\ Stopper \notin Sessions
    /\ Contexts \subseteq Sessions
    /\ \A s \in Sessions : Parent[s] \in Contexts \cup {Root}
    /\ ScopeOf \in [Callbacks -> Sessions]
    /\ NoCallback \notin Callbacks
    /\ DOMAIN Heap = Callbacks /\ NoAddress \notin Addresses
    /\ IsFiniteSet(Callbacks)

VARIABLES
    where,          \* where a session is in wait_until() or run_until()
    listed,         \* InferenceSession::m_map
    calling,        \* the callback it is adding or removing
    m_triggered,    \* InferenceSession::m_triggered
    m_map,          \* of the pivot: the address of the PeriodicCallback
    m_events,       \* of the scheduler: the id of the event at an address, or 0
    m_callback_id,
    m_schedule,     \* in the order of time
    runner, current,\* where the thread is, and the entry it runs
    fate,           \* of the pivot: "unborn", "used", and the steps of its destructor
    stopping        \* contexts whose cancel() is in stop_all_commands()

sessionVars  == <<where, listed, calling, m_triggered>>
scheduleVars == <<m_events, m_callback_id, m_schedule>>
runnerVars   == <<runner, current>>
pivotVars    == <<sessionVars, m_map, scheduleVars, runnerVars, fate, stopping>>
pvars        == <<vars, pivotVars>>

CallbacksOf(s) == {c \in Callbacks : ScopeOf[c] = s}
CallbackAt(a)  == CHOOSE c \in Callbacks : m_map[c] = a

Goto(s, label) == where' = [where EXCEPT ![s] = label]

\* The spin lock of the pivot is held through add_callback() and
\* remove_callback(), which go on to the mutex of the runner.
InPivot(s) == where[s] \in {"adding", "removing"}
PivotFree  == \A s \in Sessions : ~ InPivot(s)

\* PeriodicRunner::m_pending_waits # 0.
WaitPending == \E s \in Sessions : InPivot(s)

\* The mutex of the runner.  Its thread keeps it while it runs a callback.
Running  == runner \in {"run", "trigger", "cancel"}
LockFree == ~ Running /\ runner # "top" /\ stage[Pivot] # "locked"

notify == runner' = CASE runner = "sleep" -> "woken"
                      [] runner = "yield" -> "yielded"
                      [] OTHER            -> runner

\* The flag of the runner, set through the tree or by its destructor.
RunnerCancelled == cancelled[Pivot] \/ fate \in {"flagged", "joining", "gone"}

-----------------------------------------------------------------------------
(* The schedule.                                                           *)

Entry(id, a, due) == [id |-> id, event |-> a, due |-> due]
NoEntry           == Entry(0, NoAddress, FALSE)
Insert(seq, i, e) == SubSeq(seq, 1, i) \o <<e>> \o SubSeq(seq, i + 1, Len(seq))
DueCount(seq)     == Cardinality({i \in DOMAIN seq : seq[i].due})

\* add_event() with the time from before the wait for the mutex: behind what
\* was due then, and in front of what has become due since.
Add(a) ==
    /\ m_events' = [m_events EXCEPT ![a] = m_callback_id]
    /\ \E i \in 0 .. DueCount(m_schedule) : m_schedule' = Insert(m_schedule, i, Entry(m_callback_id, a, TRUE))
    /\ m_callback_id' = m_callback_id + 1

\* remove_event() leaves the entries of the event where they are.
Drop(a) ==
    /\ m_events' = [m_events EXCEPT ![a] = 0]
    /\ UNCHANGED <<m_callback_id, m_schedule>>

\* The entry belongs to the event that is at its address now.
Live(e) == m_events[e.event] = e.id

\* Mutant: the next time is one period after the last, however late that is.
RescheduleLate(rest, e) ==
    \/ \E i \in 0 .. DueCount(rest) : m_schedule' = Insert(rest, i, Entry(e.id, e.event, TRUE))
    \/ \E i \in DueCount(rest) .. Len(rest) : m_schedule' = Insert(rest, i, Entry(e.id, e.event, FALSE))

\* The next time is a period later, or now when that has passed already.
Reschedule(rest, e) ==
    \/ m_schedule' = Insert(rest, DueCount(rest), Entry(e.id, e.event, TRUE))
    \/ \E i \in DueCount(rest) .. Len(rest) : m_schedule' = Insert(rest, i, Entry(e.id, e.event, FALSE))

\* request_next_event(), and what the loop does with the answer.  Entries
\* without an event are thrown away on the way to the first one with.
Pick ==
    LET due == {i \in DOMAIN m_schedule : m_schedule[i].due /\ Live(m_schedule[i])}
    IN  /\ IF due # {}
           THEN \E i \in due :
                   /\ \A j \in due : i <= j
                   /\ Reschedule(SubSeq(m_schedule, i + 1, Len(m_schedule)), m_schedule[i])
                   /\ current' = m_schedule[i]
                   /\ runner' = "run"
           ELSE /\ m_schedule' = SubSeq(m_schedule, DueCount(m_schedule) + 1, Len(m_schedule))
                /\ runner' = IF RunnerCancelled THEN "exited" ELSE "sleep"
                /\ UNCHANGED current
        /\ UNCHANGED <<m_events, m_callback_id>>

\* Time goes on until the entry is due, and those before it.
Time(id) ==
    /\ \E i \in DOMAIN m_schedule :
          /\ m_schedule[i].id = id /\ ~ m_schedule[i].due
          /\ m_schedule' = [j \in DOMAIN m_schedule |->
                              IF j <= i THEN [m_schedule[j] EXCEPT !.due = TRUE] ELSE m_schedule[j]]
    /\ UNCHANGED <<vars, sessionVars, m_map, m_events, m_callback_id, runnerVars, fate, stopping>>

-----------------------------------------------------------------------------
(* The thread of the runner.                                               *)

RunnerOnly == UNCHANGED <<sessionVars, m_map, fate, stopping>>

\* Mutant: nobody who waits for the mutex is let in.
TopGreedy ==
    /\ runner = "top" \/ (runner = "woken" /\ LockFree)
    /\ IF RunnerCancelled
       THEN runner' = "exited" /\ UNCHANGED <<scheduleVars, current>>
       ELSE Pick
    /\ UNCHANGED vars /\ RunnerOnly

\* The top of the loop, with the mutex from before or out of a wait.
Top ==
    /\ runner = "top" \/ (runner = "woken" /\ LockFree)
    /\ IF RunnerCancelled
       THEN runner' = "exited" /\ UNCHANGED <<scheduleVars, current>>
       ELSE IF WaitPending
       THEN runner' = "yield" /\ UNCHANGED <<scheduleVars, current>>
       ELSE Pick
    /\ UNCHANGED vars /\ RunnerOnly

\* The wait for m_pending_waits to become 0 goes on to the schedule, without
\* another look at the flag.
Yield ==
    /\ runner = "yielded" /\ LockFree
    /\ IF WaitPending
       THEN runner' = "yield" /\ UNCHANGED <<scheduleVars, current>>
       ELSE Pick
    /\ UNCHANGED vars /\ RunnerOnly

SleepEnds ==
    /\ runner = "sleep" /\ m_schedule # <<>> /\ m_schedule[1].due
    /\ runner' = "woken"
    /\ UNCHANGED <<vars, scheduleVars, current>> /\ RunnerOnly

RunnerSpuriousWakeup ==
    /\ runner \in {"sleep", "yield"} /\ notify
    /\ UNCHANGED <<vars, scheduleVars, current>> /\ RunnerOnly

\* run(): the callback sees nothing, ...
RunReturns ==
    /\ runner = "run"
    /\ runner' = "top" /\ current' = NoEntry
    /\ UNCHANGED <<vars, scheduleVars>> /\ RunnerOnly

\* Mutant: the scope is cancelled, and nothing set before.
RunStopsUnrecorded ==
    /\ runner = "run"
    /\ CallCancel(Runner, ScopeOf[CallbackAt(current.event)], NoException)
    /\ runner' = "cancel"
    /\ UNCHANGED <<scheduleVars, current>> /\ RunnerOnly

\* ... or what it looks for, the first in the session to do so, ...
RunStops ==
    LET c == CallbackAt(current.event)
        s == ScopeOf[c]
    IN  /\ runner = "run"
        /\ m_triggered' = [m_triggered EXCEPT ![s] = IF @ = NoCallback THEN c ELSE @]
        /\ runner' = "trigger"
        /\ UNCHANGED <<vars, where, listed, calling, m_map, scheduleVars, current, fate, stopping>>

Trigger ==
    /\ runner = "trigger"
    /\ CallCancel(Runner, ScopeOf[CallbackAt(current.event)], NoException)
    /\ runner' = "cancel"
    /\ UNCHANGED <<scheduleVars, current>> /\ RunnerOnly

\* ... or throws.
RunThrows ==
    /\ runner = "run"
    /\ \E e \in Exceptions : CallCancel(Runner, ScopeOf[CallbackAt(current.event)], e)
    /\ runner' = "cancel"
    /\ UNCHANGED <<scheduleVars, current>> /\ RunnerOnly

CancelReturned ==
    /\ runner = "cancel" /\ pc[Runner] = "idle" /\ ~ \E s \in stopping : by[s] = Runner
    /\ runner' = "top" /\ current' = NoEntry
    /\ UNCHANGED <<vars, scheduleVars>> /\ RunnerOnly

-----------------------------------------------------------------------------
(* A session.                                                              *)

\* Inside the command of a session, with no other call under way in it.
Inside(s) == where[s] = "inside" /\ pc[s] = "idle"
Nested(s) == \E d \in Sessions : Parent[d] = s /\ where[d] \notin {"unused", "over"}

SessionOnly == UNCHANGED <<m_triggered, fate, stopping>>

\* The fresh scope, which throws when the one above it is cancelled.  One
\* thread uses a console, so its sessions are nested or come one by one.
Enter(s) ==
    /\ where[s] = "unused" /\ fate = "used"
    /\ Parent[s] # Root => Inside(Parent[s])
    /\ ~ Nested(Parent[s])
    /\ Attach(s)
    /\ Goto(s, IF cancelled[Parent[s]] THEN "over" ELSE IF CallbacksOf(s) = {} THEN "inside" ELSE "add")
    /\ UNCHANGED <<listed, calling, m_map, scheduleVars, runnerVars>> /\ SessionOnly

\* add_callback(), up to the mutex of the runner.  On a cancelled pivot
\* add_event() throws, and the session removes what it has added.
AddCallback(s) ==
    /\ where[s] = "add" /\ PivotFree
    /\ \E c \in CallbacksOf(s) \ listed[s] :
          /\ listed' = [listed EXCEPT ![s] = @ \cup {c}]
          /\ IF cancelled[Pivot]
             THEN Goto(s, "remove") /\ UNCHANGED <<calling, m_map>>
             ELSE /\ Goto(s, "adding")
                  /\ calling' = [calling EXCEPT ![s] = c]
                  /\ \E a \in Heap[c] \ {m_map[d] : d \in Callbacks} : m_map' = [m_map EXCEPT ![c] = a]
    /\ UNCHANGED <<vars, scheduleVars, runnerVars>> /\ SessionOnly

\* add_event() under the mutex.  The first call starts the thread.
AddEvent(s) ==
    /\ where[s] = "adding" /\ LockFree
    /\ Add(m_map[calling[s]])
    /\ IF runner = "none" THEN runner' = "woken" ELSE notify
    /\ Goto(s, IF listed[s] = CallbacksOf(s) THEN "inside" ELSE "add")
    /\ calling' = [calling EXCEPT ![s] = NoCallback]
    /\ UNCHANGED <<vars, listed, m_map, current>> /\ SessionOnly

\* What the command does in its scope: it waits, or starts another session.
Wait(s) ==
    /\ Inside(s) /\ ~ Nested(s)
    /\ CallWait(s, s)
    /\ UNCHANGED pivotVars

WaitEnds(s) == WaitCheck(s) /\ UNCHANGED pivotVars

WaitPasses(s) == (WaitTimeout(s) \/ SpuriousWakeup(s)) /\ UNCHANGED pivotVars

\* The command is over by itself, or its scope is cancelled.  A call of the
\* scope then throws what cancel() was given, if anything, and a call of the
\* message layer throws OperationCancelledException in any case: only that
\* is caught.
CommandEnds(s) ==
    /\ Inside(s) /\ ~ Nested(s)
    /\ \/ ~ cancelled[s] /\ Goto(s, "remove")
       \/ cancelled[s] /\ exception[s] # NoException /\ Goto(s, "remove")
       \/ cancelled[s] /\ (s \in Contexts \/ exception[s] = NoException) /\ Goto(s, "caught")
    /\ UNCHANGED <<vars, listed, calling, m_map, scheduleVars, runnerVars>> /\ SessionOnly

\* Throws when the scope above is cancelled, returns triggered_index() else.
Return(s) ==
    /\ where[s] = "caught"
    /\ Goto(s, "remove")
    /\ UNCHANGED <<vars, listed, calling, m_map, scheduleVars, runnerVars>> /\ SessionOnly

\* remove_callback(), up to the mutex of the runner.
RemoveCallback(s) ==
    /\ where[s] = "remove" /\ PivotFree
    /\ \E c \in listed[s] :
          IF m_map[c] = NoAddress
          THEN listed' = [listed EXCEPT ![s] = @ \ {c}] /\ UNCHANGED <<where, calling>>
          ELSE /\ Goto(s, "removing")
               /\ calling' = [calling EXCEPT ![s] = c]
               /\ UNCHANGED listed
    /\ UNCHANGED <<vars, m_map, scheduleVars, runnerVars>> /\ SessionOnly

\* remove_event() under the mutex.
Remove(s) ==
    /\ Drop(m_map[calling[s]])
    /\ notify
    /\ m_map' = [m_map EXCEPT ![calling[s]] = NoAddress]
    /\ listed' = [listed EXCEPT ![s] = @ \ {calling[s]}]
    /\ Goto(s, "remove")
    /\ calling' = [calling EXCEPT ![s] = NoCallback]
    /\ UNCHANGED <<vars, current>> /\ SessionOnly

\* Mutant: the event is removed while it may run.
RemoveEventUnlocked(s) == where[s] = "removing" /\ Remove(s)

RemoveEvent(s) == where[s] = "removing" /\ LockFree /\ Remove(s)

\* The session is gone, and the scope goes.
Over(s) == where[s] = "remove" /\ listed[s] = {}

Leaves(s) ==
    /\ Over(s)
    /\ Destroy(s)
    /\ Goto(s, "over")
    /\ m_triggered' = [m_triggered EXCEPT ![s] = NoCallback]
    /\ UNCHANGED <<listed, calling, m_map, scheduleVars, runnerVars, fate, stopping>>

-----------------------------------------------------------------------------
(* The stop, and the pivot in it.                                          *)

Stop == (\E e \in Exceptions : CallCancel(Stopper, Root, e)) /\ UNCHANGED pivotVars

\* The thread that cancels n is in the stop_all_commands() of a child.
InStop(n) == \E c \in stopping : Parent[c] = n /\ by[c] = by[n]

\* The cancel() of a BotBaseContext is that of a scope, and then a call of
\* stop_all_commands(), in the same thread: under the mutex of the runner, or
\* under the lock of the scope above.
CancelTree(n) ==
    /\ n # Pivot /\ ~ InStop(n)
    /\ \/ (CancelLock(n) \/ CancelChild(n)) /\ UNCHANGED stopping
       \/ CancelReturn(n) /\ stopping' = stopping \cup ({n} \cap Contexts)
    /\ UNCHANGED <<sessionVars, m_map, scheduleVars, runnerVars, fate>>

\* It returns, or throws, which is caught.
CommandsStopped(n) ==
    /\ n \in stopping
    /\ stopping' = stopping \ {n}
    /\ UNCHANGED <<vars, sessionVars, m_map, scheduleVars, runnerVars, fate>>

\* PeriodicRunner::cancel().
PivotLock ==
    /\ LockFree /\ CancelLock(Pivot)
    /\ UNCHANGED pivotVars

\* Mutant: the thread is not notified.
PivotCancelSilently ==
    /\ CancelReturn(Pivot)
    /\ UNCHANGED pivotVars

PivotCancel ==
    /\ CancelReturn(Pivot)
    /\ notify
    /\ UNCHANGED <<scheduleVars, current>> /\ RunnerOnly

DestructorOnly == UNCHANGED <<sessionVars, m_map, scheduleVars, current, stopping>>

\* The constructor of the pivot comes before the sessions.
Construct ==
    /\ fate = "unborn"
    /\ Attach(Pivot)
    /\ fate' = IF cancelled[Root] THEN "gone" ELSE "used"
    /\ UNCHANGED runner /\ DestructorOnly

\* The destructor, when the program has ended: detach(), and stop_thread(),
\* which cancels the runner and waits for its thread.
Detach ==
    /\ fate = "used" /\ \A s \in Sessions : where[s] \in {"unused", "over"}
    /\ Destroy(Pivot)
    /\ fate' = "detached"
    /\ UNCHANGED runner /\ DestructorOnly

StopThread ==
    /\ fate = "detached"
    /\ fate' = IF cancelled[Pivot] THEN "joining" ELSE "flagged"
    /\ UNCHANGED <<vars, runner>> /\ DestructorOnly

NotifyThread ==
    /\ fate = "flagged" /\ LockFree
    /\ notify
    /\ fate' = "joining"
    /\ UNCHANGED vars /\ DestructorOnly

Join ==
    /\ fate = "joining" /\ runner \in {"none", "exited"}
    /\ fate' = "gone"
    /\ UNCHANGED <<vars, runner>> /\ DestructorOnly

-----------------------------------------------------------------------------
PivotInit ==
    /\ Init
    /\ by[Root] = Stopper
    /\ where = [s \in Sessions |-> "unused"]
    /\ listed = [s \in Sessions |-> {}]
    /\ calling = [s \in Sessions |-> NoCallback]
    /\ m_triggered = [s \in Sessions |-> NoCallback]
    /\ m_map = [c \in Callbacks |-> NoAddress]
    /\ m_events = [a \in Addresses |-> 0]
    /\ m_callback_id = 1
    /\ m_schedule = <<>>
    /\ runner = "none" /\ current = NoEntry
    /\ fate = "unborn" /\ stopping = {}

\* What goes on once it is under way.
RunStep     == RunReturns \/ RunStops \/ RunThrows
RunnerStep  == Top \/ Yield \/ SleepEnds \/ RunStep \/ Trigger \/ CancelReturned
SessionStep(s) ==
    \/ AddCallback(s) \/ AddEvent(s) \/ WaitEnds(s)
    \/ (cancelled[s] /\ CommandEnds(s))
    \/ Return(s) \/ RemoveCallback(s) \/ RemoveEvent(s) \/ Leaves(s)
CancelSteps(n) == CancelTree(n) \/ (n = Pivot /\ (PivotLock \/ PivotCancel))
DestructorStep == StopThread \/ NotifyThread \/ Join

PivotNext ==
    \/ \E s \in Sessions : Enter(s) \/ Wait(s) \/ WaitPasses(s) \/ CommandEnds(s) \/ SessionStep(s)
    \/ RunnerStep \/ RunnerSpuriousWakeup
    \/ \E n \in Nodes : CancelSteps(n) \/ CommandsStopped(n)
    \/ \E id \in 1 .. Cardinality(Callbacks) : Time(id)
    \/ Stop \/ Construct \/ Detach \/ DestructorStep

PivotSpec == PivotInit /\ [][PivotNext]_pvars

\* Every thread goes on, callbacks return, time passes, a command in a
\* cancelled scope ends, and so does a program whose scope is cancelled.
\* Nothing else makes a command end, a wait time out, or a program stop.
ThreadsGoOn ==
    /\ WF_pvars(RunnerStep)
    /\ \A s \in Sessions : WF_pvars(SessionStep(s))
    /\ \A t \in {Runner, Stopper} : WF_pvars(\E n \in Nodes : by[n] = t /\ CancelSteps(n))
    /\ \A id \in 1 .. Cardinality(Callbacks) : WF_pvars(Time(id))
    /\ WF_pvars(Construct \/ (cancelled[Root] /\ Detach) \/ DestructorStep)

\* An assumption about the message layer.  It is true of a device that
\* answers and a connection that is used by this thread only, or is stopped
\* later; IssueReturns and WaitsEnd of PABotBase say where it fails.
StopCallsReturn == \A n \in Contexts : WF_pvars(CommandsStopped(n))

PivotFairSpec == PivotSpec /\ ThreadsGoOn /\ StopCallsReturn

\* Without the assumption.
PivotBlockedSpec == PivotSpec /\ ThreadsGoOn

-----------------------------------------------------------------------------
(* Properties.                                                             *)

\* While the runner is in run(), what it runs is registered: the event has
\* the id of the entry that was due, although addresses come again and
\* stale entries stay in the schedule, and the scope it may cancel exists.
\* Nor has the owner of a scope anything left to wait for before it
\* destroys it: remove_callback() has waited for the callback, and the lock
\* of the scope above for a cancel that is still in stop_all_commands().
CallbackIsLive ==
    /\ Running =>
          \E c \in Callbacks :
              /\ m_map[c] = current.event /\ Live(current)
              /\ life[ScopeOf[c]] = "attached"
    /\ \A s \in Sessions : Over(s) => MayDestroy(s)
    /\ \A s \in stopping : life[s] = "attached"

\* wait_until() and run_until() catch the exception of a command whose scope
\* was cancelled.  When they do not throw after that, a callback has been
\* triggered, and they return its index, or one has thrown: -1 never hides
\* that the video showed what they were waiting for.
TriggerIsReported ==
    \A s \in Sessions :
        where[s] = "caught" /\ ~ cancelled[Parent[s]] => m_triggered[s] # NoCallback \/ exception[s] # NoException

\* InferenceRoutines.h:61-62: exceptions thrown in the callbacks are
\* propagated out of run_until().
ErrorIsPropagated ==
    [][\A s \in Sessions : Return(s) => cancelled[Parent[s]] \/ carried[s] = NoException]_pvars

Registered(c) == m_map[c] # NoAddress /\ m_events[m_map[c]] # 0

\* A registered callback runs again and again, however many others are due
\* all the time, until it is removed or the program is stopped.  As long as
\* the calls of stop_all_commands() return, which the runner may be in.
CallbackRuns ==
    \A c \in Callbacks :
        Registered(c) ~> RunnerCancelled \/ ~ Registered(c) \/ (Running /\ m_map[c] = current.event)

\* A thread that adds or removes a callback gets the mutex, from a runner
\* that always has another callback to run, and whose callbacks may cancel a
\* context.  Also if stop_all_commands() returns.
CallsEnd == WaitPending ~> ~ WaitPending

\* A stop of the program gets every session out and the runner to its end,
\* whatever callbacks cancel at that moment: the locks of the scopes, of the
\* pivot and of its runner are taken in one order, also those held in
\* stop_all_commands().  If that blocks (StopCallsReturn), so does the stop.
ProgramEnds == cancelled[Root] ~> fate = "gone"
=============================================================================
