----------------------------- MODULE ThreadPool -----------------------------
(***************************************************************************)
(* The thread pools: AsyncDispatcher, which never makes a task wait for a  *)
(* thread, and ParallelTaskRunner, which runs at most m_max_threads tasks  *)
(* at a time and makes their dispatcher wait, with AsyncTask, the handle   *)
(* of a task (Common/Cpp/Concurrency).                                     *)
(*                                                                         *)
(* A pool has one owner, who makes and destroys it: the program, for the   *)
(* two AsyncDispatchers of its environment, and the OCR training for its   *)
(* ParallelTaskRunner.  The tasks of an AsyncDispatcher (a console of      *)
(* run_in_parallel(), a command session, a periodic runner) use it as      *)
(* their owner does: they dispatch others, and wait for them.              *)
(*                                                                         *)
(* The threads of a pool are alike: they are counted, by where they are in *)
(* thread_loop().                                                          *)
(***************************************************************************)
EXTENDS Integers, Sequences

CONSTANTS
    MaxTasks,       \* bound: tasks made
    Width,          \* tasks of a run_in_parallel()
    MaxStarting,    \* threads the pool may start with, or be asked for
    MaxThreads      \* m_max_threads, of a ParallelTaskRunner

Owner   == 0
Tasks   == 1 .. MaxTasks
Actors  == {Owner} \cup Tasks

ASSUME ThreadPoolAssumption ==
    /\ MaxTasks \in Nat /\ Width \in Nat \ {0} /\ MaxStarting \in Nat
    /\ MaxThreads \in Nat \ {0} /\ MaxStarting <= MaxThreads

VARIABLES
    kind,           \* of the pool: "async", "parallel"
    m_queue,
    m_threads,      \* the number of threads made
    m_busy_count,
    m_stopping,
    ready,          \* threads that are awake and have nothing to run
    sleeping,       \* threads in m_cv.wait()
    back,           \* threads that have run a task, and are still counted as busy
    gone,           \* threads that have returned
    made,           \* the number of tasks made
    maker,          \* per task: who has dispatched it
    finished,       \* tasks with m_finished
    exceptions,     \* tasks with an m_exception
    freed,          \* tasks that are destroyed
    at,             \* per actor: what it is doing
    awaited,        \* per actor: the tasks of the wait_and_rethrow_exceptions() it is in
    asleep          \* the owner sleeps on m_dispatch_cv

poolVars == <<m_queue, m_threads, m_busy_count, m_stopping, ready, sleeping, back, gone>>
taskVars == <<made, maker, finished, exceptions, freed>>
vars     == <<kind, poolVars, taskVars, at, awaited, asleep>>

Goto(a, place) == at' = [at EXCEPT ![a] = place]

\* The handles that actor a has.  Nobody keeps those of a ParallelTaskRunner.
Handles(a) == {k \in 1 .. made : maker[k] = a /\ k \notin freed /\ kind = "async"}

-----------------------------------------------------------------------------
(* Dispatching.                                                            *)

\* Mutant: the threads that are busy count as well.
NeedsAnyThread(q, n) == q > n

\* Whether there is no thread for the last of q tasks: m_busy_count goes
\* down when a thread comes back for another task.
NeedsThread(q, n) ==
    IF kind = "async" THEN q > n - m_busy_count ELSE q + m_busy_count > n

\* Threads are made until there is one for the last of q tasks.
Grow(q) ==
    \E n \in m_threads .. m_threads + Width :
       /\ ~ NeedsThread(q, n)
       /\ \A m \in m_threads .. n - 1 : NeedsThread(q, m)
       /\ m_threads' = n

\* notify_one() for each of n tasks.
Woken(n) == IF n < sleeping THEN n ELSE sleeping

\* Under m_lock: n tasks of actor a are queued, and threads made and woken.
Enqueue(a, n) ==
    /\ made + n <= MaxTasks
    /\ made' = made + n
    /\ maker' = [k \in Tasks |-> IF k \in made + 1 .. made + n THEN a ELSE maker[k]]
    /\ m_queue' = m_queue \o [i \in 1 .. n |-> made + i]
    /\ Grow(Len(m_queue) + n)
    /\ ready' = ready + Woken(n) + m_threads' - m_threads
    /\ sleeping' = sleeping - Woken(n)
    /\ UNCHANGED <<kind, m_busy_count, m_stopping, back, gone, finished, exceptions, freed>>

Dispatch(a) ==
    /\ kind = "async" /\ at[a] = "own"
    /\ Enqueue(a, 1)
    /\ UNCHANGED <<at, awaited, asleep>>

RunInParallel(a) ==
    /\ kind = "async" /\ at[a] = "own"
    /\ Enqueue(a, Width)
    /\ Goto(a, "wait")
    /\ awaited' = [awaited EXCEPT ![a] = made + 1 .. made + Width]
    /\ UNCHANGED asleep

EnsureThreads(a) ==
    /\ kind = "async" /\ at[a] = "own"
    /\ \E n \in m_threads + 1 .. MaxStarting :
          m_threads' = n /\ ready' = ready + n - m_threads
    /\ UNCHANGED <<kind, m_queue, m_busy_count, m_stopping, sleeping, back, gone, taskVars, at, awaited, asleep>>

WaitAndRethrow(a) ==
    /\ at[a] = "own"
    /\ Goto(a, "wait")
    /\ \E k \in Handles(a) : awaited' = [awaited EXCEPT ![a] = {k}]
    /\ UNCHANGED <<kind, poolVars, taskVars, asleep>>

\* The tasks are waited for in their order.
WaitReturns(a) ==
    /\ at[a] = "wait"
    /\ awaited[a] \subseteq finished /\ awaited[a] \cap exceptions = {}
    /\ Goto(a, "own")
    /\ freed' = freed \cup awaited[a]
    /\ awaited' = [awaited EXCEPT ![a] = {}]
    /\ UNCHANGED <<kind, poolVars, made, maker, finished, exceptions, asleep>>

WaitThrows(a) ==
    /\ at[a] = "wait"
    /\ \E k \in awaited[a] \cap exceptions \cap finished :
          \A j \in awaited[a] : j < k => j \in finished
    /\ Goto(a, "unwind")
    /\ UNCHANGED <<kind, poolVars, taskVars, awaited, asleep>>

\* Mutant: the handles of the other tasks are dropped without a wait.
UnwindAtOnce(a) ==
    /\ at[a] = "unwind"
    /\ freed' = freed \cup awaited[a]
    /\ awaited' = [awaited EXCEPT ![a] = {}]
    /\ \E place \in {"own", "threw"} : Goto(a, place)
    /\ UNCHANGED <<kind, poolVars, made, maker, finished, exceptions, asleep>>

\* ~AsyncTask() of all of them; then the exception may be caught.
Unwind(a) ==
    /\ at[a] = "unwind" /\ awaited[a] \subseteq finished
    /\ freed' = freed \cup awaited[a]
    /\ awaited' = [awaited EXCEPT ![a] = {}]
    /\ \E place \in {"own", "threw"} : Goto(a, place)
    /\ UNCHANGED <<kind, poolVars, made, maker, finished, exceptions, asleep>>

\* An actor comes to its end, or throws; ~AsyncTask() of the handles it has left.
Leave(a) ==
    /\ at[a] = "own"
    /\ \E place \in {"leave", "threw"} : Goto(a, place)
    /\ UNCHANGED <<kind, poolVars, taskVars, awaited, asleep>>

\* Mutant: ~AsyncTask() does not wait.
DropHandlesAtOnce(a) ==
    /\ at[a] \in {"leave", "threw"}
    /\ Handles(a) # {}
    /\ freed' = freed \cup Handles(a)
    /\ UNCHANGED <<kind, poolVars, made, maker, finished, exceptions, at, awaited, asleep>>

DropHandles(a) ==
    /\ at[a] \in {"leave", "threw"}
    /\ Handles(a) # {} /\ Handles(a) \subseteq finished
    /\ freed' = freed \cup Handles(a)
    /\ UNCHANGED <<kind, poolVars, made, maker, finished, exceptions, at, awaited, asleep>>

-----------------------------------------------------------------------------
(* ParallelTaskRunner: the owner waits for room, or for everything.        *)

Load == Len(m_queue) + m_busy_count

CallDispatch ==
    /\ kind = "parallel" /\ at[Owner] = "own" /\ made < MaxTasks
    /\ Goto(Owner, "dispatch")
    /\ UNCHANGED <<kind, poolVars, taskVars, awaited, asleep>>

CallWaitForEverything ==
    /\ kind = "parallel" /\ at[Owner] = "own"
    /\ Goto(Owner, "everything")
    /\ UNCHANGED <<kind, poolVars, taskVars, awaited, asleep>>

DispatchWithRoom ==
    /\ at[Owner] = "dispatch" /\ ~ asleep /\ Load < MaxThreads
    /\ Enqueue(Owner, 1)
    /\ Goto(Owner, "own")
    /\ UNCHANGED <<awaited, asleep>>

EverythingIsDone ==
    /\ at[Owner] = "everything" /\ ~ asleep /\ Load = 0
    /\ Goto(Owner, "own")
    /\ UNCHANGED <<kind, poolVars, taskVars, awaited, asleep>>

OwnerSleeps ==
    /\ ~ asleep
    /\ \/ at[Owner] = "dispatch" /\ Load >= MaxThreads
       \/ at[Owner] = "everything" /\ Load # 0
    /\ asleep' = TRUE
    /\ UNCHANGED <<kind, poolVars, taskVars, at, awaited>>

-----------------------------------------------------------------------------
(* thread_loop().                                                          *)

\* Mutant: m_dispatch_cv is not notified.
ComesQuietly(from, n) ==
    \/ /\ from = "ready" /\ ready > 0
       /\ ready' = ready - 1
       /\ m_busy_count' = m_busy_count + n
       /\ UNCHANGED <<back, asleep>>
    \/ /\ from = "back" /\ back > 0
       /\ back' = back - 1
       /\ m_busy_count' = m_busy_count - 1 + n
       /\ UNCHANGED <<asleep, ready>>

\* Under m_lock: a thread that comes back says so first.  n is 1 for a thread
\* that leaves with a task.
Comes(from, n) ==
    \/ /\ from = "ready" /\ ready > 0
       /\ ready' = ready - 1
       /\ m_busy_count' = m_busy_count + n
       /\ UNCHANGED <<back, asleep>>
    \/ /\ from = "back" /\ back > 0
       /\ back' = back - 1
       /\ m_busy_count' = m_busy_count - 1 + n
       /\ asleep' = FALSE
       /\ UNCHANGED ready

Exit(from) ==
    /\ m_stopping
    /\ Comes(from, 0)
    /\ gone' = gone + 1
    /\ UNCHANGED <<kind, m_queue, m_threads, m_stopping, sleeping, taskVars, at, awaited>>

Sleep(from) ==
    /\ ~ m_stopping /\ m_queue = <<>>
    /\ Comes(from, 0)
    /\ sleeping' = sleeping + 1
    /\ UNCHANGED <<kind, m_queue, m_threads, m_stopping, gone, taskVars, at, awaited>>

Take(from) ==
    /\ ~ m_stopping /\ m_queue # <<>>
    /\ Comes(from, 1)
    /\ m_queue' = Tail(m_queue)
    /\ Goto(Head(m_queue), "own")
    /\ UNCHANGED <<kind, m_threads, m_stopping, sleeping, gone, taskVars, awaited>>

\* The task is over, and signal().
Finish(k) ==
    /\ at[k] \in {"leave", "threw"} /\ Handles(k) = {}
    /\ Goto(k, "over")
    /\ finished' = finished \cup {k}
    /\ exceptions' = IF at[k] = "threw" THEN exceptions \cup {k} ELSE exceptions
    /\ back' = back + 1
    /\ UNCHANGED <<kind, m_queue, m_threads, m_busy_count, m_stopping, ready, sleeping, gone,
                   made, maker, freed, awaited, asleep>>

SpuriousWakeup ==
    /\ \/ /\ sleeping > 0
          /\ sleeping' = sleeping - 1 /\ ready' = ready + 1
          /\ UNCHANGED asleep
       \/ asleep /\ asleep' = FALSE /\ UNCHANGED <<sleeping, ready>>
    /\ UNCHANGED <<kind, m_queue, m_threads, m_busy_count, m_stopping, back, gone, taskVars, at, awaited>>

-----------------------------------------------------------------------------
(* The destructors of the pools.                                           *)

\* The owner has left the scopes of its handles by then.
Destroy ==
    /\ at[Owner] \in {"leave", "threw"} /\ Handles(Owner) = {}
    /\ m_stopping' = TRUE
    /\ ready' = ready + sleeping /\ sleeping' = 0
    /\ Goto(Owner, "join")
    /\ UNCHANGED <<kind, m_queue, m_threads, m_busy_count, back, gone, taskVars, awaited, asleep>>

\* The threads are joined; tasks that nobody has run are signalled.
Join ==
    /\ at[Owner] = "join"
    /\ gone = m_threads
    /\ Goto(Owner, "over")
    /\ finished' = finished \cup {m_queue[i] : i \in 1 .. Len(m_queue)}
    /\ m_queue' = <<>>
    /\ UNCHANGED <<kind, m_threads, m_busy_count, m_stopping, ready, sleeping, back, gone, made, maker,
                   exceptions, freed, awaited, asleep>>

-----------------------------------------------------------------------------
Init ==
    /\ kind \in {"async", "parallel"}
    /\ m_queue = <<>> /\ m_threads \in 0 .. MaxStarting
    /\ m_busy_count = 0 /\ m_stopping = FALSE
    /\ ready = m_threads /\ sleeping = 0 /\ back = 0 /\ gone = 0
    /\ made = 0 /\ maker = [k \in Tasks |-> Owner]
    /\ finished = {} /\ exceptions = {} /\ freed = {}
    /\ at = [a \in Actors |-> IF a = Owner THEN "own" ELSE "none"]
    /\ awaited = [a \in Actors |-> {}] /\ asleep = FALSE

ActorStep(a) == WaitReturns(a) \/ WaitThrows(a) \/ Unwind(a) \/ DropHandles(a)
OwnerStep    == DispatchWithRoom \/ EverythingIsDone \/ OwnerSleeps \/ Join
ThreadStep(from) == Exit(from) \/ Sleep(from) \/ Take(from)

Next ==
    \/ \E a \in Actors : Dispatch(a) \/ RunInParallel(a) \/ EnsureThreads(a) \/ WaitAndRethrow(a)
                         \/ Leave(a) \/ ActorStep(a)
    \/ CallDispatch \/ CallWaitForEverything \/ OwnerStep \/ Destroy
    \/ \E from \in {"ready", "back"} : ThreadStep(from)
    \/ \E k \in Tasks : Finish(k)
    \/ SpuriousWakeup

Spec == Init /\ [][Next]_vars

\* Threads go on.  A task does not run for ever: those that are loops end
\* when they are cancelled.
FairSpec ==
    /\ Spec
    /\ \A a \in Actors : WF_vars(ActorStep(a))
    /\ \A k \in Tasks : WF_vars(Leave(k)) /\ WF_vars(Finish(k))
    /\ \A from \in {"ready", "back"} : WF_vars(ThreadStep(from))
    /\ WF_vars(OwnerStep)

-----------------------------------------------------------------------------
TypeOK ==
    /\ kind \in {"async", "parallel"}
    /\ m_queue \in Seq(Tasks) /\ m_stopping \in BOOLEAN
    /\ m_threads \in Nat /\ m_busy_count \in Nat
    /\ ready \in Nat /\ sleeping \in Nat /\ back \in Nat /\ gone \in Nat
    /\ made \in 0 .. MaxTasks /\ maker \in [Tasks -> Actors]
    /\ finished \subseteq Tasks /\ exceptions \subseteq finished /\ freed \subseteq Tasks
    /\ at \in [Actors -> {"none", "own", "wait", "unwind", "leave", "threw",
                          "dispatch", "everything", "join", "over"}]
    /\ awaited \in [Actors -> SUBSET Tasks] /\ asleep \in BOOLEAN

\* m_queue holds bare pointers to the tasks of an AsyncDispatcher, and so
\* does the thread that runs one: they are not destroyed before, whatever
\* is thrown.
TasksAreAlive ==
    /\ \A i \in 1 .. Len(m_queue) : m_queue[i] \notin freed
    /\ \A k \in freed : at[k] = "over"

\* Every task in the queue has a thread of its own that is awake and has
\* nothing else to do, so that tasks may wait for tasks, and run for ever.
EveryTaskHasAThread ==
    ~ m_stopping => Len(m_queue) <= ready

\* A ParallelTaskRunner has no more threads than it may.
LimitIsKept == kind = "parallel" => m_threads <= MaxThreads

\* Nothing is left in an AsyncDispatcher that is destroyed: a task signalled
\* without having been run would leave its result unset.
NothingIsAbandoned == kind = "async" /\ m_stopping => m_queue = <<>>

\* Every task is over one day, those that nobody has run included.
TaskIsOver == \A k \in Tasks : (made >= k) ~> (k \in finished)

\* The owner of a ParallelTaskRunner is not left waiting for room.
OwnerReturns == (at[Owner] \in {"dispatch", "everything"}) ~> (at[Owner] = "own")
=============================================================================
