# A verification project for PokemonAutomation's serial programs

`Arduino-Source` drives game consoles from a PC. A program on the PC sends
requests and commands over a serial line to a microcontroller that pretends to be
a controller, looks at the video to see what happens, and can be stopped at any
moment by its user. Everything a program does goes through the concurrent pieces of
code that are modelled here:

 * the **message layer** (`ClientSource/Connection/PABotBase.*`): numbering,
   retransmission, acks, limits, and the waits of the threads that use it;
 * the **cancellation tree** (`Common/Cpp/CancellableScope.*`): how a stop gets
   from where it is asked for to every thread that has to hear of it;
 * the **connection handle** (`CommonFramework/Tools/BotBaseHandle.*`): how
   connections are opened, polled, stopped and replaced;
 * the **program sessions** (`CommonFramework/ProgramSession.*`, `NintendoSwitch/Framework`):
   how a program is started and stopped on top of such a handle;
 * the **command session** (`CommonFramework/Tools/InterruptableCommands.*`): a thread
   that runs one replaceable command at a time;
 * the **inference pivots** (`Common/Cpp/Concurrency/PeriodicScheduler.*`,
   `CommonFramework/InferenceInfra`): callbacks that look at the video and end the
   command that waits for what they see;
 * the **thread pools** (`Common/Cpp/Concurrency/AsyncDispatcher.*`,
   `ParallelTaskRunner.*`), on whose threads all of this runs.

Paths below are relative to the root of the repository, and those of
`CommonFramework`, `NintendoSwitch` and `Integrations` to `SerialPrograms/Source`.

## Inventory

| component | state | operations | talks to | what is hard | what makes it correct |
|---|---|---|---|---|---|
| Message layer, `PABotBase` | `m_send_seq`, maps of pending requests and commands, `m_state`, `m_error` | `try_issue_*`, `issue_*`, `wait_*`, `stop_all_commands`, `next_command_interrupt`, `connect`, `stop`; retransmit and receiver thread | calls the line, called back by it; cancelled through `BotBaseContext` | several threads, loss, retransmission, 32-bit numbers, device restart | answers are credited to the right message, limits hold, each command is processed once and in order, every wait ends |
| Framing, `PABotBaseConnection` | receive buffer | `send_message`, `on_recv` | between the line and the message layer | garbage, resynchronisation | only whole messages with the right checksum come through |
| Cancellation tree, `CancellableScope` | flag, exception and children of every scope | attach, detach, `cancel`, waits | holders of scopes; `BotBaseContext`, pivots and sessions are children | a cancel meets construction, destruction, waiting and other cancels | everything below hears of it, nothing destroyed is touched, waits end |
| Connection handle, `BotBaseHandle` | `m_state`, `m_botbase`, status thread, watchdog | `stop`, `reset`, `try_*` | owns a `PABotBase`; called by GUI, sessions, integrations | state changed from two sides, joins under a lock | READY means usable, threads do not outlive the connection, stop ends |
| Command session, `AsyncCommandSession` | `m_current`, a thread, a flag | `dispatch`, `wait`, `cancel`, `stop_session_and_rethrow` | runs commands on the message layer, child of a scope | cancel from above and below, replacement of a running command, two locks | the command that runs exists, a cancel reaches it, every call ends |
| Program sessions | `m_state`, `m_scope`, a thread | `start_program`, `stop_program`, `shutdown` | stop and reset the handle, cancel the scope | a stop at any point of the start, waits under a lock | a cancelled program stops, its scope exists when it is cancelled, and it uses no replaced connection |
| Periodic runner, inference pivots | schedule, events, callbacks, `m_triggered` | add, remove, run, cancel; `wait_until`, `run_until` | run callbacks that cancel scopes; are children of one | removal while running, reused addresses, lock order, starvation | a removed callback never runs, a trigger is reported, everybody gets a turn |
| Dispatchers (`Common/Cpp/Concurrency`) | queue, threads, busy count | `dispatch`, `run_in_parallel`, `wait_and_rethrow_exceptions`, destructors | run everybody's threads | nested waits, exceptions, destruction | a free thread for every task, no task destroyed too early, every wait ends |
| Loggers | bounded queue, a thread | `log` | everybody logs | full queue | order, nobody is stuck |
| Everything else | options, statistics, notifications, Qt widgets, video, audio, image recognition, game programs, hex generator, vendored code | | | not concurrent, or I/O, or numeric | |

`PROJECT.json` lists all of them with the reason where one is not modelled, and
the hazards of each at its line.

## Modules

| module | what it is |
|---|---|
| `SeqNum` | `infer_full_seqnum()`: a full number from a wire number and the keys of a map |
| `MessageStream` | abstract specification, `MessageProtocol.h:101-103`: commands are processed in the order of sending, once; requests in any order, and possibly again |
| `PABotBase` | the message layer, its threads, the line and the device; `Stream` is the refinement mapping to `MessageStream` |
| `CancellableScope` | the tree of scopes |
| `BotBaseHandle` | the handle, its callers, the status thread and the watchdog |
| `ProgramSession` | extends `BotBaseHandle`: the sessions, a program and its thread, on top of the handle |
| `AsyncCommandSession` | the command session, its owner, its thread, and the scope above |
| `InferencePivot` | extends `CancellableScope`: sessions, pivot and runner as nodes and threads of a tree |
| `ThreadPool` | the two pools, their owner, threads and tasks |
| `PABotBaseLine` | the inductive invariant of the protocol: what is in the maps, on the line and in the device |
| `*Proofs` | theorems about the module of that name |
| `MC*` | instances for TLC: which thread may call what, which tree |

Two modules compose others. `ProgramSession` uses the actions of
`BotBaseHandle` for the calls that a session makes (a call is under way while the handle's `pc` is
not "idle"), and `InferencePivot` uses those of `CancellableScope`: a session that begins *is* an
`Attach`, a trigger *is* a `CallCancel`. In both cases a theorem says that the composed system only
ever does what the inner module specifies (`HandleIsUsedAsSpecified`, `TreeIsUsedAsSpecified`), so that
what is proved of the inner module is also true inside.

### PABotBase

`Clients` are threads; `pc[c]` is where a thread is inside a function and `Script[c]`
says which functions it may call. `m_send_seq`, `m_pending_requests`,
`m_pending_commands`, `m_state` and `m_error` are the members of that name; the maps
go from the full number to the state of the entry. A section under
`m_state_lock` is one action, because everything it reads and writes is protected by
that lock; where the code lets go of the lock (between a refused `try_issue_*()` and
the wait, between changing an entry and notifying) there are two actions. Condition
variables wake everybody that waits, and also nobody's notification may wake a thread
(`SpuriousWakeup`). The line is a pair of sequences from which messages may vanish:
that is what framing does to damaged ones. The device is external: it
follows the rules of `Common/Microcontroller/MessageProtocol.h` (in order,
once, ack everything, drop commands when the queue is full, resend finish messages
until they are acked), and may restart. Contents of messages are left out except for type and
number; a ghost `id` carries the full number, so that a property can say which message
an answer really answers.

`MessageProtocol.h` says two things about requests. Rules 8 and 9 (lines 75-80) speak of requests and commands
alike: what is ahead of its turn is not processed, what is old is acked and not processed again. Lines 101-103 say
that "requests are not guaranteed to process in order and may execute more than once". The device of the
model follows the rules. The promise that is checked and proved, `MessageStream`, is the weaker one of lines 101-103: it
says nothing about the order or the repetition of requests. `AckedIsKnownToDevice` (theorem `RunningIsKnown`) does rely on the rules: a device
that processed a resent stop or interrupt request a second time would drop commands issued after that request. The program relies on
them in the same way, as it sends and resends these requests like any other.

The credit of a finish message relies on the client being no more than the range of
the wire number ahead of the device; with 2^32 numbers and a window of a quarter of it
that is a matter of timing, and the model's bounds keep it (the device needs twice the gap
to fit the range, to tell old from new).

### CancellableScope

`Parent` is a tree of scopes, `life` says which are constructed, attached or destroyed,
`stage` follows one `cancel()` through the scope (flag set, lock taken, children done).
The owner's duty to keep parents alive longer than children (`CancellableScope.h:16-17`)
is `MayDestroy`. `cancel()` of a scope that is already cancelled returns true at once,
also when the first cancel has not reached the children yet: that everybody below
hears of it is therefore a liveness property (`CancelReachesAll`), and what can be said of
every state is `ChildrenAreReached`.

### BotBaseHandle

The connection appears as "none", "up" or "stopped": a call of a stopped one throws
`InvalidConnectionStateException`, other failures are errors of the device. Callers hold
`m_lock` from `Lock` to `Unlock`; the status thread goes through `thread_body()`, one
label per place where another thread can intervene. `m_label`, the signals, and
`m_allow_user_commands` (one more reason for a try function to drop) are left out.

### ProgramSession

`program_state` is `m_state`, `m_scope` is whether the pointer is published, `program`
is where the thread of the program is, and `at[c]` where a caller is in
`internal_stop_program()`. `kind` chooses between the two sessions: the one of a single console
takes its lock for the publication only and resets the connection right after the
cancel; the one of many consoles keeps the lock from the check of READY to the publication, and waits
for its program before it resets. There is one console in the model, and the GUI and one integration
as callers. `SerialPortSession` appears as the calls of the handle it makes. The buttons that reset a
connection are disabled while a program runs, through the event loop: `allowed` lags behind
the state, as it does in the code (`UpdateUi`). The try functions of the handle follow the same view of the state, unless
the system allows commands while a program runs (`allow_commands_while_running`): then nothing keeps an integration from
`try_reset()`. The destructor of the session stops the program and joins its thread while the integrations still know of the session; a
program that one of them starts at that moment is stopped by nobody (`Reachable`). After that its members are destroyed, and only
then does the base class remove it from the tracker; a call in between, or one still under way, uses a destroyed object and
is not modelled.

### AsyncCommandSession

The owner (`owner`) dispatches, waits, stops, destroys; `thread` is the session's thread with its bare
pointer `current`; a third thread cancels the scope above, which holds that scope's lock (`above =
"locked"`) while it visits the children and goes on into `cancel()` of the session, where it wants
`m_lock`. `mark` is the flag of each command's context. A command ends by itself, or throws; whether a
cancelled one ends with `OperationCancelledException` or with the exception it was given depends on
where it is, so both are possible when there is one. The connection may be stopped at any moment;
`stop_all_commands()` then throws inside of the `noexcept` cancel, which ends the program
(`Terminates`).

### InferencePivot

Nodes of the tree are the program's scope, the pivot, and one scope per inference session; sessions are
nested or one after the other, as the program's thread calls `run_until()` inside of a command or
not. `where[s]` is where a session is between construction and destruction, `listed` its `m_map`.
`m_schedule` keeps the order of the entries and which of them are due, instead of times: an entry that
is rescheduled in the past goes behind everything that is due, one in the future
anywhere behind (`Reschedule`), and `Time` makes entries due in their order.
`Heap` says which addresses the record of a callback may get, so that a
second one may get the address of a first one that has been removed while an entry of the first is still
in the schedule. `runner` is where the thread is; it holds the runner's mutex from one
callback to the next, and gives it up only while it sleeps or when `m_pending_waits` says
that somebody wants it (`Top`, `Yield`). A new entry is put in with the time from before the wait for that mutex, so that it
may get in front of entries that have become due meanwhile (`Add`).

`Contexts` are the sessions of `run_until()`. Their scope is a `BotBaseContext`, whose `cancel()` goes on to
`stop_all_commands()` when the scope has been marked and its children cancelled (`BotBase.h:112-120`). The thread that cancels is then in
`stopping` (`CancelTree`) until the call returns or throws (`CommandsStopped`), and keeps what it has: the mutex of the runner, if
a callback was its cause, or the lock of the scope above, which goes on to its next child only after that. Other sessions are
those of `wait_until()`, whose scope is a plain one. The program's own context, between the scope of the program and the sessions,
is left out: a context without callbacks that the stop passes through, like `outer` on its way to `inner`.

### ThreadPool

Threads are counted by where they are in `thread_loop()` (`ready`, `sleeping`, `back`, running a
task, `gone`): they have no other state. A task is made, queued, taken, does what its owner could do too
(dispatches, waits, throws, unwinds, leaves), and is signalled; `freed` are the destroyed ones. `m_threads -
m_busy_count` is the code's subtraction of two unsigned numbers; that it never wraps is part of
the proof's invariant.

## Runs

| run | question | bounds |
|---|---|---|
| `commands` | commands of one thread against stops and interrupts of another: are commands processed in order and once (refinement of `MessageStream`), the queue of the device, what the device still knows of cleared commands | 5 numbers, 1 loss, 2 clients |
| `replies` | nobody interferes, but a message is lost, the wire number wraps around and the device's queue is too small: is every answer credited to the right message, is everything processed, does every wait end? | 5 numbers on a wire with 4, gap 1, 1 loss, queue of 1 |
| `waits` | every way to wait against every way to get out, with a restart of the device: do waiters and entries match, do acks tell the truth, do `stop()` and `cancel()` get everybody out? | 3 numbers, 1 loss, 1 restart |
| `cancel` | does a cancel reach everything below it, and nothing destroyed? | chain of 3 scopes, 3 threads, 1 exception |
| `handle` | is a READY handle usable, do threads end before their connection, does stop end? | 2 callers, 3 connections |
| `session` | is the command that runs the current one, does every cancel reach it, is no lock waited for in a circle, does the owner get out? | 3 dispatches, commands may fail |
| `program` | does a stop cancel a scope that exists, does the session of many consoles never itself reset the connection its program uses, is no wakeup lost, does a cancelled program stop? | 2 callers, 2 connections, 2 starts |
| `pool` | is there a thread for every task, is no task destroyed too early, is nothing abandoned, does every wait end? | 3 tasks, width 2, both kinds of pool |
| `pivot` | is what runs registered, does a scope outlive its `stop_all_commands()`, is a trigger reported, does everybody get a turn and the lock, does a stop get everybody out? | a `wait_until()` inside of a `run_until()`, a callback each, 1 exception |
| `lost_wakeup` | *violation:* `issue_command()` waits although there is room | 4 numbers, no loss, queue and limit of 1 |
| `handle_deadlock` | *violation:* an error of the device meets `try_reset()` | as `handle` |
| `lost_exception` | *violation:* `run_until()` swallows the exception of a callback | as `pivot` |

Why these bounds are enough to be interesting. *Message layer:* the window of live numbers
(`MAX_SEQNUM_GAP`) is smaller than the numbers given out, so that the gap test fires; the limit of pending
commands is reached; one loss is what it takes for everything after it to be refused and resent. In
`replies` the fifth number has the wire number of the first; one number more, and the loss of that message would
be taken for a restart of the device (see `missed_one` below). *Tree:* depth 3 is the least where a cancel can be
overtaken by another one below it, and the third thread waits while two cancel. *Handle:* three
connections are the least where a handle is replaced twice, once by each caller. *Session:* with three
dispatches a command is replaced while another one waits for its turn, and one comes after the
cancel. *Program:* two callers can both be in `internal_stop_program()`, and one of them can find the scope of
a later program than the other; the system allows commands while a program runs, which has all the behaviours of one that does not, and more. *Pool:* a task of a `run_in_parallel()` dispatches and waits itself. *Pivot:* the
callback of the outer session can cancel a scope while the inner one registers or removes its own; the stop comes from a
third thread. Addresses are not reused in this instance, where both callbacks may be registered at the same time. In `contexts.cfg`
(`MCInferencePivot`) the inner session is one of `run_until()` too, so that `stop_all_commands()` is also called under two locks; all
properties of the run hold there, in 4 minutes. In `pivot_reuse.cfg` (`MCInferencePivot`) a third session comes after these two, and its callback may get the address of the first;
both invariants hold there too, but its 6 million states are near the end of what a run may take, so it is not one of the runs. For
any `Heap` this is the theorem `RunnerRunsTheLiving`.

Most of these systems end when their bounds are used up or their owner is gone, which is why only `cancel` checks for
deadlock. Nothing is resent when that would put more than `MaxInLine` messages on the line: a bound, not a claim.

Every property of a passing run has a mutant in the module (comments that begin with
"Mutant:"), a plausible slip in the code, that violates it.

### Fairness

In `PABotBase`: a thread inside a function goes on when it can; the retransmit thread
sleeps for a bounded time and then resends what is not acked; the receiver and the device
process what has come in; the device ends commands and resends finish messages. Nothing
makes a thread call a function, the line lose a message, the device restart, or a thread
wake up spuriously. In `CancellableScope` threads inside a function go on; timeouts
are not assumed. In `BotBaseHandle` every thread goes on, sleeps end
(`SERIAL_REFRESH_RATE`), and a call of the connection ends, because the device answers or fails or
`stop()` stops it. `ProgramSession` adds that whoever waits for a lock gets it if it is free again and again (strong fairness: the
locks are held for short sections by threads that come and go), that the event loop of the GUI runs, and that a program whose scope
is cancelled ends; one that is not cancelled may run for ever. In `AsyncCommandSession` commands that are
cancelled end, and an owner under a cancelled scope unwinds, because every loop around a session waits under that
scope. In `ThreadPool` tasks come to an end, and threads go on. In `InferencePivot` callbacks return, time passes,
and a command in a cancelled scope ends; no command ends by itself, and no wait times out, by obligation. That `stop_all_commands()`
returns when the cancel of a context calls it (`StopCallsReturn`) is an assumption there and not a consequence of scheduling: the message layer may
make the caller wait for room, and by `lost_wakeup` and `cleared_command` below it may do so for ever. `CallsEnd`, `CallbackRuns` and
`ProgramEnds` depend on it (`stuck_cancel` below): they say that nothing else can keep a stop from getting everybody out, and they hold of a
connection for which `IssueReturns` and `WaitsEnd` do, or that is stopped in the end. The invariants do not need it.

### What the violations mean

 * `lost_wakeup`: the check and the wait are under different locks. In the whole
   application the polling thread of `BotBaseHandle` causes a notification every moment and
   hides it; without such a thread the sleep is for ever.
 * `handle_deadlock`: `thread_body()` locks `m_lock` to set ERRORED, and the thread that holds it
   joins that thread.
 * `lost_exception`: the exception of a callback is stored in the scope of the session, and only a call of that scope
   throws it. A command that waits inside the message layer is woken by an `OperationCancelledException`
   instead, which `run_until()` catches; nobody looks for the exception after that, and the caller reads -1,
   "nothing triggered".

Further counterexamples, each reproduced by `tlc -config X.cfg M`:

 * `cleared_command.cfg` (`MCPABotBase`): `stop_all_commands()` clears a lost command before it is
   resent; the device, which follows rule 8 of `MessageProtocol.h`, goes on missing it, and the stop request is
   resent and refused for ever.
 * `missed_one.cfg` (`MCPABotBase`): `on_recv_message()` takes a missed request with number 1 for a restart
   of the device (`PABotBase.cpp:449`); when the numbers have wrapped around and the message with wire number 1 is lost, the
   client declares a restart that never was. It takes 2^32 messages.
 * `late_ready.cfg` (`MCBotBaseHandle`): READY overwrites SHUTDOWN, although `BotBaseHandle.h` says of
   SHUTDOWN that the connection is in the process of being destroyed; the watchdog and the polling loop run until the
   state is not READY, nothing changes it any more, and `stop()` waits for them. `CancelStopsProgram` therefore excludes this state
   (`HandleIsStuck`).
 * `lost_stop.cfg` (`MCProgramSession`): a stop that comes before the program of a single console has published its scope finds nothing
   to cancel, returns, and the program runs on as STOPPING; `start_program()` and `stop_program()` refuse from then on.
   With many consoles the same happens when the stop comes before the program has taken the session's lock.
 * `session_wait.cfg` (`AsyncCommandSession`): the thread of a command session leaves on a cancel, or on an exception of a command, with
   the command set still in `m_current`; an owner in `wait()`, or in a `dispatch()` that replaces, waits for ever.
 * `stuck_cancel.cfg` (`MCInferencePivot`): without `StopCallsReturn` a stop of the program is never over. A callback cancels the context of its
   session, whose `stop_all_commands()` waits for room in the message layer; the runner keeps its mutex meanwhile, the session that ends cannot
   remove its callback, and the program cannot leave.
 * In the models without a property: when the connection is stopped between READY and
   `stop_all_commands()` (`Clear`), the exception leaves the status thread and the program ends; the
   same when a session is cancelled that runs nothing while its connection is stopped (`Terminates`); after a restart of the
   device `wait_for_all_requests()` does not see `m_error` and is not woken by a cancel
   (`CancelReleasesWaiters` excludes it); and a session of one console resets the connection while its program still refers to it,
   against `BotBaseHandle.h:53-54` (`ResetsUnusedConnection` speaks of the other session,
   and only of the reset that this session makes itself: a `try_reset()` of an integration, where the system allows commands while a
   program runs or where the GUI has not yet heard of its start, replaces the connection under any program).

## Proofs

TLAPS checks, for every value of the constants that satisfies the assumptions of the modules:

 * `PABotBaseProofs`, about numbers: `InferFindsLive` and `InferRejectsStale`. If all keys are within
   a window smaller than the range, the number rebuilt from a live one's wire number is that
   number, and one that is not live does not hit a key by accident. The argument: in such a
   window at most one number has a given wire number, and the oldest and the newest key are
   at most one wrap apart.
 * `PABotBaseProofs`, about one client's maps: `TypeCorrect` (`TypeOK` is inductive); `LimitsHold`: every
   step issues one message under the limit or shrinks the maps (lemma `IssueOrShrink`), which gives
   the limits; `LiveAlwaysFound`: the same lemma shows that all live numbers fit the gap
   (`WithinGap`, the strengthening), and `InferFindsLive` does the rest; `WaitersMatchEntries`: the
   correspondence of waiters and entries is inductive relative to the types.
 * `PABotBaseLineProofs`, about the client, the line and the device together: `LineIsKept`, and from it `AckedMeansExecuted`,
   `CreditIsRight`, `RunningIsKnown`, `QueueHasRoom`, `AlarmIsRestart`, the refinement `ImplementsStream`, and
   the same for short sessions. See below.
 * `CancellableScopeProofs`: `CancelReachesChildren`, `ExceptionGoesDown` and `CancelTouchesLiveObjectsOnly`, from an
   inductive invariant that relates the flag to the stage, a child to its place, and the
   progress of a cancel to the children it still has to visit. It is needed because the property speaks of a
   finished cancel only, and a child can come and go while it runs.
 * `BotBaseHandleProofs`: `ReadyHandleIsUp`, `ConnectionOutlivesThreads` and
   `BusyWaitIsNeverEntered`, for any number of callers and connections. The inductive invariant says who is where when the lock is held,
   that the state is NOT_CONNECTED exactly when there is no status thread, that the watchdog lives only
   while the connection is polled, and that a READY handle whose connection is not up is being
   stopped.
 * `ProgramSessionProofs`: `HandleIsUsedAsSpecified` (every step of the composition is a step of `BotBaseHandle` or a stutter), and by it
   `ReadyIsUpInSession`; `CancelledScopeIsLive`, `MultiResetsSafely` and `NoLostWakeup`, from an invariant that says who
   holds the session's lock at each place of a caller and of the program, and what the program has published and refers to there.
 * `AsyncCommandSessionProofs`: `PointerIsGood`, `CancelIsComplete` and `StopIsComplete`. The inductive invariant follows a command set
   from the owner's hands into `m_current` and to the thread, says for each of these places whether it is attached, already marked, or still to
   be visited by a cancel under way, and who holds `m_lock`.
 * `ThreadPoolProofs`: `NoTaskWaitsForATask`, `NoDanglingTask` and `RunnerKeepsItsLimit`, for any number of tasks and threads. The invariant counts: every
   thread is in one place, and the busy ones are those that run a task or come back from one, so that the
   unsigned subtraction in `dispatch_task()` is the number of free threads. That needs cardinalities of the set of running tasks, and the order of
   the queue. `NothingIsLeft` needs one thing more (`Family`): a task is younger than the one that made it, and destroyed when that one is over. When
   the owner destroys the pool it has no handle left; so the oldest task that is not finished would be the owner's own, or
   one of a task that is over, and neither exists.
 * `InferencePivotProofs`: `TreeIsUsedAsSpecified` (the sessions, the pivot and its runner keep the rules of `CancellableScope`, in particular
   the owner's lifetime rule), and by it `StopReachesSessions`; `RunnerRunsTheLiving`, from an invariant that ties the session's list, the pivot's
   map and the runner's events to each other, and says in whose hands a context is while its `stop_all_commands()` runs (`StopIsHeld`); and `NoTriggerIsLost`, from one that names the cause of
   every cancelled scope: its parent, a trigger, or an exception.

### The line

Why does every answer find the right message, when wire numbers come again, messages are lost and repeated, and a stop clears
commands the device has not seen? `LineInv` (`PABotBaseLine`) is the answer, in ten parts that need each other:

 * `Handshake`, `Numbers`: until `connect()` has its answer there is nothing but its reset; after that the device has processed the first of
   what was issued, and expects the wire number of the next.
 * `Entries`, `DownLine`, `UpLine`: what is pending was sent; a message on the line is one that was sent, with its type, and an ack is about
   a number that has been processed. A message that was sent again may be older than what is in front of it, but by no more than the gap.
 * `Window`: the client is never more than about twice the gap ahead of the device. The gap test alone does not say so: it looks at the
   maps, and a stop takes commands out of the map that the device has not seen. But the stop is then pending itself, within the
   gap of what it has cleared (`Accounted`).
 * `DeviceQueue`, `WaitingIsPending`, `RoomForEach`, `Clearing`: a command the device has not finished is pending, or a stop or an interrupt has been sent
   after it, which empties the device's queue before anything that is sent later gets there.

A wire number on the line is then within the range of the numbers it could be taken for, in both directions. That takes three
or four gaps, and is why the gap is a quarter of the range (`MAX_SEQNUM_GAP` is `(seqnum_t)-1 >> 2`): hypothesis
`QuarterOfRange`, an equality in the code. The theorems have these further hypotheses:

 * `FinishesAreTimely`: a finish message does not arrive when as many numbers as the range has have been given out
   since its command. Nothing in the protocol prevents that, as finish messages are not part of the window: they are resent until
   they are acked, and an old one can stay on the line. With 32 bits it is a matter of timing. `ShortSessionsAreTimely` shows that it always holds when fewer
   numbers are given out than the range has, and `ShortSessionsAreSafe` and `ShortSessionsAreStreams` state the results for such
   sessions without it.
 * `restarts = 0`, where the property is about what the device remembers: after a restart it has forgotten everything, and the client is told so by
   `ErrorMeansRestart`'s alarm.
 * `FirstRound`, for `AlarmIsRestart`: past it the alarm may be false (`missed_one.cfg`).
 * `MAX_PENDING_REQUESTS <= DeviceQueueSize`, for `QueueHasRoom`.

TLC checks the invariant with `line.cfg` (`MCPABotBase`, a range of 8 and a gap of 1, so that the numbers go around once; 3 million states).
The constants of `commands` and `waits` satisfy the hypotheses. Those of `replies` do not: its range of 4 with a gap of 1 is half of what `QuarterOfRange`
asks for, and suffices there because nobody stops or interrupts; that is only model-checked.

### Only model-checked

Everything temporal beyond safety, in each component (the prover does not do liveness under fairness): that waits, stops, calls, tasks and programs end, that a cancel
reaches everybody, that whoever waits gets its turn. Every invariant of the runs, and the refinement, is proved. But for the hypotheses about the
line, proved theorems assume nothing but the `ASSUME`s: a gap below the range, positive limits, a tree of scopes, and who may be which thread.

## Plan

Done, in this order: message layer, cancellation tree, connection handle; command session;
program sessions on the handle; thread pools; runner and pivots on the tree. What is left, most important first:

1. Abstract specifications of the other components, and the proof that each implements its own: what a cancel, a handle and a
   pool promise to those who call them.
2. A program of several consoles: the handles and the order in which `internal_stop_program()` stops them.
3. The queue of `FileWindowLogger`, and `ScheduledTaskRunner`.
4. The byte buffer of `PABotBaseConnection` against an abstract line that loses messages.

## Not modelled

The contents of messages and their conversion to text; GUI signals; timing, other than that
sleeps end; the device's firmware beyond the protocol; sequentially inconsistent memory (the
atomics in question are acquire/release on single flags); allocation failure. Of the components that are modelled: statistics, overlays, cached
screenshots and settings; `AsyncTask::rethrow_exceptions()`; `FireForgetDispatcher` and `ScheduledTaskRunner`, which nobody waits for; the audio
pivot, which has the control of the video pivot; `m_allow_user_commands` in the handle on its own (it is `allowed` in `ProgramSession`);
programs of more than one console. And the components listed with
status `not_modelled`: the bounded queue of the logger is the only one of them with concurrency of its own, and it ends with the process.
