------------------------ MODULE AsyncCommandSession ------------------------
(***************************************************************************)
(* A session that runs controller commands on a thread of its own while    *)
(* its owner looks at the video: class AsyncCommandSession                 *)
(* (CommonFramework/Tools/InterruptableCommands.h, .cpp), used by          *)
(* SuperControlSession::run_session() and by some of the programs.  The    *)
(* owner dispatches, waits, stops and destroys; the scope above cancels    *)
(* the session and its command sets from a third thread.                   *)
(*                                                                         *)
(* The scope above is what CancellableScope describes, seen from here: a   *)
(* flag, a lock that cancel() holds while it visits the children, and the  *)
(* children.  The commands are what they do with the session: they end,    *)
(* they throw.  Calls of the message layer end, and throw once the         *)
(* connection has been stopped.                                            *)
(***************************************************************************)
EXTENDS Naturals

CONSTANTS
    MaxDispatch,    \* bound: how often the owner calls dispatch()
    CommandsFail    \* whether commands may throw exceptions of their own

ASSUME AsyncCommandSessionAssumption == MaxDispatch \in Nat /\ CommandsFail \in BOOLEAN

Commands == 1 .. MaxDispatch
None     == 0
Session  == MaxDispatch + 1     \* the session as a child of the scope

VARIABLES
    above,          \* cancel() of the scope: "none", "flagged", "locked", "in_session", "done"
    carried,        \* what it was given: "plain" (nullptr) or an "exception", ProgramCancelledException
    children, todo, \* of the scope: attached, and not yet visited by cancel()
    connection,     \* "up", "stopped"
    cancelled,      \* of the session
    mark,           \* of each command's context: "no", "plain", "exception"
    m_current,      \* the command set of the session, or None
    m_lock,         \* "free", or who holds it from one step to the next
    asleep,         \* who waits for m_cv
    owner, pending, \* where the owner is; the command it dispatches
    ending,         \* how the owner ends the session: "stop", "destroy"
    thread, current,\* where the thread is, and its pointer
    dispatched      \* how much of the bound has been used

aboveVars   == <<above, carried, children, todo>>
sessionVars == <<cancelled, mark, m_current, m_lock, asleep>>
ownerVars   == <<owner, pending, ending, dispatched>>
threadVars  == <<thread, current>>
vars        == <<aboveVars, connection, sessionVars, ownerVars, threadVars>>

AboveUnlocked == above \notin {"locked", "in_session"}
AboveFlag     == above # "none"

\* Cancellable::cancel() on the context of a command: the flag stays, and so
\* does the first exception.
Marked(m, exception) == IF "exception" \in {exception, m} THEN "exception" ELSE "plain"
Cancel(c, exception) == mark' = [mark EXCEPT ![c] = Marked(@, exception)]

notify_all == asleep' = {}
OwnerGoto(label)  == owner' = label /\ UNCHANGED ending
ThreadGoto(label) == thread' = label

\* The dispatcher signals m_thread, however its function has ended.
ThreadEnded == thread \in {"exited", "threw"}

-----------------------------------------------------------------------------
(* The owner.                                                              *)

\* The constructor: the thread runs already.  attach() throws when the scope
\* is cancelled, and the destructor of m_thread then waits for the thread.
Construct ==
    /\ owner = "construct" /\ AboveUnlocked
    /\ IF AboveFlag
       THEN OwnerGoto("abandon") /\ UNCHANGED children
       ELSE OwnerGoto("idle") /\ children' = children \cup {Session}
    /\ UNCHANGED <<above, carried, todo, connection, sessionVars, pending, dispatched, threadVars>>

Abandon ==
    /\ owner = "abandon" /\ ThreadEnded
    /\ OwnerGoto("gone")
    /\ UNCHANGED <<aboveVars, connection, sessionVars, pending, dispatched, threadVars>>

\* dispatch(): the set is attached to the scope, and then its context to it.
Dispatch ==
    /\ owner = "idle" /\ dispatched < MaxDispatch
    /\ dispatched' = dispatched + 1
    /\ pending' = dispatched + 1
    /\ OwnerGoto("attach")
    /\ UNCHANGED <<aboveVars, connection, sessionVars, threadVars>>

\* Mutant: the set is left out of the scope.
AttachNowhere ==
    /\ owner = "attach" /\ AboveUnlocked
    /\ OwnerGoto(IF AboveFlag THEN "detach" ELSE "context")
    /\ UNCHANGED <<aboveVars, connection, sessionVars, pending, dispatched, threadVars>>

AttachSet ==
    /\ owner = "attach" /\ AboveUnlocked
    /\ IF AboveFlag
       THEN OwnerGoto("detach") /\ UNCHANGED children
       ELSE OwnerGoto("context") /\ children' = children \cup {pending}
    /\ UNCHANGED <<above, carried, todo, connection, sessionVars, pending, dispatched, threadVars>>

AttachContext ==
    /\ owner = "context"
    /\ OwnerGoto(IF mark[pending] = "no" THEN "lock" ELSE "discard_throw")
    /\ UNCHANGED <<aboveVars, connection, sessionVars, pending, dispatched, threadVars>>

Lock ==
    /\ owner = "lock" /\ m_lock = "free"
    /\ m_lock' = "owner"
    /\ OwnerGoto("check")
    /\ UNCHANGED <<aboveVars, connection, cancelled, mark, m_current, asleep, pending, dispatched, threadVars>>

Store ==
    /\ m_current' = pending /\ notify_all
    /\ OwnerGoto("idle")

CheckCancelled ==
    /\ owner = "check" /\ cancelled
    /\ m_lock' = "free" /\ OwnerGoto("discard")
    /\ UNCHANGED <<aboveVars, connection, cancelled, mark, m_current, asleep, pending, dispatched, threadVars>>

CheckIdle ==
    /\ owner = "check" /\ ~ cancelled /\ m_current = None
    /\ m_lock' = "free" /\ Store
    /\ UNCHANGED <<aboveVars, connection, cancelled, mark, pending, dispatched, threadVars>>

\* Mutant: the running command is cancelled but not waited for.
ReplaceAtOnce ==
    /\ owner = "check" /\ ~ cancelled /\ m_current # None
    /\ m_lock' = "free"
    /\ Cancel(m_current, "plain")
    /\ Store
    /\ UNCHANGED <<aboveVars, connection, cancelled, pending, dispatched, threadVars>>

\* A command is there: cancel_lazy(), which throws on a stopped connection
\* after it has set the flag, and the wait for it to go.
CheckReplace ==
    /\ owner = "check" /\ ~ cancelled /\ m_current # None
    /\ m_lock' = "free"
    /\ Cancel(m_current, "plain")
    /\ IF connection = "stopped"
       THEN OwnerGoto("discard_throw") /\ UNCHANGED asleep
       ELSE OwnerGoto("replace") /\ asleep' = asleep \cup {"owner"}
    /\ UNCHANGED <<aboveVars, connection, cancelled, m_current, pending, dispatched, threadVars>>

\* Nobody looks at the flag again after this wait.
Replace ==
    /\ owner = "replace" /\ "owner" \notin asleep /\ m_lock = "free"
    /\ IF m_current = None
       THEN Store
       ELSE asleep' = asleep \cup {"owner"} /\ UNCHANGED <<m_current, owner, ending>>
    /\ UNCHANGED <<aboveVars, connection, cancelled, mark, m_lock, pending, dispatched, threadVars>>

\* The set that dispatch() has not stored is destroyed after the lock is
\* released; when dispatch() throws, the owner unwinds.
Discard ==
    /\ owner \in {"discard", "discard_throw"} /\ AboveUnlocked
    /\ children' = children \ {pending}
    /\ OwnerGoto(IF owner = "discard" THEN "idle" ELSE "detach")
    /\ UNCHANGED <<above, carried, todo, connection, sessionVars, pending, dispatched, threadVars>>

\* wait().
CallWait ==
    /\ owner = "idle"
    /\ OwnerGoto("wait")
    /\ UNCHANGED <<aboveVars, connection, sessionVars, pending, dispatched, threadVars>>

Wait ==
    /\ owner = "wait" /\ "owner" \notin asleep /\ m_lock = "free"
    /\ IF m_current = None
       THEN OwnerGoto("idle") /\ UNCHANGED asleep
       ELSE asleep' = asleep \cup {"owner"} /\ UNCHANGED <<owner, ending>>
    /\ UNCHANGED <<aboveVars, connection, cancelled, mark, m_current, m_lock, pending, dispatched, threadVars>>

\* stop_session_and_rethrow(), at the end of a session.
CallStop ==
    /\ owner = "idle"
    /\ OwnerGoto("cancel")
    /\ UNCHANGED <<aboveVars, connection, sessionVars, pending, dispatched, threadVars>>

\* Something throws, in a cancelled scope if not before, and the owner unwinds.
Unwind ==
    /\ owner = "idle"
    /\ OwnerGoto("detach")
    /\ UNCHANGED <<aboveVars, connection, sessionVars, pending, dispatched, threadVars>>

\* The destructor.
Detach ==
    /\ owner = "detach" /\ AboveUnlocked
    /\ children' = children \ {Session}
    /\ owner' = "cancel" /\ ending' = "destroy"
    /\ UNCHANGED <<above, carried, todo, connection, sessionVars, pending, dispatched, threadVars>>

\* cancel(nullptr): the flag, and for the first to set it the section under
\* m_lock (see CancelSection).
SetFlag ==
    /\ owner = "cancel"
    /\ cancelled' = TRUE
    /\ OwnerGoto(IF cancelled THEN "join" ELSE "cancel_lock")
    /\ UNCHANGED <<aboveVars, connection, mark, m_current, m_lock, asleep, pending, dispatched, threadVars>>

\* m_thread->wait_and_rethrow_exceptions(), or the destructor of m_thread.
\* What throw_if_cancelled_with_exception() throws is an Unwind from "idle".
Join ==
    /\ owner = "join" /\ ThreadEnded
    /\ OwnerGoto(IF ending = "destroy" THEN "free" ELSE IF thread = "threw" THEN "detach" ELSE "idle")
    /\ UNCHANGED <<aboveVars, connection, sessionVars, pending, dispatched, threadVars>>

\* A set that is left in m_current goes with the session.
Free ==
    /\ owner = "free" /\ AboveUnlocked
    /\ children' = children \ {m_current}
    /\ m_current' = None
    /\ OwnerGoto("gone")
    /\ UNCHANGED <<above, carried, todo, connection, cancelled, mark, m_lock, asleep, pending, dispatched, threadVars>>

-----------------------------------------------------------------------------
(* cancel(), under m_lock: by the owner or by the thread that cancels the   *)
(* scope above.  It is noexcept, and stop_all_commands() throws on a        *)
(* stopped connection: that ends the program.                               *)

Terminates == m_current = None /\ connection = "stopped"

\* Mutant: the thread is not woken.
CancelQuietly(exception) ==
    /\ m_lock = "free"
    /\ IF m_current # None THEN Cancel(m_current, exception) ELSE UNCHANGED mark
    /\ UNCHANGED asleep

CancelSection(exception) ==
    /\ m_lock = "free"
    /\ IF m_current # None THEN Cancel(m_current, exception) ELSE UNCHANGED mark
    /\ notify_all

OwnerCancels ==
    /\ owner = "cancel_lock"
    /\ CancelSection("plain")
    /\ OwnerGoto(IF Terminates THEN "terminated" ELSE "join")
    /\ UNCHANGED <<aboveVars, connection, cancelled, m_current, m_lock, pending, dispatched, threadVars>>

-----------------------------------------------------------------------------
(* The thread that cancels the scope above, CancellableScope::cancel().     *)

CancelAbove(exception) ==
    /\ above = "none"
    /\ above' = "flagged" /\ carried' = exception
    /\ UNCHANGED <<children, todo, connection, sessionVars, ownerVars, threadVars>>

LockAbove ==
    /\ above = "flagged"
    /\ above' = "locked" /\ todo' = children
    /\ UNCHANGED <<carried, children, connection, sessionVars, ownerVars, threadVars>>

CancelCommand(c) ==
    /\ above = "locked" /\ c \in todo
    /\ todo' = todo \ {c}
    /\ Cancel(c, carried)
    /\ UNCHANGED <<above, carried, children, connection, cancelled, m_current, m_lock, asleep, ownerVars, threadVars>>

FlagSession ==
    /\ above = "locked" /\ Session \in todo
    /\ todo' = todo \ {Session}
    /\ cancelled' = TRUE
    /\ above' = IF cancelled THEN "locked" ELSE "in_session"
    /\ UNCHANGED <<carried, children, connection, mark, m_current, m_lock, asleep, ownerVars, threadVars>>

CancelSession ==
    /\ above = "in_session"
    /\ CancelSection(carried)
    /\ above' = IF Terminates THEN "terminated" ELSE "locked"
    /\ UNCHANGED <<carried, children, todo, connection, cancelled, m_current, m_lock, ownerVars, threadVars>>

UnlockAbove ==
    /\ above = "locked" /\ todo = {}
    /\ above' = "done" /\ children' = {}
    /\ UNCHANGED <<carried, todo, connection, sessionVars, ownerVars, threadVars>>

\* BotBaseHandle::stop(), by the user or by internal_stop_program().
StopConnection ==
    /\ connection = "up"
    /\ connection' = "stopped"
    /\ UNCHANGED <<aboveVars, sessionVars, ownerVars, threadVars>>

-----------------------------------------------------------------------------
(* thread_loop().                                                           *)

\* Mutant: a command that is there is run in any case.
LoopUnchecked ==
    /\ thread = "loop" /\ "thread" \notin asleep /\ m_lock = "free"
    /\ IF m_current # None
       THEN ThreadGoto("run") /\ current' = m_current /\ UNCHANGED asleep
       ELSE IF cancelled
       THEN ThreadGoto("exited") /\ UNCHANGED <<asleep, current>>
       ELSE asleep' = asleep \cup {"thread"} /\ UNCHANGED <<thread, current>>
    /\ UNCHANGED <<aboveVars, connection, cancelled, mark, m_current, m_lock, ownerVars>>

Loop ==
    /\ thread = "loop" /\ "thread" \notin asleep /\ m_lock = "free"
    /\ IF cancelled
       THEN ThreadGoto("exited") /\ UNCHANGED <<asleep, current>>
       ELSE IF m_current # None
       THEN ThreadGoto("run") /\ current' = m_current /\ UNCHANGED asleep
       ELSE asleep' = asleep \cup {"thread"} /\ UNCHANGED <<thread, current>>
    /\ UNCHANGED <<aboveVars, connection, cancelled, mark, m_current, m_lock, ownerVars>>

\* The commands are done, and so are their requests.
RunReturns ==
    /\ thread = "run"
    /\ ThreadGoto("finish")
    /\ UNCHANGED <<aboveVars, connection, sessionVars, ownerVars, current>>

\* OperationCancelledException: from the message layer, or from a context
\* that was cancelled without an exception.
RunCancelled ==
    /\ thread = "run" /\ mark[current] # "no"
    /\ ThreadGoto("finish")
    /\ UNCHANGED <<aboveVars, connection, sessionVars, ownerVars, current>>

\* Any other exception leaves thread_loop(): the one that came with the
\* cancel, InvalidConnectionStateException, or one of the commands.
RunThrows ==
    /\ thread = "run"
    /\ mark[current] = "exception" \/ connection = "stopped" \/ CommandsFail
    /\ ThreadGoto("threw")
    /\ UNCHANGED <<aboveVars, connection, sessionVars, ownerVars, current>>

\* Mutant: whoever waits for the command is not told.
FinishQuietly ==
    /\ thread = "finish" /\ m_lock = "free"
    /\ m_lock' = "thread"
    /\ m_current' = None
    /\ ThreadGoto("unlock")
    /\ UNCHANGED <<aboveVars, connection, cancelled, mark, asleep, ownerVars, current>>

Finish ==
    /\ thread = "finish" /\ m_lock = "free"
    /\ m_lock' = "thread"
    /\ m_current' = None /\ notify_all
    /\ ThreadGoto("unlock")
    /\ UNCHANGED <<aboveVars, connection, cancelled, mark, ownerVars, current>>

\* Mutant: the set is destroyed before the lock is released.
DropLocked ==
    /\ thread = "unlock" /\ AboveUnlocked
    /\ children' = children \ {current}
    /\ m_lock' = "free"
    /\ ThreadGoto("loop")
    /\ UNCHANGED <<above, carried, todo, connection, cancelled, mark, m_current, asleep, ownerVars, current>>

Unlock ==
    /\ thread = "unlock"
    /\ m_lock' = "free"
    /\ ThreadGoto("drop")
    /\ UNCHANGED <<aboveVars, connection, cancelled, mark, m_current, asleep, ownerVars, current>>

\* The set is destroyed: it detaches from the scope above.
Drop ==
    /\ thread = "drop" /\ AboveUnlocked
    /\ children' = children \ {current}
    /\ ThreadGoto("loop")
    /\ UNCHANGED <<above, carried, todo, connection, sessionVars, ownerVars, current>>

SpuriousWakeup(t) ==
    /\ t \in asleep
    /\ asleep' = asleep \ {t}
    /\ UNCHANGED <<aboveVars, connection, cancelled, mark, m_current, m_lock, ownerVars, threadVars>>

-----------------------------------------------------------------------------
\* The constructor has dispatched the thread; the scope may be cancelled.
Init ==
    /\ above = "none" /\ carried = "plain" /\ children = {} /\ todo = {}
    /\ connection = "up"
    /\ cancelled = FALSE /\ mark = [c \in Commands |-> "no"]
    /\ m_current = None /\ m_lock = "free" /\ asleep = {}
    /\ owner = "construct" /\ pending = None /\ ending = "stop" /\ dispatched = 0
    /\ thread = "loop" /\ current = None

OwnerStep ==
    \/ Construct \/ Abandon \/ AttachSet \/ AttachContext \/ Lock
    \/ CheckCancelled \/ CheckIdle \/ CheckReplace \/ Replace \/ Discard \/ Wait
    \/ Detach \/ SetFlag \/ OwnerCancels \/ Join \/ Free

OwnerCall == Dispatch \/ CallWait \/ CallStop \/ Unwind

AboveStep == LockAbove \/ (\E c \in Commands : CancelCommand(c)) \/ FlagSession \/ CancelSession \/ UnlockAbove

ThreadStep == Loop \/ RunCancelled \/ Finish \/ Unlock \/ Drop

Terminated == above = "terminated" \/ owner = "terminated"

Next ==
    /\ ~ Terminated
    /\ \/ OwnerCall \/ OwnerStep
       \/ AboveStep \/ \E e \in {"plain", "exception"} : CancelAbove(e)
       \/ ThreadStep \/ RunReturns \/ RunThrows
       \/ StopConnection
       \/ \E t \in {"owner", "thread"} : SpuriousWakeup(t)

Spec == Init /\ [][Next]_vars

\* Every thread goes on inside these functions.  An owner under a cancelled
\* scope unwinds when it comes by throw_if_cancelled() or a wait under that
\* scope, as every loop around a session does; commands that have been
\* cancelled end.  Nobody calls, cancels or stops by obligation,
\* and commands that are not cancelled need not end.
FairSpec ==
    /\ Spec
    /\ WF_vars(~ Terminated /\ OwnerStep)
    /\ SF_vars(~ Terminated /\ AboveFlag /\ Unwind)
    /\ WF_vars(~ Terminated /\ AboveStep)
    /\ WF_vars(~ Terminated /\ ThreadStep)

-----------------------------------------------------------------------------
AboveTypeOK ==
    /\ above \in {"none", "flagged", "locked", "in_session", "done", "terminated"}
    /\ carried \in {"plain", "exception"}
    /\ children \subseteq Commands \cup {Session} /\ todo \subseteq Commands \cup {Session}
    /\ connection \in {"up", "stopped"}

SessionTypeOK ==
    /\ cancelled \in BOOLEAN
    /\ mark \in [Commands -> {"no", "plain", "exception"}]
    /\ m_current \in Commands \cup {None}
    /\ m_lock \in {"free", "owner", "thread"} /\ asleep \subseteq {"owner", "thread"}

ThreadsTypeOK ==
    /\ owner \in {"construct", "abandon", "idle", "attach", "context", "lock", "check", "replace", "discard",
                  "discard_throw", "wait", "detach", "cancel", "cancel_lock", "join", "free",
                  "gone", "terminated"}
    /\ pending \in Commands \cup {None}
    /\ ending \in {"stop", "destroy"} /\ dispatched \in Nat
    /\ thread \in {"loop", "run", "finish", "unlock", "drop", "exited", "threw"}
    /\ current \in Commands \cup {None}

TypeOK == AboveTypeOK /\ SessionTypeOK /\ ThreadsTypeOK

\* thread_loop() uses a bare pointer to the command set while m_lock is
\* free: the set stays where it is until the thread itself takes it away,
\* whoever dispatches, cancels or waits meanwhile.
RunsTheCurrent == thread \in {"run", "finish"} => current # None /\ m_current = current

\* Once a cancel from above has gone through, no command runs that has not
\* been told, also one dispatched at that moment.
CancelReachesCommands == above = "done" /\ thread = "run" => mark[current] # "no"

\* The same for a session that is stopped or destroyed by its owner: after
\* cancel() has been through m_lock, no command runs that has not been told.
StopReachesCommands ==
    cancelled /\ owner # "cancel_lock" /\ above # "in_session" /\ thread = "run" => mark[current] # "no"

\* A cancel from above ends: InterruptableCommands.cpp:72-74 and 129-131, no
\* thread that holds m_lock waits for the lock of the scope above.
CancelAboveEnds == above = "flagged" ~> above = "done" \/ Terminated

\* The thread has left with a command set in m_current.
Stranded == ThreadEnded /\ m_current # None

\* InterruptableCommands.h:47-48: a command that runs is stopped and
\* replaced, unless the thread has gone before or the program ends.
ReplaceReturns == owner = "replace" ~> owner # "replace" \/ Stranded \/ Terminated

\* A cancel from above gets the owner out of the session, whatever it is
\* doing: except where it is stranded in dispatch() or wait() (see
\* WaitReturns), or where the constructor has found the scope cancelled.
CancelFreesOwner ==
    above = "done" ~> \/ owner = "gone" \/ Terminated
                      \/ owner \in {"replace", "wait"} /\ Stranded
                      \/ owner = "abandon"

\* InterruptableCommands.h:54: wait() waits for the running command to
\* finish, so a cancel, which ends the command, ends the wait.
WaitReturns == owner = "wait" /\ above = "done" ~> owner # "wait" \/ Terminated
=============================================================================
