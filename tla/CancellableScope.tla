-------------------------- MODULE CancellableScope --------------------------
(***************************************************************************)
(* The tree of cancellable scopes that every running program is built on:  *)
(* classes Cancellable, CancellableScope and CancellableHolder             *)
(* (Common/Cpp/CancellableScope.h, .cpp).  cancel() marks a scope, then    *)
(* takes its lock and cancels the children one after the other while it    *)
(* holds it.  Meanwhile other threads attach and detach children, cancel   *)
(* other scopes of the same tree, and wait in them.                        *)
(*                                                                         *)
(* Each node goes through cancel() once: the call that finds it not yet    *)
(* cancelled.  The progress of that call is kept with the node.            *)
(***************************************************************************)
EXTENDS Naturals, FiniteSets

CONSTANTS
    Nodes,          \* the scopes and other cancellables
    Root,           \* the node without a parent
    Parent,         \* the scope that each other node is constructed with
    Threads,
    Exceptions,     \* what cancel() may be given
    NoException,    \* nullptr
    NoNode

ASSUME CancellableScopeAssumption ==
    /\ Root \in Nodes /\ NoNode \notin Nodes
    /\ Parent \in [Nodes \ {Root} -> Nodes]
    /\ NoException \notin Exceptions

VARIABLES
    life,           \* "unborn", "attached" or "dead"; the root counts as attached
    children,       \* CancellableScopeData::children
    cancelled, exception,
    stage,          \* of the first cancel(): "none", "flagged", "locked", "done"
    by,             \* the thread that runs it
    carried,        \* the exception it was given
    todo,           \* the children it has not come to
    pc, at          \* per thread: what public function it is in, and of which node

cancelVars == <<cancelled, exception, stage, by, carried, todo>>
threadVars == <<pc, at>>
vars       == <<life, children, cancelVars, threadVars>>

ChildrenOf(n) == {c \in Nodes \ {Root} : Parent[c] = n}

\* The mutex of a scope outlives a step only in cancel().
Unlocked(n) == stage[n] # "locked"

\* The thread that cancels n is inside the cancel() of a child.
InChild(n) == \E c \in ChildrenOf(n) : by[c] = by[n] /\ stage[c] \in {"flagged", "locked"}

\* A thread in m_cv.wait() of a notified scope takes the lock again.
notify_all(n) == [t \in Threads |-> IF at[t] = n /\ pc[t] = "waiting" THEN "wait_lock" ELSE pc[t]]

-----------------------------------------------------------------------------
\* Mutant: the check is made before the lock is taken.
AttachUnchecked(c) ==
    /\ c # Root /\ life[c] = "unborn" /\ life[Parent[c]] = "attached"
    /\ Unlocked(Parent[c])
    /\ life' = [life EXCEPT ![c] = "attached"]
    /\ children' = [children EXCEPT ![Parent[c]] = @ \cup {c}]
    /\ UNCHANGED <<cancelVars, threadVars>>

\* The constructor with a parent: attach(), operator +=.  When the parent is
\* cancelled it throws, and the object is gone.
Attach(c) ==
    /\ c # Root /\ life[c] = "unborn" /\ life[Parent[c]] = "attached"
    /\ Unlocked(Parent[c])
    /\ IF cancelled[Parent[c]]
       THEN life' = [life EXCEPT ![c] = "dead"] /\ UNCHANGED children
       ELSE /\ life' = [life EXCEPT ![c] = "attached"]
            /\ children' = [children EXCEPT ![Parent[c]] = @ \cup {c}]
    /\ UNCHANGED <<cancelVars, threadVars>>

\* What the header demands of a destruction: the children are gone, and the
\* owner lets nobody use the object.
MayDestroy(c) ==
    /\ c # Root /\ life[c] = "attached"
    /\ \A d \in ChildrenOf(c) : life[d] # "attached"
    /\ \A t \in Threads : at[t] # c

\* Mutant: detach() does not take the lock.
DestroyUnlocked(c) ==
    /\ MayDestroy(c)
    /\ life' = [life EXCEPT ![c] = "dead"]
    /\ children' = [children EXCEPT ![Parent[c]] = @ \ {c}]
    /\ UNCHANGED <<cancelVars, threadVars>>

\* The destructor: detach(), operator -=.
Destroy(c) ==
    /\ MayDestroy(c)
    /\ Unlocked(Parent[c])
    /\ life' = [life EXCEPT ![c] = "dead"]
    /\ children' = [children EXCEPT ![Parent[c]] = @ \ {c}]
    /\ UNCHANGED <<cancelVars, threadVars>>

-----------------------------------------------------------------------------
(* cancel().                                                               *)

\* Mutant: an object already cancelled keeps no later exception.
MarkOnce(t, n, e) ==
    /\ exception' = IF cancelled[n] THEN exception ELSE [exception EXCEPT ![n] = e]
    /\ IF cancelled[n]
       THEN UNCHANGED <<cancelled, stage, by, carried>>
       ELSE /\ cancelled' = [cancelled EXCEPT ![n] = TRUE]
            /\ stage' = [stage EXCEPT ![n] = "flagged"]
            /\ by' = [by EXCEPT ![n] = t]
            /\ carried' = [carried EXCEPT ![n] = e]

\* Cancellable::cancel(), one section under the spin lock.  The first
\* exception stays, the first call goes on.
Mark(t, n, e) ==
    /\ exception' = IF exception[n] = NoException THEN [exception EXCEPT ![n] = e] ELSE exception
    /\ IF cancelled[n]
       THEN UNCHANGED <<cancelled, stage, by, carried>>
       ELSE /\ cancelled' = [cancelled EXCEPT ![n] = TRUE]
            /\ stage' = [stage EXCEPT ![n] = "flagged"]
            /\ by' = [by EXCEPT ![n] = t]
            /\ carried' = [carried EXCEPT ![n] = e]

CallCancel(t, n, e) ==
    /\ pc[t] = "idle" /\ life[n] = "attached"
    /\ Mark(t, n, e)
    /\ IF cancelled[n]
       THEN UNCHANGED threadVars
       ELSE pc' = [pc EXCEPT ![t] = "cancel"] /\ at' = [at EXCEPT ![t] = n]
    /\ UNCHANGED <<life, children, todo>>

CancelLock(n) ==
    /\ stage[n] = "flagged"
    /\ stage' = [stage EXCEPT ![n] = "locked"]
    /\ todo' = [todo EXCEPT ![n] = children[n]]
    /\ UNCHANGED <<life, children, cancelled, exception, by, carried, threadVars>>

CancelChild(n) ==
    /\ stage[n] = "locked" /\ ~ InChild(n)
    /\ \E c \in todo[n] :
          /\ todo' = [todo EXCEPT ![n] = @ \ {c}]
          /\ Mark(by[n], c, carried[n])
    /\ UNCHANGED <<life, children, threadVars>>

\* The end of cancel(): nobody is left in children, waiters are notified.
Leave(n, pcs) ==
    IF at[by[n]] = n
    THEN pc' = [pcs EXCEPT ![by[n]] = "idle"] /\ at' = [at EXCEPT ![by[n]] = NoNode]
    ELSE pc' = pcs /\ UNCHANGED at

\* Mutant: the waiters of the scope are forgotten.
CancelReturnSilently(n) ==
    /\ stage[n] = "locked" /\ todo[n] = {} /\ ~ InChild(n)
    /\ stage' = [stage EXCEPT ![n] = "done"]
    /\ children' = [children EXCEPT ![n] = {}]
    /\ Leave(n, pc)
    /\ UNCHANGED <<life, cancelled, exception, by, carried, todo>>

CancelReturn(n) ==
    /\ stage[n] = "locked" /\ todo[n] = {} /\ ~ InChild(n)
    /\ stage' = [stage EXCEPT ![n] = "done"]
    /\ children' = [children EXCEPT ![n] = {}]
    /\ Leave(n, notify_all(n))
    /\ UNCHANGED <<life, cancelled, exception, by, carried, todo>>

-----------------------------------------------------------------------------
(* wait_for(), wait_until() and wait_until_cancel().  A cancelled scope     *)
(* makes them throw at once, without a step.                                *)

CallWait(t, n) ==
    /\ pc[t] = "idle" /\ life[n] = "attached" /\ ~ cancelled[n]
    /\ pc' = [pc EXCEPT ![t] = "wait_lock"] /\ at' = [at EXCEPT ![t] = n]
    /\ UNCHANGED <<life, children, cancelVars>>

\* The predicate is evaluated under the lock.
WaitCheck(t) ==
    /\ pc[t] = "wait_lock" /\ Unlocked(at[t])
    /\ IF cancelled[at[t]]
       THEN pc' = [pc EXCEPT ![t] = "idle"] /\ at' = [at EXCEPT ![t] = NoNode]
       ELSE pc' = [pc EXCEPT ![t] = "waiting"] /\ UNCHANGED at
    /\ UNCHANGED <<life, children, cancelVars>>

\* The time is up: only wait_for() and wait_until() may get here.
WaitTimeout(t) ==
    /\ pc[t] = "waiting" /\ Unlocked(at[t])
    /\ pc' = [pc EXCEPT ![t] = "idle"] /\ at' = [at EXCEPT ![t] = NoNode]
    /\ UNCHANGED <<life, children, cancelVars>>

SpuriousWakeup(t) ==
    /\ pc[t] = "waiting"
    /\ pc' = [pc EXCEPT ![t] = "wait_lock"]
    /\ UNCHANGED <<life, children, cancelVars, at>>

-----------------------------------------------------------------------------
Init ==
    /\ life = [n \in Nodes |-> IF n = Root THEN "attached" ELSE "unborn"]
    /\ children = [n \in Nodes |-> {}]
    /\ cancelled = [n \in Nodes |-> FALSE]
    /\ exception = [n \in Nodes |-> NoException]
    /\ stage = [n \in Nodes |-> "none"]
    /\ by \in [Nodes -> Threads] /\ \A m, n \in Nodes : by[m] = by[n]
    /\ carried = [n \in Nodes |-> NoException]
    /\ todo = [n \in Nodes |-> {}]
    /\ pc = [t \in Threads |-> "idle"]
    /\ at = [t \in Threads |-> NoNode]

CancelStep(n) == CancelLock(n) \/ CancelChild(n) \/ CancelReturn(n)

Next ==
    \/ \E c \in Nodes : Attach(c) \/ Destroy(c)
    \/ \E t \in Threads, n \in Nodes :
          CallWait(t, n) \/ \E e \in Exceptions \cup {NoException} : CallCancel(t, n, e)
    \/ \E n \in Nodes : CancelStep(n)
    \/ \E t \in Threads : WaitCheck(t) \/ WaitTimeout(t) \/ SpuriousWakeup(t)

Spec == Init /\ [][Next]_vars

\* A thread inside cancel() or holding back from the lock keeps running.
\* No wait need time out, wake by itself, or be ended by a cancel.
FairSpec ==
    /\ Spec
    /\ \A n \in Nodes : WF_vars(CancelStep(n))
    /\ \A t \in Threads : WF_vars(WaitCheck(t))

-----------------------------------------------------------------------------
TypeOK ==
    /\ life \in [Nodes -> {"unborn", "attached", "dead"}]
    /\ children \in [Nodes -> SUBSET Nodes]
    /\ cancelled \in [Nodes -> BOOLEAN]
    /\ exception \in [Nodes -> Exceptions \cup {NoException}]
    /\ stage \in [Nodes -> {"none", "flagged", "locked", "done"}]
    /\ by \in [Nodes -> Threads]
    /\ carried \in [Nodes -> Exceptions \cup {NoException}]
    /\ todo \in [Nodes -> SUBSET Nodes]
    /\ pc \in [Threads -> {"idle", "cancel", "wait_lock", "waiting"}]
    /\ at \in [Threads -> Nodes \cup {NoNode}]

\* Once the cancel() of a scope has returned, each of its children has been
\* cancelled, also one that was attached while it ran.
ChildrenAreReached ==
    \A c \in Nodes \ {Root} :
        life[c] = "attached" /\ stage[Parent[c]] = "done" => cancelled[c]

\* ... and given the exception, unless it already had one, so that
\* throw_if_cancelled() in the child throws an exception too.
ExceptionReachesChildren ==
    \A c \in Nodes \ {Root} :
        life[c] = "attached" /\ stage[Parent[c]] = "done" /\ carried[Parent[c]] # NoException
            => exception[c] # NoException

\* cancel() never touches an object whose destructor has run, although the
\* owner of the object does not know of the cancel.
NoUseAfterDestroy ==
    \A n \in Nodes :
        /\ stage[n] \in {"flagged", "locked"} => life[n] = "attached"
        /\ \A c \in children[n] : life[c] = "attached"
        /\ stage[n] = "locked" => \A c \in todo[n] : life[c] = "attached"

\* A cancel goes all the way down, whatever other cancels it meets there.
CancelReachesAll ==
    \A c \in Nodes \ {Root} :
        cancelled[Parent[c]] /\ life[c] = "attached" ~> cancelled[c] \/ life[c] = "dead"

\* A thread waiting in a scope that has been cancelled gets out.
CancelEndsWaits ==
    LET Waits(t) == pc[t] \in {"wait_lock", "waiting"}
    IN  \A t \in Threads : Waits(t) /\ cancelled[at[t]] ~> ~Waits(t)
=============================================================================
