----------------------- MODULE CancellableScopeProofs -----------------------
(***************************************************************************)
(* Theorems about CancellableScope, for every tree, any number of threads  *)
(* and any exceptions.                                                     *)
(***************************************************************************)
EXTENDS CancellableScope, TLAPS

\* Every node runs through cancel() once.
FlagIsStage == \A n \in Nodes : cancelled[n] <=> stage[n] # "none"

\* Where an attached child is while its parent is being cancelled.
ChildIsPlaced ==
    \A c \in Nodes \ {Root} : life[c] = "attached" =>
        /\ stage[Parent[c]] \in {"none", "flagged"} => c \in children[Parent[c]]
        /\ stage[Parent[c]] = "locked" => c \in todo[Parent[c]] \/ cancelled[c]
        /\ stage[Parent[c]] = "done" => cancelled[c]

\* Both sets hold attached children only.
SetsAreChildren ==
    \A n \in Nodes :
        /\ \A c \in children[n] : c \in Nodes \ {Root} /\ Parent[c] = n /\ life[c] = "attached"
        /\ stage[n] = "locked" =>
              \A c \in todo[n] : c \in Nodes \ {Root} /\ Parent[c] = n /\ life[c] = "attached"

\* A cancel() in progress was called by somebody who holds the object, or by
\* the cancel() of the parent, which holds its lock.
InProgress(n) == stage[n] \in {"flagged", "locked"}
ProgressIsHeld ==
    \A n \in Nodes : InProgress(n) =>
        /\ life[n] = "attached"
        /\ \/ at[by[n]] = n /\ pc[by[n]] = "cancel"
           \/ n # Root /\ stage[Parent[n]] = "locked" /\ by[Parent[n]] = by[n]

\* A thread is somewhere exactly when it is inside a function.
PlaceIsFunction == \A t \in Threads : pc[t] = "idle" <=> at[t] = NoNode

Inv == TypeOK /\ FlagIsStage /\ ChildIsPlaced /\ SetsAreChildren /\ ProgressIsHeld /\ PlaceIsFunction

LEMMA InitInv == Init => Inv
<1> SUFFICES ASSUME Init PROVE Inv
  OBVIOUS
<1> USE CancellableScopeAssumption DEF Init
<1>1. TypeOK
  BY DEF TypeOK
<1>2. FlagIsStage /\ ChildIsPlaced /\ SetsAreChildren
  BY DEF FlagIsStage, ChildIsPlaced, SetsAreChildren
<1>3. ProgressIsHeld /\ PlaceIsFunction
  BY DEF ProgressIsHeld, InProgress, PlaceIsFunction
<1> QED BY <1>1, <1>2, <1>3 DEF Inv

\* What Mark() does, in the form the proofs use it.
LEMMA MarkEffect ==
    ASSUME TypeOK, NEW t \in Threads, NEW n \in Nodes, NEW e \in Exceptions \cup {NoException}, Mark(t, n, e)
    PROVE  /\ cancelled' = [cancelled EXCEPT ![n] = TRUE]
           /\ exception' \in [Nodes -> Exceptions \cup {NoException}]
           /\ carried' \in [Nodes -> Exceptions \cup {NoException}]
           /\ cancelled[n] => UNCHANGED <<stage, by>>
           /\ ~ cancelled[n] => /\ stage' = [stage EXCEPT ![n] = "flagged"]
                                /\ by' = [by EXCEPT ![n] = t]
BY DEF Mark, TypeOK

LEMMA NotifyType ==
    ASSUME TypeOK, NEW n \in Nodes
    PROVE  /\ notify_all(n) \in [Threads -> {"idle", "cancel", "wait_lock", "waiting"}]
           /\ \A t \in Threads : /\ notify_all(n)[t] = "idle" <=> pc[t] = "idle"
                                 /\ notify_all(n)[t] = "cancel" <=> pc[t] = "cancel"
BY DEF notify_all, TypeOK

LEMMA AttachInv ==
    ASSUME Inv, NEW c \in Nodes, Attach(c)
    PROVE  Inv'
<1> USE CancellableScopeAssumption DEF Inv, cancelVars, threadVars
<1>1. c \in Nodes \ {Root} /\ Parent[c] \in Nodes /\ life[c] = "unborn" /\ stage[Parent[c]] # "locked"
  BY DEF Attach, Unlocked
<1>2. UNCHANGED <<cancelled, exception, stage, by, carried, todo, pc, at>>
  BY DEF Attach
<1>3. CASE cancelled[Parent[c]]
  <2>1. life' = [life EXCEPT ![c] = "dead"] /\ children' = children
    BY <1>3 DEF Attach
  <2>2. TypeOK'
    BY <1>2, <2>1 DEF TypeOK
  <2>3. FlagIsStage' /\ PlaceIsFunction'
    BY <1>2 DEF FlagIsStage, PlaceIsFunction
  <2>4. ChildIsPlaced'
    BY <1>1, <1>2, <2>1 DEF ChildIsPlaced, TypeOK
  <2>5. SetsAreChildren' /\ ProgressIsHeld'
    BY <1>1, <1>2, <2>1 DEF SetsAreChildren, ProgressIsHeld, InProgress, TypeOK
  <2> QED BY <2>2, <2>3, <2>4, <2>5
<1>4. CASE ~ cancelled[Parent[c]]
  <2>1. /\ life' = [life EXCEPT ![c] = "attached"]
        /\ children' = [children EXCEPT ![Parent[c]] = @ \cup {c}]
        /\ stage[Parent[c]] = "none"
    BY <1>1, <1>4 DEF Attach, FlagIsStage
  <2>2. TypeOK'
    BY <1>1, <1>2, <2>1 DEF TypeOK
  <2>3. FlagIsStage' /\ PlaceIsFunction'
    BY <1>2 DEF FlagIsStage, PlaceIsFunction
  <2>4. ChildIsPlaced'
    BY <1>1, <1>2, <2>1 DEF ChildIsPlaced, TypeOK
  <2>5. SetsAreChildren'
    BY <1>1, <1>2, <2>1 DEF SetsAreChildren, TypeOK
  <2>6. ProgressIsHeld'
    BY <1>1, <1>2, <2>1 DEF ProgressIsHeld, InProgress, TypeOK
  <2> QED BY <2>2, <2>3, <2>4, <2>5, <2>6
<1> QED BY <1>3, <1>4

LEMMA DestroyInv ==
    ASSUME Inv, NEW c \in Nodes, Destroy(c)
    PROVE  Inv'
<1> USE CancellableScopeAssumption DEF Inv, cancelVars, threadVars
<1>1. /\ c \in Nodes \ {Root} /\ Parent[c] \in Nodes /\ stage[Parent[c]] # "locked"
      /\ \A d \in Nodes \ {Root} : Parent[d] = c => life[d] # "attached"
      /\ \A t \in Threads : at[t] # c
  BY DEF Destroy, MayDestroy, Unlocked, ChildrenOf
<1>2. /\ UNCHANGED <<cancelled, exception, stage, by, carried, todo, pc, at>>
      /\ life' = [life EXCEPT ![c] = "dead"]
      /\ children' = [children EXCEPT ![Parent[c]] = @ \ {c}]
  BY DEF Destroy
<1>3. ~ InProgress(c)
  BY <1>1 DEF ProgressIsHeld, InProgress, TypeOK
<1>4. TypeOK'
  BY <1>1, <1>2 DEF TypeOK
<1>5. FlagIsStage' /\ PlaceIsFunction'
  BY <1>2 DEF FlagIsStage, PlaceIsFunction
<1>6. ChildIsPlaced'
  BY <1>1, <1>2 DEF ChildIsPlaced, TypeOK
<1>7. SetsAreChildren'
  BY <1>1, <1>2 DEF SetsAreChildren, TypeOK
<1>8. ProgressIsHeld'
  BY <1>2, <1>3 DEF ProgressIsHeld, InProgress, TypeOK
<1> QED BY <1>4, <1>5, <1>6, <1>7, <1>8

LEMMA CallCancelInv ==
    ASSUME Inv, NEW t \in Threads, NEW n \in Nodes, NEW e \in Exceptions \cup {NoException}, CallCancel(t, n, e)
    PROVE  Inv'
<1> USE CancellableScopeAssumption DEF Inv
<1>1. /\ pc[t] = "idle" /\ at[t] = NoNode /\ life[n] = "attached" /\ Mark(t, n, e)
      /\ UNCHANGED <<life, children, todo>>
  BY DEF CallCancel, PlaceIsFunction
<1>2. /\ cancelled' = [cancelled EXCEPT ![n] = TRUE]
      /\ exception' \in [Nodes -> Exceptions \cup {NoException}]
      /\ carried' \in [Nodes -> Exceptions \cup {NoException}]
  BY <1>1, MarkEffect
<1>3. CASE cancelled[n]
  <2>1. UNCHANGED <<stage, by, pc, at>> /\ cancelled' = cancelled
    BY <1>1, <1>2, <1>3, MarkEffect DEF CallCancel, threadVars, TypeOK
  <2>2. TypeOK'
    BY <1>1, <1>2, <2>1 DEF TypeOK
  <2>3. FlagIsStage' /\ PlaceIsFunction' /\ ChildIsPlaced' /\ SetsAreChildren' /\ ProgressIsHeld'
    BY <1>1, <2>1 DEF FlagIsStage, PlaceIsFunction, ChildIsPlaced, SetsAreChildren, ProgressIsHeld, InProgress
  <2> QED BY <2>2, <2>3
<1>4. CASE ~ cancelled[n]
  <2>1. /\ stage' = [stage EXCEPT ![n] = "flagged"] /\ by' = [by EXCEPT ![n] = t]
        /\ pc' = [pc EXCEPT ![t] = "cancel"] /\ at' = [at EXCEPT ![t] = n] /\ stage[n] = "none"
    BY <1>1, <1>4, MarkEffect DEF CallCancel, FlagIsStage
  <2>2. TypeOK'
    BY <1>1, <1>2, <2>1 DEF TypeOK
  <2>3. FlagIsStage' /\ PlaceIsFunction'
    BY <1>2, <2>1 DEF FlagIsStage, PlaceIsFunction, TypeOK
  <2>4. ChildIsPlaced'
    BY <1>1, <1>2, <2>1 DEF ChildIsPlaced, TypeOK
  <2>5. SetsAreChildren'
    BY <1>1, <2>1 DEF SetsAreChildren, TypeOK
  <2>6. ASSUME NEW m \in Nodes, InProgress(m)'
        PROVE  /\ life'[m] = "attached"
               /\ \/ at'[by'[m]] = m /\ pc'[by'[m]] = "cancel"
                  \/ m # Root /\ stage'[Parent[m]] = "locked" /\ by'[Parent[m]] = by'[m]
    <3>1. CASE m = n
      BY <1>1, <2>1, <3>1 DEF TypeOK
    <3>2. CASE m # n
      <4>1. InProgress(m) /\ by'[m] = by[m] /\ by[m] \in Threads
        BY <2>1, <2>6, <3>2 DEF InProgress, TypeOK
      <4>2. CASE at[by[m]] = m /\ pc[by[m]] = "cancel"
        BY <1>1, <2>1, <4>1, <4>2 DEF ProgressIsHeld, TypeOK
      <4>3. CASE m # Root /\ stage[Parent[m]] = "locked" /\ by[Parent[m]] = by[m]
        <5>1. Parent[m] \in Nodes /\ Parent[m] # n
          BY <2>1, <4>3
        <5> QED BY <1>1, <2>1, <4>1, <4>3, <5>1 DEF ProgressIsHeld, TypeOK
      <4> QED BY <4>1, <4>2, <4>3 DEF ProgressIsHeld
    <3> QED BY <3>1, <3>2
  <2>7. ProgressIsHeld'
    BY <2>6 DEF ProgressIsHeld
  <2> QED BY <2>2, <2>3, <2>4, <2>5, <2>7
<1> QED BY <1>3, <1>4

LEMMA CancelLockInv ==
    ASSUME Inv, NEW n \in Nodes, CancelLock(n)
    PROVE  Inv'
<1> USE CancellableScopeAssumption DEF Inv, threadVars
<1>1. /\ stage[n] = "flagged" /\ stage' = [stage EXCEPT ![n] = "locked"]
      /\ todo' = [todo EXCEPT ![n] = children[n]]
      /\ UNCHANGED <<life, children, cancelled, exception, by, carried, pc, at>>
  BY DEF CancelLock
<1>2. TypeOK'
  BY <1>1 DEF TypeOK
<1>3. FlagIsStage' /\ PlaceIsFunction'
  BY <1>1 DEF FlagIsStage, PlaceIsFunction, TypeOK
<1>4. ChildIsPlaced'
  BY <1>1 DEF ChildIsPlaced, TypeOK
<1>5. SetsAreChildren'
  BY <1>1 DEF SetsAreChildren, TypeOK
<1>6. ProgressIsHeld'
  BY <1>1 DEF ProgressIsHeld, InProgress, TypeOK
<1> QED BY <1>2, <1>3, <1>4, <1>5, <1>6

LEMMA CancelChildInv ==
    ASSUME Inv, NEW n \in Nodes, CancelChild(n)
    PROVE  Inv'
<1> USE CancellableScopeAssumption DEF Inv, threadVars
<1>1. PICK c \in todo[n] : todo' = [todo EXCEPT ![n] = @ \ {c}] /\ Mark(by[n], c, carried[n])
  BY DEF CancelChild
<1>2. /\ stage[n] = "locked" /\ UNCHANGED <<life, children, pc, at>>
      /\ c \in Nodes \ {Root} /\ Parent[c] = n /\ life[c] = "attached"
  BY DEF CancelChild, SetsAreChildren
<1>3. by[n] \in Threads /\ carried[n] \in Exceptions \cup {NoException}
  BY DEF TypeOK
<1>4. /\ cancelled' = [cancelled EXCEPT ![c] = TRUE]
      /\ exception' \in [Nodes -> Exceptions \cup {NoException}]
      /\ carried' \in [Nodes -> Exceptions \cup {NoException}]
      /\ cancelled[c] => UNCHANGED <<stage, by>>
      /\ ~ cancelled[c] => /\ stage' = [stage EXCEPT ![c] = "flagged"]
                           /\ by' = [by EXCEPT ![c] = by[n]]
  BY <1>1, <1>2, <1>3, MarkEffect
<1>5. ~ cancelled[c] => stage[c] = "none"
  BY <1>2 DEF FlagIsStage
<1>6. TypeOK'
  BY SMTT(20), <1>1, <1>2, <1>3, <1>4 DEF TypeOK
<1>7. FlagIsStage' /\ PlaceIsFunction'
  BY <1>2, <1>4 DEF FlagIsStage, PlaceIsFunction, TypeOK
<1>8. ChildIsPlaced'
  <2>1. SUFFICES ASSUME NEW d \in Nodes \ {Root}, life[d] = "attached"
                 PROVE  /\ stage'[Parent[d]] \in {"none", "flagged"} => d \in children[Parent[d]]
                        /\ stage'[Parent[d]] = "locked" => d \in todo'[Parent[d]] \/ cancelled'[d]
                        /\ stage'[Parent[d]] = "done" => cancelled'[d]
    BY <1>2 DEF ChildIsPlaced
  <2>2. /\ stage[Parent[d]] \in {"none", "flagged"} => d \in children[Parent[d]]
        /\ stage[Parent[d]] = "locked" => d \in todo[Parent[d]] \/ cancelled[d]
        /\ stage[Parent[d]] = "done" => cancelled[d]
    BY <2>1 DEF ChildIsPlaced
  <2>3. /\ cancelled[d] => cancelled'[d]
        /\ cancelled'[c]
        /\ d # c => (d \in todo[Parent[d]] => d \in todo'[Parent[d]])
    BY <1>1, <1>2, <1>4 DEF TypeOK
  <2>4. \/ stage'[Parent[d]] = stage[Parent[d]]
        \/ stage'[Parent[d]] = "flagged" /\ stage[Parent[d]] = "none"
    BY <1>2, <1>4, <1>5 DEF TypeOK
  <2> QED BY <2>2, <2>3, <2>4
<1>9. SetsAreChildren'
  BY <1>1, <1>2, <1>4, <1>5 DEF SetsAreChildren, TypeOK
<1>10. ASSUME NEW m \in Nodes, InProgress(m)'
       PROVE  /\ life'[m] = "attached"
              /\ \/ at'[by'[m]] = m /\ pc'[by'[m]] = "cancel"
                 \/ m # Root /\ stage'[Parent[m]] = "locked" /\ by'[Parent[m]] = by'[m]
  <2>1. c # n \/ cancelled[c]
    BY <1>2, <1>5
  <2>2. stage'[n] = "locked" /\ by'[n] = by[n]
    BY <1>2, <1>4, <2>1 DEF TypeOK
  <2>3. CASE m = c /\ ~ cancelled[c]
    BY <1>2, <1>4, <2>2, <2>3 DEF TypeOK
  <2>4. CASE m # c \/ cancelled[c]
    <3>1. InProgress(m) /\ by'[m] = by[m]
      BY <1>4, <1>10, <2>4 DEF InProgress, TypeOK
    <3>2. ASSUME m # Root, stage[Parent[m]] = "locked"
          PROVE  stage'[Parent[m]] = "locked" /\ by'[Parent[m]] = by[Parent[m]]
      BY <1>4, <1>5, <3>2 DEF TypeOK
    <3> QED BY <1>2, <3>1, <3>2 DEF ProgressIsHeld
  <2> QED BY <2>3, <2>4
<1>11. ProgressIsHeld'
  BY <1>10 DEF ProgressIsHeld
<1> QED BY <1>6, <1>7, <1>8, <1>9, <1>11

LEMMA CancelReturnInv ==
    ASSUME Inv, NEW n \in Nodes, CancelReturn(n)
    PROVE  Inv'
<1> USE CancellableScopeAssumption DEF Inv
<1> DEFINE u == by[n]
<1>1. /\ stage[n] = "locked" /\ todo[n] = {} /\ ~ InChild(n)
      /\ stage' = [stage EXCEPT ![n] = "done"] /\ children' = [children EXCEPT ![n] = {}]
      /\ UNCHANGED <<life, cancelled, exception, by, carried, todo>>
  BY DEF CancelReturn
<1>2. \/ /\ at[u] = n
         /\ pc' = [notify_all(n) EXCEPT ![u] = "idle"] /\ at' = [at EXCEPT ![u] = NoNode]
      \/ /\ at[u] # n
         /\ pc' = notify_all(n) /\ at' = at
  BY DEF CancelReturn, Leave
<1>3. /\ notify_all(n) \in [Threads -> {"idle", "cancel", "wait_lock", "waiting"}]
      /\ \A t \in Threads : /\ notify_all(n)[t] = "idle" <=> pc[t] = "idle"
                            /\ notify_all(n)[t] = "cancel" <=> pc[t] = "cancel"
  BY NotifyType
<1>4. u \in Threads
  BY DEF TypeOK
<1>5. TypeOK'
  BY <1>1, <1>2, <1>3, <1>4 DEF TypeOK
<1>6. FlagIsStage'
  BY <1>1 DEF FlagIsStage, TypeOK
<1>7. PlaceIsFunction'
  BY <1>2, <1>3, <1>4 DEF PlaceIsFunction, TypeOK
<1>8. ChildIsPlaced'
  BY <1>1 DEF ChildIsPlaced, TypeOK
<1>9. SetsAreChildren'
  BY <1>1 DEF SetsAreChildren, TypeOK
<1>10. ASSUME NEW m \in Nodes, InProgress(m)'
       PROVE  /\ life'[m] = "attached"
              /\ \/ at'[by'[m]] = m /\ pc'[by'[m]] = "cancel"
                 \/ m # Root /\ stage'[Parent[m]] = "locked" /\ by'[Parent[m]] = by'[m]
  <2>1. m # n /\ InProgress(m) /\ by'[m] = by[m] /\ by[m] \in Threads /\ life'[m] = "attached"
    BY <1>1, <1>10 DEF InProgress, TypeOK, ProgressIsHeld
  <2>2. CASE at[by[m]] = m /\ pc[by[m]] = "cancel"
    BY <1>2, <1>3, <1>4, <2>1, <2>2 DEF TypeOK
  <2>3. CASE m # Root /\ stage[Parent[m]] = "locked" /\ by[Parent[m]] = by[m]
    <3>1. Parent[m] # n
      BY <1>1, <2>1, <2>3 DEF InChild, ChildrenOf, InProgress
    <3> QED BY <1>1, <2>1, <2>3, <3>1 DEF TypeOK
  <2> QED BY <2>1, <2>2, <2>3 DEF ProgressIsHeld
<1>11. ProgressIsHeld'
  BY <1>10 DEF ProgressIsHeld
<1> QED BY <1>5, <1>6, <1>7, <1>8, <1>9, <1>11

\* Waiting changes the place of a thread only.
LEMMA WaitInv ==
    ASSUME Inv, NEW t \in Threads,
           (\E n \in Nodes : CallWait(t, n)) \/ WaitCheck(t) \/ WaitTimeout(t) \/ SpuriousWakeup(t)
    PROVE  Inv'
<1> USE CancellableScopeAssumption DEF Inv, cancelVars
<1>1. UNCHANGED <<life, children, cancelled, exception, stage, by, carried, todo>>
  BY DEF CallWait, WaitCheck, WaitTimeout, SpuriousWakeup
<1>2. PICK p \in {"idle", "wait_lock", "waiting"}, a \in Nodes \cup {NoNode} :
         /\ pc' = [pc EXCEPT ![t] = p] /\ at' = [at EXCEPT ![t] = a]
         /\ pc[t] # "cancel" /\ (p = "idle" <=> a = NoNode)
  <2>1. CASE \E n \in Nodes : CallWait(t, n)
    BY <2>1 DEF CallWait
  <2>2. CASE WaitCheck(t)
    <3>1. at[t] # NoNode /\ at' \in {at, [at EXCEPT ![t] = NoNode]} /\ at = [at EXCEPT ![t] = at[t]]
      BY <2>2 DEF WaitCheck, PlaceIsFunction, TypeOK
    <3> QED BY <2>2, <3>1 DEF WaitCheck, TypeOK
  <2>3. CASE WaitTimeout(t)
    BY <2>3 DEF WaitTimeout
  <2>4. CASE SpuriousWakeup(t)
    <3>1. at[t] # NoNode /\ at' = [at EXCEPT ![t] = at[t]] /\ at[t] \in Nodes \cup {NoNode}
      BY <2>4 DEF SpuriousWakeup, PlaceIsFunction, TypeOK
    <3> QED BY <2>4, <3>1 DEF SpuriousWakeup
  <2> QED BY <2>1, <2>2, <2>3, <2>4
<1>3. TypeOK' /\ PlaceIsFunction'
  BY <1>1, <1>2 DEF TypeOK, PlaceIsFunction
<1>4. FlagIsStage' /\ ChildIsPlaced' /\ SetsAreChildren'
  BY <1>1 DEF FlagIsStage, ChildIsPlaced, SetsAreChildren
<1>5. ASSUME NEW m \in Nodes, InProgress(m)'
      PROVE  /\ life'[m] = "attached"
             /\ \/ at'[by'[m]] = m /\ pc'[by'[m]] = "cancel"
                \/ m # Root /\ stage'[Parent[m]] = "locked" /\ by'[Parent[m]] = by'[m]
  <2>1. InProgress(m) /\ by[m] \in Threads
    BY <1>1, <1>5 DEF InProgress, TypeOK
  <2>2. pc[by[m]] = "cancel" => at'[by[m]] = at[by[m]] /\ pc'[by[m]] = pc[by[m]]
    BY <1>2, <2>1 DEF TypeOK
  <2> QED BY <1>1, <2>1, <2>2 DEF ProgressIsHeld
<1>6. ProgressIsHeld'
  BY <1>5 DEF ProgressIsHeld
<1> QED BY <1>3, <1>4, <1>6

LEMMA StepInv == Inv /\ [Next]_vars => Inv'
<1> SUFFICES ASSUME Inv, [Next]_vars PROVE Inv'
  OBVIOUS
<1>1. CASE \E c \in Nodes : Attach(c) \/ Destroy(c)
  BY <1>1, AttachInv, DestroyInv
<1>2. CASE \E t \in Threads, n \in Nodes, e \in Exceptions \cup {NoException} : CallCancel(t, n, e)
  BY <1>2, CallCancelInv
<1>3. CASE \E n \in Nodes : CancelStep(n)
  BY <1>3, CancelLockInv, CancelChildInv, CancelReturnInv DEF CancelStep
<1>4. CASE \E t \in Threads :
              (\E n \in Nodes : CallWait(t, n)) \/ WaitCheck(t) \/ WaitTimeout(t) \/ SpuriousWakeup(t)
  BY <1>4, WaitInv
<1>5. CASE UNCHANGED vars
  BY <1>5 DEF vars, cancelVars, threadVars, Inv, TypeOK, FlagIsStage, ChildIsPlaced, SetsAreChildren,
              ProgressIsHeld, InProgress, PlaceIsFunction
<1> QED BY <1>1, <1>2, <1>3, <1>4, <1>5 DEF Next

LEMMA AlwaysInv == Spec => []Inv
BY InitInv, StepInv, PTL DEF Spec

\* When the cancel() of a scope has returned, no child of it is left that is
\* not cancelled, in any tree and however many threads attach, detach and
\* cancel meanwhile.
THEOREM CancelReachesChildren == Spec => []ChildrenAreReached
<1>1. Inv => ChildrenAreReached
  BY DEF Inv, ChildIsPlaced, ChildrenAreReached
<1> QED BY <1>1, AlwaysInv, PTL

\* cancel() never reaches a destroyed object, if the owners keep the rule
\* of the header about lifetimes.
THEOREM CancelTouchesLiveObjectsOnly == Spec => []NoUseAfterDestroy
<1>1. Inv => NoUseAfterDestroy
  BY DEF Inv, SetsAreChildren, ProgressIsHeld, InProgress, NoUseAfterDestroy
<1> QED BY <1>1, AlwaysInv, PTL

-----------------------------------------------------------------------------
(* The exception goes down with the cancel.                                *)

\* A child that the cancel() of its parent has come to has an exception,
\* when that cancel() carries one.
ExceptionIsPlaced ==
    \A c \in Nodes \ {Root} : life[c] = "attached" /\ carried[Parent[c]] # NoException =>
        /\ stage[Parent[c]] = "locked" => c \in todo[Parent[c]] \/ exception[c] # NoException
        /\ stage[Parent[c]] = "done" => exception[c] # NoException

\* An object keeps the exception it has, and the call that is not the first
\* to cancel it changes nothing else.
LEMMA MarkKeeps ==
    ASSUME TypeOK, NEW t \in Threads, NEW n \in Nodes, NEW e \in Exceptions \cup {NoException}, Mark(t, n, e)
    PROVE  /\ \A m \in Nodes : exception[m] # NoException => exception'[m] # NoException
           /\ e # NoException => exception'[n] # NoException
           /\ \A m \in Nodes : (m = n /\ ~ cancelled[n]) \/ (carried'[m] = carried[m] /\ stage'[m] = stage[m])
           /\ ~ cancelled[n] => stage'[n] = "flagged"
BY CancellableScopeAssumption DEF Mark, TypeOK

LEMMA ExceptionStep ==
    ASSUME Inv, ExceptionIsPlaced, [Next]_vars
    PROVE  ExceptionIsPlaced'
<1> USE CancellableScopeAssumption DEF cancelVars, threadVars
<1>0. TypeOK /\ ChildIsPlaced /\ FlagIsStage
  BY DEF Inv
<1>a. ASSUME UNCHANGED <<exception, stage, carried, todo>>, \A c \in Nodes : life'[c] = "attached" => life[c] = "attached"
      PROVE  ExceptionIsPlaced'
  BY <1>a DEF ExceptionIsPlaced
<1>1. ASSUME NEW c \in Nodes, Attach(c) PROVE ExceptionIsPlaced'
  <2>1. /\ c # Root /\ Parent[c] \in Nodes /\ Unlocked(Parent[c]) /\ UNCHANGED <<exception, stage, carried, todo>>
        /\ IF cancelled[Parent[c]] THEN life' = [life EXCEPT ![c] = "dead"] ELSE life' = [life EXCEPT ![c] = "attached"]
    BY <1>1 DEF Attach
  <2>2. CASE cancelled[Parent[c]]
    BY <1>0, <1>a, <2>1, <2>2 DEF TypeOK
  <2>3. CASE ~ cancelled[Parent[c]]
    <3>1. stage[Parent[c]] = "none"
      BY <1>0, <2>1, <2>3 DEF FlagIsStage
    <3> QED BY <1>0, <2>1, <2>3, <3>1 DEF ExceptionIsPlaced, TypeOK
  <2> QED BY <2>2, <2>3
<1>2. ASSUME NEW c \in Nodes, Destroy(c) PROVE ExceptionIsPlaced'
  BY <1>0, <1>2, <1>a DEF Destroy, TypeOK
\* The cancel() of n begins, or n has been cancelled before.
<1>b. ASSUME NEW t \in Threads, NEW n \in Nodes, NEW e \in Exceptions \cup {NoException}, Mark(t, n, e),
             life' = life, NEW d \in Nodes \ {Root}, life[d] = "attached", carried'[Parent[d]] # NoException,
             stage'[Parent[d]] \in {"locked", "done"}
      PROVE  /\ stage'[Parent[d]] = stage[Parent[d]] /\ carried[Parent[d]] # NoException
             /\ exception[d] # NoException => exception'[d] # NoException
  <2>1. Parent[d] \in Nodes
    OBVIOUS
  <2>2. ~ (Parent[d] = n /\ ~ cancelled[n])
    BY <1>0, <1>b, MarkKeeps
  <2>3. carried'[Parent[d]] = carried[Parent[d]] /\ stage'[Parent[d]] = stage[Parent[d]]
    BY <1>0, <1>b, <2>1, <2>2, MarkKeeps
  <2> QED BY <1>0, <1>b, <2>3, MarkKeeps
<1>3. ASSUME NEW t \in Threads, NEW n \in Nodes, NEW e \in Exceptions \cup {NoException}, CallCancel(t, n, e)
      PROVE  ExceptionIsPlaced'
  <2>1. Mark(t, n, e) /\ UNCHANGED <<life, todo>>
    BY <1>3 DEF CallCancel
  <2> QED BY <1>b, <2>1 DEF ExceptionIsPlaced
<1>4. ASSUME NEW n \in Nodes, CancelLock(n) PROVE ExceptionIsPlaced'
  <2>1. /\ stage[n] = "flagged" /\ stage' = [stage EXCEPT ![n] = "locked"]
        /\ todo' = [todo EXCEPT ![n] = children[n]] /\ UNCHANGED <<life, exception, carried>>
    BY <1>4 DEF CancelLock
  <2> QED BY <1>0, <2>1 DEF ExceptionIsPlaced, ChildIsPlaced, TypeOK
<1>5. ASSUME NEW n \in Nodes, CancelChild(n) PROVE ExceptionIsPlaced'
  <2>1. PICK c \in todo[n] : todo' = [todo EXCEPT ![n] = @ \ {c}] /\ Mark(by[n], c, carried[n])
    BY <1>5 DEF CancelChild
  <2>2. /\ stage[n] = "locked" /\ life' = life /\ c \in Nodes \ {Root} /\ Parent[c] = n
        /\ by[n] \in Threads /\ carried[n] \in Exceptions \cup {NoException}
    BY <1>5 DEF CancelChild, Inv, SetsAreChildren, TypeOK
  <2>3. carried[n] # NoException => exception'[c] # NoException
    BY <1>0, <2>1, <2>2, MarkKeeps
  <2>4. ASSUME NEW d \in Nodes \ {Root}, life[d] = "attached", carried'[Parent[d]] # NoException,
               stage'[Parent[d]] \in {"locked", "done"}
        PROVE  /\ stage'[Parent[d]] = stage[Parent[d]] /\ carried[Parent[d]] # NoException
               /\ exception[d] # NoException => exception'[d] # NoException
    BY <1>b, <2>1, <2>2, <2>4
  <2>5. \A d \in Nodes \ {Root} : d # c /\ d \in todo[Parent[d]] => d \in todo'[Parent[d]]
    BY <1>0, <2>1 DEF TypeOK
  <2> QED BY <2>2, <2>3, <2>4, <2>5 DEF ExceptionIsPlaced
<1>6. ASSUME NEW n \in Nodes, CancelReturn(n) PROVE ExceptionIsPlaced'
  <2>1. /\ stage[n] = "locked" /\ todo[n] = {} /\ stage' = [stage EXCEPT ![n] = "done"]
        /\ UNCHANGED <<life, exception, carried, todo>>
    BY <1>6 DEF CancelReturn
  <2> QED BY <1>0, <2>1 DEF ExceptionIsPlaced, TypeOK
<1>7. ASSUME NEW t \in Threads, (\E n \in Nodes : CallWait(t, n)) \/ WaitCheck(t) \/ WaitTimeout(t) \/ SpuriousWakeup(t)
      PROVE  ExceptionIsPlaced'
  BY <1>7, <1>a DEF CallWait, WaitCheck, WaitTimeout, SpuriousWakeup
<1>8. CASE UNCHANGED vars
  BY <1>8, <1>a DEF vars
<1> QED BY <1>1, <1>2, <1>3, <1>4, <1>5, <1>6, <1>7, <1>8 DEF Next, CancelStep

\* When the cancel() of a scope has returned and it carried an exception,
\* every child of it has one to throw.
THEOREM ExceptionGoesDown == Spec => []ExceptionReachesChildren
<1>1. Init => ExceptionIsPlaced
  BY CancellableScopeAssumption DEF Init, ExceptionIsPlaced
<1>2. Inv /\ ExceptionIsPlaced /\ [Next]_vars => ExceptionIsPlaced'
  BY ExceptionStep
<1>3. ExceptionIsPlaced => ExceptionReachesChildren
  BY DEF ExceptionIsPlaced, ExceptionReachesChildren
<1> QED BY <1>1, <1>2, <1>3, AlwaysInv, PTL DEF Spec
=============================================================================
