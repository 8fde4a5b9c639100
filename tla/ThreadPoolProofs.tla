-------------------------- MODULE ThreadPoolProofs --------------------------
(***************************************************************************)
(* The pools for any number of tasks, threads and any width: every task in *)
(* the queue has a thread that is awake and free, and no pointer in the    *)
(* queue or in a thread is to a task that has been destroyed.              *)
(*                                                                         *)
(* The count of the busy threads is tied to the tasks that run: it is what *)
(* dispatch_task() subtracts, without a sign, from the number of threads.  *)
(***************************************************************************)
EXTENDS ThreadPool, FiniteSetTheorems, WellFoundedInduction, TLAPS

Active  == {"own", "wait", "unwind", "leave", "threw"}
Running == {k \in Tasks : at[k] \in Active}

\* Every thread is in one place.
Counted ==
    /\ m_threads = ready + sleeping + m_busy_count + gone
    /\ m_busy_count = back + Cardinality(Running)
    /\ gone > 0 => m_stopping

\* What is in the queue has been made, in this order, and not been taken.
Queued ==
    /\ \A i \in 1 .. Len(m_queue) :
          m_queue[i] <= made /\ at[m_queue[i]] = "none" /\ m_queue[i] \notin finished
    /\ \A i, j \in 1 .. Len(m_queue) : i < j => m_queue[i] < m_queue[j]
    /\ \A k \in Tasks : k > made => at[k] = "none" /\ k \notin finished

\* A task is over when its handle goes; but for those that nobody has run,
\* which are signalled when no thread is left.
Settled ==
    /\ freed \subseteq finished
    /\ \A k \in Tasks : at[k] \in Active => k \notin finished
    /\ \A k \in finished : at[k] = "over" \/ at[Owner] = "over"
    /\ \A k \in freed : at[k] = "over"
    /\ at[Owner] = "over" => Running = {}
    /\ at[Owner] \in {"join", "over"} => m_stopping
    /\ \A a \in Actors : at[a] \in {"wait", "unwind"} => awaited[a] \subseteq Tasks

PoolInv == TypeOK /\ Counted /\ EveryTaskHasAThread /\ LimitIsKept /\ Queued /\ Settled

-----------------------------------------------------------------------------
LEMMA RunningIsFinite == IsFiniteSet(Running) /\ Cardinality(Running) \in Nat
<1>1. IsFiniteSet(Tasks)
  BY FS_Interval, ThreadPoolAssumption DEF Tasks
<1>2. Running \subseteq Tasks
  BY DEF Running
<1>3. QED
  BY <1>1, <1>2, FS_Subset, FS_CardinalityType

\* The numbers among the state, apart from the rest of it.
LEMMA Numbers ==
    PoolInv =>
           /\ m_threads \in Nat /\ m_busy_count \in Nat /\ ready \in Nat /\ sleeping \in Nat
           /\ back \in Nat /\ gone \in Nat /\ made \in Nat /\ Len(m_queue) \in Nat
           /\ Cardinality(Running) \in Nat
           /\ m_threads = ready + sleeping + m_busy_count + gone
           /\ m_busy_count = back + Cardinality(Running)
           /\ m_busy_count >= back
BY RunningIsFinite DEF PoolInv, TypeOK, Counted

\* An actor that goes from one place of its body to another, or the owner.
LEMMA RunningStays ==
    ASSUME TypeOK, NEW a \in Actors, NEW place, Goto(a, place),
           a = Owner \/ (at[a] \in Active /\ place \in Active)
    PROVE  Running' = Running
<1>1. ASSUME NEW k \in Tasks PROVE at'[k] \in Active <=> at[k] \in Active
  BY <1>1 DEF TypeOK, Goto, Actors, Tasks, Owner
<1>2. QED
  BY <1>1 DEF Running

LEMMA RunningGrows ==
    ASSUME TypeOK, NEW k \in Tasks, at[k] = "none", Goto(k, "own")
    PROVE  Cardinality(Running') = Cardinality(Running) + 1
<1>1. Running' = Running \cup {k} /\ k \notin Running
  BY DEF TypeOK, Goto, Actors, Tasks, Running, Active
<1>2. QED
  BY <1>1, RunningIsFinite, FS_AddElement

LEMMA RunningShrinks ==
    ASSUME TypeOK, NEW k \in Tasks, at[k] \in Active, Goto(k, "over")
    PROVE  Cardinality(Running') = Cardinality(Running) - 1
<1>1. Running' = Running \ {k} /\ k \in Running
  BY DEF TypeOK, Goto, Actors, Tasks, Running, Active
<1>2. QED
  BY <1>1, RunningIsFinite, FS_RemoveElement

\* What Enqueue() does to the numbers.
LEMMA EnqueueServes ==
    ASSUME PoolInv, NEW a \in Actors, NEW n \in Nat \ {0}, Enqueue(a, n),
           kind = "async" \/ Load + n <= MaxThreads
    PROVE  /\ m_threads' \in Nat /\ ready' \in Nat /\ sleeping' \in Nat
           /\ m_threads' = ready' + sleeping' + m_busy_count' + gone'
           /\ m_queue' \in Seq(Tasks) /\ Len(m_queue') = Len(m_queue) + n
           /\ EveryTaskHasAThread'
           /\ LimitIsKept'
<1>1. Len(m_queue') = Len(m_queue) + n /\ m_queue' \in Seq(Tasks)
  BY ThreadPoolAssumption DEF PoolInv, TypeOK, Enqueue, Tasks
<1>2. PICK m \in m_threads .. m_threads + Width :
         /\ ~ NeedsThread(Len(m_queue) + n, m)
         /\ \A l \in m_threads .. m - 1 : NeedsThread(Len(m_queue) + n, l)
         /\ m_threads' = m
  BY DEF Enqueue, Grow
<1>3. m \in Nat /\ m >= m_threads
  BY <1>2, ThreadPoolAssumption DEF PoolInv, TypeOK
<1>4. Len(m_queue) + n + m_busy_count <= m
  BY <1>2, <1>3 DEF NeedsThread, PoolInv, TypeOK
<1>5. m > m_threads => NeedsThread(Len(m_queue) + n, m - 1)
  BY <1>2, <1>3 DEF PoolInv, TypeOK
<1>6. m > m_threads /\ kind = "parallel" => Len(m_queue) + n + m_busy_count > m - 1
  BY <1>5 DEF NeedsThread
<1>7. LimitIsKept'
  BY <1>2, <1>3, <1>6, ThreadPoolAssumption DEF LimitIsKept, Load, PoolInv, TypeOK, Enqueue
<1>8. /\ ready' = ready + Woken(n) + m - m_threads
      /\ sleeping' = sleeping - Woken(n)
      /\ UNCHANGED <<m_busy_count, gone>>
  BY <1>2 DEF Enqueue
<1>9. Woken(n) \in Nat /\ Woken(n) <= sleeping /\ (Woken(n) = n \/ Woken(n) = sleeping)
  BY DEF Woken, PoolInv, TypeOK
<1>10. m_threads = ready + sleeping + m_busy_count + gone
  BY DEF PoolInv, Counted
<1>11. ~ m_stopping => gone = 0 /\ Len(m_queue) <= ready
  BY DEF PoolInv, Counted, EveryTaskHasAThread, TypeOK
<1>12. ASSUME ~ m_stopping PROVE Len(m_queue) + n <= ready'
  <2>1. m_threads = ready + sleeping + m_busy_count /\ Len(m_queue) <= ready
    BY <1>10, <1>11, <1>12 DEF PoolInv, TypeOK
  <2>2. CASE Woken(n) = n
    BY <2>1, <2>2, <1>3, <1>8 DEF PoolInv, TypeOK
  <2>3. CASE Woken(n) = sleeping
    BY <2>1, <2>3, <1>3, <1>4, <1>8 DEF PoolInv, TypeOK
  <2>4. QED
    BY <2>2, <2>3, <1>9
<1>13. EveryTaskHasAThread'
  BY <1>1, <1>12 DEF EveryTaskHasAThread, Enqueue
<1>14. m_threads' \in Nat /\ ready' \in Nat /\ sleeping' \in Nat
  BY <1>2, <1>3, <1>8, <1>9 DEF PoolInv, TypeOK
<1>15. m_threads' = ready' + sleeping' + m_busy_count' + gone'
  <2>1. m_busy_count' = m_busy_count /\ gone' = gone /\ m_threads' = m
    BY <1>2, <1>8
  <2>2. /\ m_threads \in Nat /\ ready \in Nat /\ sleeping \in Nat
        /\ m_busy_count \in Nat /\ gone \in Nat
    BY DEF PoolInv, TypeOK
  <2>3. QED
    BY <1>3, <1>8, <1>9, <1>10, <2>1, <2>2
<1>16. QED
  BY <1>1, <1>7, <1>13, <1>14, <1>15

\* The rest of Enqueue(), with what the actor does itself.
LEMMA EnqueueKeepsInv ==
    ASSUME PoolInv, NEW a \in Actors, NEW n \in Nat \ {0}, Enqueue(a, n),
           at[a] \in Active \/ a = Owner, at[Owner] # "over",
           kind = "async" \/ Load + n <= MaxThreads,
           NEW place \in {"own", "wait"}, Goto(a, place),
           awaited' \in [Actors -> SUBSET Tasks], UNCHANGED asleep
    PROVE  PoolInv'
<1>1. /\ m_threads' \in Nat /\ ready' \in Nat /\ sleeping' \in Nat
      /\ m_threads' = ready' + sleeping' + m_busy_count' + gone'
      /\ m_queue' \in Seq(Tasks) /\ Len(m_queue') = Len(m_queue) + n
      /\ EveryTaskHasAThread'
      /\ LimitIsKept'
  BY EnqueueServes
<1>2. Running' = Running
  BY RunningStays DEF PoolInv, Active
<1>3. TypeOK'
  <2>1. made' \in 0 .. MaxTasks
    BY ThreadPoolAssumption DEF PoolInv, TypeOK, Enqueue
  <2>2. maker' \in [Tasks -> Actors]
    BY DEF PoolInv, TypeOK, Enqueue
  <2>3. at' \in [Actors -> {"none", "own", "wait", "unwind", "leave", "threw",
                          "dispatch", "everything", "join", "over"}]
    BY DEF PoolInv, TypeOK, Goto
  <2>4. QED
    BY <1>1, <2>1, <2>2, <2>3 DEF PoolInv, TypeOK, Enqueue
<1>4. Counted'
  BY <1>1, <1>2 DEF PoolInv, Counted, Enqueue
<1>6. /\ made \in Nat /\ made' = made + n /\ made' <= MaxTasks
      /\ m_queue' = m_queue \o [i \in 1 .. n |-> made + i]
      /\ finished' = finished /\ freed' = freed
  BY DEF PoolInv, TypeOK, Enqueue
<1>7. \A k \in Tasks : at[k] = "none" => at'[k] = "none"
  BY DEF PoolInv, TypeOK, Goto, Actors, Tasks, Owner, Active
<1>8. Len(m_queue) \in Nat /\ \A i \in 1 .. Len(m_queue) :
         m_queue[i] \in Tasks /\ m_queue'[i] = m_queue[i]
  BY <1>6 DEF PoolInv, TypeOK
<1>9. \A i \in Len(m_queue) + 1 .. Len(m_queue) + n :
         m_queue'[i] = made + i - Len(m_queue)
  BY <1>6 DEF PoolInv, TypeOK
<1>10. Queued'
  <2>1. ASSUME NEW k \in Tasks, k > made PROVE at'[k] = "none" /\ k \notin finished'
    BY <2>1, <1>6, <1>7 DEF PoolInv, Queued
  <2>2. ASSUME NEW i \in 1 .. Len(m_queue')
        PROVE  m_queue'[i] <= made' /\ at'[m_queue'[i]] = "none" /\ m_queue'[i] \notin finished'
    <3>1. CASE i <= Len(m_queue)
      <4>1. i \in 1 .. Len(m_queue)
        BY <3>1, <1>8, <2>2, <1>1
      <4>2. m_queue[i] \in Tasks /\ m_queue'[i] = m_queue[i]
        BY <4>1, <1>8
      <4>3. m_queue[i] <= made /\ at[m_queue[i]] = "none" /\ m_queue[i] \notin finished
        BY <4>1 DEF PoolInv, Queued
      <4>4. QED
        BY <4>2, <4>3, <1>6, <1>7 DEF Tasks
    <3>2. CASE i > Len(m_queue)
      <4>1. m_queue'[i] = made + i - Len(m_queue) /\ i <= Len(m_queue) + n
        <5>1. i \in Len(m_queue) + 1 .. Len(m_queue) + n
          BY <3>2, <1>1, <1>8, <2>2
        <5>2. QED
          BY <5>1, <1>8, <1>9
      <4>2. m_queue'[i] \in Tasks /\ m_queue'[i] > made /\ m_queue'[i] <= made'
        BY <4>1, <3>2, <1>6, <1>8, ThreadPoolAssumption DEF Tasks
      <4>3. QED
        BY <4>2, <2>1
    <3>3. QED
      BY <3>1, <3>2, <1>8, <2>2
  <2>3. ASSUME NEW i \in 1 .. Len(m_queue'), NEW j \in 1 .. Len(m_queue'), i < j
        PROVE  m_queue'[i] < m_queue'[j]
    <3>1. CASE j <= Len(m_queue)
      <4>1. i \in 1 .. Len(m_queue) /\ j \in 1 .. Len(m_queue)
        BY <3>1, <2>3, <1>1, <1>8
      <4>2. QED
        BY <4>1, <1>8, <2>3 DEF PoolInv, Queued
    <3>2. CASE j > Len(m_queue)
      <4>1. m_queue'[j] = made + j - Len(m_queue)
        <5>1. j \in Len(m_queue) + 1 .. Len(m_queue) + n
          BY <3>2, <1>1, <1>8, <2>3
        <5>2. QED
          BY <5>1, <1>9
      <4>2. CASE i <= Len(m_queue)
        <5>1. i \in 1 .. Len(m_queue)
          BY <4>2, <2>3, <1>1, <1>8
        <5>2. m_queue'[i] <= made /\ m_queue'[i] \in Nat
          BY <5>1, <1>8 DEF PoolInv, Queued, Tasks
        <5>3. QED
          BY <5>2, <4>1, <3>2, <1>6, <1>8, <2>3
      <4>3. CASE i > Len(m_queue)
        <5>1. m_queue'[i] = made + i - Len(m_queue)
          <6>1. i \in Len(m_queue) + 1 .. Len(m_queue) + n
            BY <4>3, <1>1, <1>8, <2>3
          <6>2. QED
            BY <6>1, <1>9
        <5>2. QED
          BY <5>1, <4>1, <1>6, <1>8, <2>3
      <4>4. QED
        BY <4>2, <4>3, <1>8, <2>3
    <3>3. QED
      BY <3>1, <3>2, <1>8, <2>3
  <2>4. ASSUME NEW k \in Tasks, k > made' PROVE at'[k] = "none" /\ k \notin finished'
    <3>1. k > made
      BY <2>4, <1>6 DEF Tasks
    <3>2. QED
      BY <3>1, <2>1
  <2>5. QED
    BY <2>2, <2>3, <2>4 DEF Queued
<1>11. Settled'
  <2>1. at'[Owner] # "over" /\ \A k \in Tasks : at[k] = "over" => at'[k] = "over"
    BY DEF PoolInv, TypeOK, Goto, Actors, Owner, Active, Tasks
  <2>6. at'[Owner] \in {"join", "over"} => at[Owner] \in {"join", "over"} /\ m_stopping' = m_stopping
    BY DEF PoolInv, TypeOK, Goto, Actors, Enqueue
  <2>2. \A k \in Tasks : at'[k] \in Active => at[k] \in Active
    BY <1>2 DEF Running
  <2>3. \A b \in Actors : awaited'[b] \subseteq Tasks
    OBVIOUS
  <2>4. finished \subseteq Tasks
    BY DEF PoolInv, TypeOK
  <2>5. QED
    BY <2>1, <2>2, <2>3, <2>4, <2>6, <1>6 DEF PoolInv, Settled
<1>12. QED
  BY <1>1, <1>3, <1>4, <1>10, <1>11 DEF PoolInv

\* The steps of an actor inside its body touch no count and no queue: it
\* may only drop handles of tasks that are finished.
LEMMA BodyKeepsInv ==
    ASSUME PoolInv, NEW a \in Actors, NEW place \in Active, at[a] \in Active,
           at' = [at EXCEPT ![a] = place],
           UNCHANGED <<kind, poolVars, made, maker, finished, exceptions, asleep>>,
           freed' \in SUBSET Tasks, freed' \subseteq finished,
           at[Owner] # "over" \/ freed' = freed,
           awaited' \in [Actors -> SUBSET Tasks]
    PROVE  PoolInv'
<1>1. Running' = Running
  BY RunningStays DEF PoolInv, Goto
<1>2. TypeOK'
  BY DEF PoolInv, TypeOK, poolVars, Active
<1>3. Counted' /\ EveryTaskHasAThread' /\ LimitIsKept'
  BY <1>1 DEF PoolInv, Counted, EveryTaskHasAThread, LimitIsKept, poolVars
<1>4. \A k \in Tasks : at[k] \notin Active => at'[k] = at[k]
  BY DEF PoolInv, TypeOK, Actors, Tasks
<1>5. m_queue \in Seq(Tasks) /\ m_queue' = m_queue
  BY DEF PoolInv, TypeOK, poolVars
<1>6. Queued'
  BY <1>4, <1>5 DEF PoolInv, Queued, Active
<1>7. Settled'
  <2>1. at'[Owner] \in {"join", "over"} <=> at[Owner] \in {"join", "over"}
    BY DEF PoolInv, TypeOK, Active, Actors
  <2>5. at'[Owner] = "over" <=> at[Owner] = "over"
    BY DEF PoolInv, TypeOK, Active, Actors
  <2>6. \A b \in Actors : awaited'[b] \subseteq Tasks
    OBVIOUS
  <2>2. \A k \in Tasks : (at'[k] \in Active <=> at[k] \in Active) /\ (at[k] = "over" => at'[k] = "over")
    BY <1>1, <1>4 DEF Running, Active
  <2>3. finished \subseteq Tasks /\ m_stopping' = m_stopping
    BY DEF PoolInv, TypeOK, poolVars
  <2>4. QED
    BY <1>1, <2>1, <2>2, <2>3, <2>5, <2>6 DEF PoolInv, Settled
<1>8. QED
  BY <1>2, <1>3, <1>6, <1>7 DEF PoolInv

\* An actor in its body is not the owner of a pool that is over; while it is
\* there, no pool is over.
LEMMA NobodyIsLeft ==
    ASSUME PoolInv, NEW a \in Actors, at[a] \in Active
    PROVE  at[Owner] # "over" /\ \A k \in finished : at[k] = "over"
BY DEF PoolInv, Settled, Running, Active, Actors

\* A thread that leaves m_lock without a task, for m_cv or for good.
LEMMA IdleKeepsInv ==
    ASSUME PoolInv, NEW from \in {"ready", "back"}, Exit(from) \/ Sleep(from)
    PROVE  PoolInv'
<1>0. /\ m_threads \in Nat /\ m_busy_count \in Nat /\ ready \in Nat /\ sleeping \in Nat
      /\ back \in Nat /\ gone \in Nat
      /\ m_threads = ready + sleeping + m_busy_count + gone
      /\ m_busy_count >= back
  BY Numbers
<1>1. Comes(from, 0)
  BY DEF Exit, Sleep
<1>2. Running' = Running
  BY DEF Exit, Sleep, Running
<1>3. \/ ready > 0 /\ ready' = ready - 1 /\ m_busy_count' = m_busy_count /\ back' = back
      \/ back > 0 /\ ready' = ready /\ m_busy_count' = m_busy_count - 1 /\ back' = back - 1
  BY <1>0, <1>1 DEF Comes
<1>4. \/ sleeping' = sleeping + 1 /\ gone' = gone
      \/ sleeping' = sleeping /\ gone' = gone + 1
  BY DEF Exit, Sleep
<1>5. UNCHANGED <<kind, m_queue, m_threads, m_stopping, taskVars, at, awaited>>
  BY DEF Exit, Sleep
<1>6. m_threads' = m_threads
  BY <1>5
<1>7. m_threads' = ready' + sleeping' + m_busy_count' + gone'
  <2>1. CASE ready' = ready - 1 /\ m_busy_count' = m_busy_count
    <3>1. CASE sleeping' = sleeping + 1 /\ gone' = gone
      BY <2>1, <3>1, <1>0, <1>6
    <3>2. CASE sleeping' = sleeping /\ gone' = gone + 1
      BY <2>1, <3>2, <1>0, <1>6
    <3>3. QED
      BY <3>1, <3>2, <1>4
  <2>2. CASE ready' = ready /\ m_busy_count' = m_busy_count - 1
    <3>1. CASE sleeping' = sleeping + 1 /\ gone' = gone
      BY <2>2, <3>1, <1>0, <1>6
    <3>2. CASE sleeping' = sleeping /\ gone' = gone + 1
      BY <2>2, <3>2, <1>0, <1>6
    <3>3. QED
      BY <3>1, <3>2, <1>4
  <2>3. QED
    BY <2>1, <2>2, <1>3
<1>8. /\ m_busy_count' \in Nat /\ back' \in Nat /\ ready' \in Nat
      /\ sleeping' \in Nat /\ gone' \in Nat
  BY <1>0, <1>3, <1>4
<1>9. asleep' \in BOOLEAN
  BY <1>1 DEF Comes, PoolInv, TypeOK
<1>10. TypeOK'
  BY <1>5, <1>6, <1>8, <1>9 DEF PoolInv, TypeOK, taskVars
<1>11. m_busy_count' = back' + Cardinality(Running')
  <2>1. PICK c \in Nat : c = Cardinality(Running) /\ m_busy_count = back + c
    BY Numbers
  <2>2. m_busy_count' = back' + c
    BY <2>1, <1>0, <1>3
  <2>3. QED
    BY <2>1, <2>2, <1>2
<1>12. Counted'
  <2>1. gone' > 0 => m_stopping'
    <3>1. CASE Exit(from)
      BY <3>1 DEF Exit
    <3>2. CASE Sleep(from)
      BY <3>2 DEF Sleep, PoolInv, Counted
    <3>3. QED
      BY <3>1, <3>2
  <2>2. QED
    BY <1>7, <1>11, <2>1 DEF Counted
<1>13. EveryTaskHasAThread' /\ LimitIsKept'
  <2>1. CASE Exit(from)
    BY <2>1, <1>5, <1>6 DEF Exit, EveryTaskHasAThread, LimitIsKept, PoolInv
  <2>2. CASE Sleep(from)
    <3>1. m_queue' = <<>>
      BY <2>2 DEF Sleep
    <3>2. QED
      BY <3>1, <1>5, <1>6, <1>8 DEF EveryTaskHasAThread, LimitIsKept, PoolInv
  <2>3. QED
    BY <2>1, <2>2
<1>14. Queued' /\ Settled'
  BY <1>2, <1>5 DEF PoolInv, Queued, Settled, taskVars
<1>15. QED
  BY <1>10, <1>12, <1>13, <1>14 DEF PoolInv

LEMMA TakeKeepsInv ==
    ASSUME PoolInv, NEW from \in {"ready", "back"}, Take(from)
    PROVE  PoolInv'
<1> DEFINE k == Head(m_queue)
<1>0. /\ m_threads \in Nat /\ m_busy_count \in Nat /\ ready \in Nat /\ sleeping \in Nat
      /\ back \in Nat /\ gone \in Nat
      /\ m_threads = ready + sleeping + m_busy_count + gone
      /\ m_busy_count >= back
  BY Numbers
<1>1. /\ ~ m_stopping /\ m_queue # <<>> /\ Comes(from, 1)
      /\ m_queue' = Tail(m_queue) /\ Goto(k, "own")
      /\ UNCHANGED <<kind, m_threads, m_stopping, sleeping, gone, taskVars, awaited>>
  BY DEF Take
<1>2. /\ m_queue \in Seq(Tasks) /\ Len(m_queue) \in Nat \ {0} /\ k = m_queue[1] /\ k \in Tasks
      /\ Tail(m_queue) \in Seq(Tasks) /\ Len(Tail(m_queue)) = Len(m_queue) - 1
      /\ \A i \in 1 .. Len(m_queue) - 1 : Tail(m_queue)[i] = m_queue[i + 1]
  BY <1>1 DEF PoolInv, TypeOK
<1>3. at[k] = "none" /\ k <= made /\ k \notin finished
  BY <1>2 DEF PoolInv, Queued
<1>4. Cardinality(Running') = Cardinality(Running) + 1 /\ Cardinality(Running) \in Nat
  BY <1>1, <1>2, <1>3, RunningGrows, RunningIsFinite DEF PoolInv
<1>5. \/ ready > 0 /\ ready' = ready - 1 /\ m_busy_count' = m_busy_count + 1 /\ back' = back
      \/ back > 0 /\ ready' = ready /\ m_busy_count' = m_busy_count /\ back' = back - 1
  BY <1>0, <1>1 DEF Comes
<1>13. m_busy_count' \in Nat /\ back' \in Nat /\ ready' \in Nat /\ ready' >= ready - 1
  BY <1>0, <1>5
<1>14. asleep' \in BOOLEAN
  BY <1>1 DEF Comes, PoolInv, TypeOK
<1>15. m_threads' = m_threads /\ sleeping' = sleeping /\ gone' = gone
  BY <1>1
<1>6. TypeOK'
  BY <1>1, <1>2, <1>13, <1>14 DEF PoolInv, TypeOK, taskVars, Goto
<1>7. Counted'
  <2>1. m_threads' = ready' + sleeping' + m_busy_count' + gone'
    BY <1>0, <1>5, <1>15
  <2>2. m_busy_count' = back' + Cardinality(Running')
    <3>1. PICK c \in Nat : c = Cardinality(Running) /\ m_busy_count = back + c
      BY Numbers
    <3>2. m_busy_count' = back' + (c + 1)
      BY <3>1, <1>0, <1>5
    <3>3. c + 1 = Cardinality(Running')
      BY <3>1, <1>4
    <3>4. QED
      BY <3>2, <3>3
  <2>3. QED
    BY <1>1, <2>1, <2>2 DEF PoolInv, Counted
<1>8. EveryTaskHasAThread' /\ LimitIsKept'
  <2>1. Len(m_queue) <= ready
    BY <1>1 DEF PoolInv, EveryTaskHasAThread
  <2>2. Len(m_queue') <= ready'
    BY <2>1, <1>0, <1>1, <1>2, <1>13
  <2>3. QED
    BY <2>2, <1>1 DEF EveryTaskHasAThread, LimitIsKept, PoolInv
<1>9. \A j \in Tasks : j # k => at'[j] = at[j]
  BY <1>1 DEF PoolInv, TypeOK, Goto, Actors
<1>10. Queued'
  <2>1. ASSUME NEW i \in 1 .. Len(m_queue')
        PROVE  m_queue'[i] <= made' /\ at'[m_queue'[i]] = "none" /\ m_queue'[i] \notin finished'
    <3>1. i + 1 \in 1 .. Len(m_queue) /\ 1 \in 1 .. Len(m_queue) /\ 1 < i + 1 /\ m_queue'[i] = m_queue[i + 1]
      BY <1>1, <1>2
    <3>2. m_queue[i + 1] \in Tasks /\ k < m_queue[i + 1]
      BY <3>1, <1>2 DEF PoolInv, Queued
    <3>3. m_queue'[i] # k
      BY <3>1, <3>2, <1>2 DEF Tasks
    <3>4. QED
      BY <3>1, <3>2, <3>3, <1>1, <1>9 DEF PoolInv, Queued, taskVars
  <2>2. ASSUME NEW i \in 1 .. Len(m_queue'), NEW j \in 1 .. Len(m_queue'), i < j
        PROVE  m_queue'[i] < m_queue'[j]
    <3>1. /\ i + 1 \in 1 .. Len(m_queue) /\ j + 1 \in 1 .. Len(m_queue) /\ i + 1 < j + 1
          /\ m_queue'[i] = m_queue[i + 1] /\ m_queue'[j] = m_queue[j + 1]
      BY <1>1, <1>2, <2>2
    <3>2. QED
      BY <3>1 DEF PoolInv, Queued
  <2>3. ASSUME NEW j \in Tasks, j > made' PROVE at'[j] = "none" /\ j \notin finished'
    <3>1. j # k /\ j > made
      BY <2>3, <1>1, <1>2, <1>3 DEF taskVars, Tasks, PoolInv, TypeOK
    <3>2. QED
      BY <3>1, <1>1, <1>9 DEF PoolInv, Queued, taskVars
  <2>4. QED
    BY <2>1, <2>2, <2>3 DEF Queued
<1>11. Settled'
  <2>1. at'[Owner] = at[Owner] /\ at[Owner] # "over"
    BY <1>1, <1>2 DEF PoolInv, TypeOK, Settled, Goto, Actors, Tasks, Owner
  <2>2. k \notin freed /\ finished \subseteq Tasks
    BY <1>3 DEF PoolInv, Settled, TypeOK
  <2>3. \A a \in Actors : a # k => at'[a] = at[a]
    BY <1>1 DEF PoolInv, TypeOK, Goto
  <2>4. at'[k] = "own"
    BY <1>1, <1>2 DEF PoolInv, TypeOK, Goto, Actors
  <2>5. QED
    BY <1>1, <1>3, <1>9, <2>1, <2>2, <2>3, <2>4 DEF PoolInv, Settled, taskVars, TypeOK
<1>12. QED
  BY <1>6, <1>7, <1>8, <1>10, <1>11 DEF PoolInv

LEMMA FinishKeepsInv ==
    ASSUME PoolInv, NEW k \in Tasks, Finish(k)
    PROVE  PoolInv'
<1>1. /\ at[k] \in Active /\ Goto(k, "over")
      /\ finished' = finished \cup {k} /\ back' = back + 1
      /\ UNCHANGED <<kind, m_queue, m_threads, m_busy_count, m_stopping, ready, sleeping, gone,
                     made, maker, freed, awaited, asleep>>
  BY DEF Finish, Active
<1>2. Cardinality(Running') = Cardinality(Running) - 1 /\ Cardinality(Running) \in Nat
  BY <1>1, RunningShrinks, RunningIsFinite DEF PoolInv
<1>3. exceptions' \subseteq finished'
  BY <1>1 DEF Finish, PoolInv, TypeOK
<1>4. TypeOK'
  <2>1. at' \in [Actors -> {"none", "own", "wait", "unwind", "leave", "threw",
                          "dispatch", "everything", "join", "over"}]
    BY <1>1 DEF PoolInv, TypeOK, Goto
  <2>2. finished' \subseteq Tasks /\ back' \in Nat
    BY <1>1 DEF PoolInv, TypeOK
  <2>3. QED
    BY <1>1, <1>3, <2>1, <2>2 DEF PoolInv, TypeOK
<1>5. Counted' /\ EveryTaskHasAThread' /\ LimitIsKept'
  BY <1>1, <1>2 DEF PoolInv, TypeOK, Counted, EveryTaskHasAThread, LimitIsKept
<1>6. \A j \in Actors : j # k => at'[j] = at[j]
  BY <1>1 DEF PoolInv, TypeOK, Goto
<1>7. at'[k] = "over"
  BY <1>1 DEF PoolInv, TypeOK, Goto, Actors
<1>8. m_queue \in Seq(Tasks) /\ \A i \in 1 .. Len(m_queue) : m_queue[i] \in Tasks /\ m_queue[i] # k
  BY <1>1 DEF PoolInv, TypeOK, Queued, Active
<1>9. Queued'
  BY <1>1, <1>6, <1>8 DEF PoolInv, Queued, Actors, Active
<1>10. Settled'
  <2>1. at'[Owner] = at[Owner] /\ at[Owner] # "over"
    BY <1>1, <1>6 DEF PoolInv, Settled, Running, Actors, Owner, Tasks
  <2>2. finished \subseteq Tasks /\ freed \subseteq Tasks
    BY DEF PoolInv, TypeOK
  <2>3. QED
    BY <1>1, <1>6, <1>7, <2>1, <2>2 DEF PoolInv, Settled, Actors, Active
<1>11. QED
  BY <1>4, <1>5, <1>9, <1>10 DEF PoolInv

\* What only moves the owner, the flags and the threads that wait.
LEMMA OwnerKeepsInv ==
    ASSUME PoolInv, NEW place \in {"own", "dispatch", "everything", "join"},
           \/ at' = at
           \/ /\ at[Owner] # "over" /\ at' = [at EXCEPT ![Owner] = place]
              /\ place = "join" => m_stopping',
           UNCHANGED <<kind, m_queue, m_threads, m_busy_count, back, gone, taskVars, awaited>>,
           ready' \in Nat, sleeping' \in Nat, ready' + sleeping' = ready + sleeping,
           ready' >= ready, m_stopping => m_stopping', m_stopping' \in BOOLEAN, asleep' \in BOOLEAN
    PROVE  PoolInv'
<1>1. \A k \in Tasks : at'[k] = at[k]
  <2>1. \A k \in Tasks : k \in Actors /\ k # Owner
    BY DEF Actors, Tasks, Owner
  <2>2. QED
    BY <2>1 DEF PoolInv, TypeOK
<1>2. Running' = Running
  BY <1>1 DEF Running
<1>3. /\ at'[Owner] = "over" <=> at[Owner] = "over"
      /\ at'[Owner] \in {"join", "over"} => m_stopping'
  BY DEF PoolInv, TypeOK, Actors, Settled
<1>10. \A a \in Actors : at'[a] \in {"wait", "unwind"} => awaited'[a] \subseteq Tasks
  BY DEF PoolInv, TypeOK
<1>4. TypeOK'
  BY DEF PoolInv, TypeOK, taskVars
<1>5. Counted'
  BY <1>2 DEF PoolInv, TypeOK, Counted
<1>6. EveryTaskHasAThread' /\ LimitIsKept'
  BY DEF PoolInv, TypeOK, EveryTaskHasAThread, LimitIsKept
<1>7. Queued'
  <2>1. \A i \in 1 .. Len(m_queue) : m_queue[i] \in Tasks
    BY DEF PoolInv, TypeOK
  <2>2. QED
    BY <1>1, <2>1 DEF PoolInv, Queued, taskVars
<1>8. Settled'
  <2>1. finished \subseteq Tasks /\ freed \subseteq Tasks
    BY DEF PoolInv, TypeOK
  <2>2. \A a \in Actors : awaited'[a] \subseteq Tasks
    BY DEF PoolInv, TypeOK
  <2>3. QED
    BY <1>1, <1>2, <1>3, <1>10, <2>1, <2>2 DEF PoolInv, Settled, taskVars
<1>9. QED
  BY <1>4, <1>5, <1>6, <1>7, <1>8 DEF PoolInv

LEMMA JoinKeepsInv == ASSUME PoolInv, Join PROVE PoolInv'
<1>0. /\ m_threads \in Nat /\ m_busy_count \in Nat /\ ready \in Nat /\ sleeping \in Nat
      /\ back \in Nat /\ gone \in Nat
      /\ m_threads = ready + sleeping + m_busy_count + gone
      /\ m_busy_count >= back
  BY Numbers
<1>1. /\ at[Owner] = "join" /\ gone = m_threads /\ Goto(Owner, "over")
      /\ finished' = finished \cup {m_queue[i] : i \in 1 .. Len(m_queue)}
      /\ m_queue' = <<>>
      /\ UNCHANGED <<kind, m_threads, m_busy_count, m_stopping, ready, sleeping, back, gone, made, maker,
                     exceptions, freed, awaited, asleep>>
  BY DEF Join
<1>2. \A i \in 1 .. Len(m_queue) : m_queue[i] \in Tasks
  BY DEF PoolInv, TypeOK
<1>3. \A k \in Tasks : at'[k] = at[k]
  BY <1>1 DEF PoolInv, TypeOK, Goto, Tasks, Owner
<1>4. Running' = Running
  BY <1>3 DEF Running
<1>5. Cardinality(Running) = 0 /\ ready = 0
  <2>1. gone = m_threads
    BY <1>1
  <2>2. m_busy_count = 0 /\ ready = 0
    BY <2>1, <1>0
  <2>3. m_busy_count = back + Cardinality(Running) /\ Cardinality(Running) \in Nat
    BY Numbers
  <2>4. QED
    BY <2>2, <2>3, <1>0
<1>6. Running = {}
  BY <1>5, RunningIsFinite, FS_EmptySet
<1>7. at'[Owner] = "over"
  BY <1>1 DEF PoolInv, TypeOK, Goto, Actors
<1>8. TypeOK'
  <2>1. at' \in [Actors -> {"none", "own", "wait", "unwind", "leave", "threw",
                          "dispatch", "everything", "join", "over"}]
    BY <1>1 DEF PoolInv, TypeOK, Goto
  <2>2. finished' \subseteq Tasks /\ exceptions' \subseteq finished' /\ m_queue' \in Seq(Tasks)
    BY <1>1, <1>2 DEF PoolInv, TypeOK
  <2>3. QED
    BY <1>1, <2>1, <2>2 DEF PoolInv, TypeOK
<1>9. Counted' /\ EveryTaskHasAThread' /\ LimitIsKept'
  BY <1>1, <1>4 DEF PoolInv, TypeOK, Counted, EveryTaskHasAThread, LimitIsKept
<1>10. Queued'
  <2>1. ASSUME NEW k \in Tasks, k > made' PROVE at'[k] = "none" /\ k \notin finished'
    <3>1. \A i \in 1 .. Len(m_queue) : m_queue[i] # k
      BY <2>1, <1>1, <1>2 DEF PoolInv, Queued, TypeOK, Tasks
    <3>2. QED
      BY <2>1, <3>1, <1>1, <1>3 DEF PoolInv, Queued
  <2>2. QED
    BY <1>1, <2>1 DEF Queued
<1>11. m_stopping'
  BY <1>1 DEF PoolInv, Settled
<1>12. Settled'
  <2>1. \A k \in Tasks : at'[k] \notin Active
    BY <1>3, <1>6 DEF Running
  <2>2. freed \subseteq Tasks /\ \A a \in Actors : awaited'[a] \subseteq Tasks
    BY <1>1 DEF PoolInv, TypeOK
  <2>3. QED
    BY <1>1, <1>3, <1>4, <1>6, <1>7, <1>11, <2>1, <2>2 DEF PoolInv, Settled
<1>13. QED
  BY <1>8, <1>9, <1>10, <1>12 DEF PoolInv

-----------------------------------------------------------------------------
LEMMA InitPoolInv == Init => PoolInv
<1> SUFFICES ASSUME Init PROVE PoolInv
  OBVIOUS
<1>1. TypeOK
  <2>1. at \in [Actors -> {"none", "own", "wait", "unwind", "leave", "threw",
                          "dispatch", "everything", "join", "over"}]
    BY DEF Init
  <2>2. maker \in [Tasks -> Actors] /\ awaited \in [Actors -> SUBSET Tasks]
    BY DEF Init, Actors
  <2>3. m_threads \in Nat /\ made \in 0 .. MaxTasks /\ ready \in Nat
    BY ThreadPoolAssumption DEF Init
  <2>4. m_queue \in Seq(Tasks)
    BY DEF Init
  <2>5. QED
    BY <2>1, <2>2, <2>3, <2>4 DEF Init, TypeOK
<1>7. \A k \in Tasks : k \in Actors /\ k # Owner /\ at[k] = "none"
  BY DEF Init, Tasks, Actors, Owner
<1>2. Running = {}
  BY <1>7 DEF Running, Active
<1>3. Counted
  BY <1>1, <1>2, FS_EmptySet DEF Init, Counted, TypeOK
<1>4. EveryTaskHasAThread /\ LimitIsKept
  BY <1>1, ThreadPoolAssumption DEF Init, EveryTaskHasAThread, LimitIsKept, TypeOK
<1>5. Queued
  BY <1>7 DEF Init, Queued
<1>8. Settled
  BY <1>2, <1>7 DEF Init, Settled, Active, Actors
<1>6. QED
  BY <1>1, <1>3, <1>4, <1>5, <1>8 DEF PoolInv

LEMMA NextPoolInv == PoolInv /\ [Next]_vars => PoolInv'
<1> SUFFICES ASSUME PoolInv, [Next]_vars PROVE PoolInv'
  OBVIOUS
<1> USE DEF Active
<1>0. /\ m_threads \in Nat /\ m_busy_count \in Nat /\ ready \in Nat /\ sleeping \in Nat
      /\ back \in Nat /\ gone \in Nat
      /\ m_threads = ready + sleeping + m_busy_count + gone
      /\ m_busy_count >= back
  BY Numbers
<1>1. ASSUME NEW a \in Actors, Dispatch(a) PROVE PoolInv'
  <2>1. at[a] = "own" /\ at[Owner] # "over" /\ kind = "async"
    BY <1>1, NobodyIsLeft DEF Dispatch
  <2>2. Goto(a, "own") /\ awaited' \in [Actors -> SUBSET Tasks] /\ asleep' = asleep /\ Enqueue(a, 1)
    BY <1>1, <2>1 DEF Dispatch, Goto, PoolInv, TypeOK
  <2>3. QED
    BY <2>1, <2>2, EnqueueKeepsInv
<1>2. ASSUME NEW a \in Actors, RunInParallel(a) PROVE PoolInv'
  <2>1. at[a] = "own" /\ at[Owner] # "over" /\ kind = "async"
    BY <1>2, NobodyIsLeft DEF RunInParallel
  <2>2. Goto(a, "wait") /\ asleep' = asleep /\ Enqueue(a, Width)
    BY <1>2 DEF RunInParallel
  <2>3. made + 1 .. made + Width \subseteq Tasks
    BY <2>2, ThreadPoolAssumption DEF Enqueue, PoolInv, TypeOK, Tasks
  <2>4. awaited' \in [Actors -> SUBSET Tasks]
    BY <1>2, <2>3 DEF RunInParallel, PoolInv, TypeOK
  <2>5. QED
    BY <2>1, <2>2, <2>4, EnqueueKeepsInv, ThreadPoolAssumption
<1>3. ASSUME NEW a \in Actors, EnsureThreads(a) PROVE PoolInv'
  <2>1. PICK n \in m_threads + 1 .. MaxStarting : m_threads' = n /\ ready' = ready + n - m_threads
    BY <1>3 DEF EnsureThreads
  <2>2. /\ kind = "async"
        /\ UNCHANGED <<kind, m_queue, m_busy_count, m_stopping, sleeping, back, gone, taskVars, at, awaited, asleep>>
    BY <1>3 DEF EnsureThreads
  <2>3. n \in Nat /\ n > m_threads
    BY <2>1, ThreadPoolAssumption DEF PoolInv, TypeOK
  <2>4. ready' \in Nat /\ ready' >= ready
    BY <2>1, <2>3 DEF PoolInv, TypeOK
  <2>5. TypeOK'
    BY <2>1, <2>2, <2>3, <2>4 DEF PoolInv, TypeOK, taskVars
  <2>6. Running' = Running
    BY <2>2 DEF Running
  <2>7. Counted'
    <3>1. m_threads' = ready' + sleeping' + m_busy_count' + gone'
      BY <2>1, <2>2, <2>3, <1>0
    <3>2. QED
      BY <2>2, <2>6, <3>1 DEF PoolInv, Counted
  <2>8. EveryTaskHasAThread' /\ LimitIsKept'
    BY <2>2, <2>4 DEF PoolInv, TypeOK, EveryTaskHasAThread, LimitIsKept
  <2>9. Queued' /\ Settled'
    BY <2>2, <2>6 DEF PoolInv, Queued, Settled, taskVars
  <2>10. QED
    BY <2>5, <2>7, <2>8, <2>9 DEF PoolInv
<1>4. ASSUME NEW a \in Actors, WaitAndRethrow(a) PROVE PoolInv'
  <2>1. PICK k \in Handles(a) : awaited' = [awaited EXCEPT ![a] = {k}]
    BY <1>4 DEF WaitAndRethrow
  <2>2. k \in Tasks
    <3>1. made \in 0 .. MaxTasks /\ k \in 1 .. made
      BY <2>1 DEF Handles, PoolInv, TypeOK
    <3>2. QED
      BY <3>1, ThreadPoolAssumption DEF Tasks
  <2>3. awaited' \in [Actors -> SUBSET Tasks]
    BY <2>1, <2>2 DEF PoolInv, TypeOK
  <2>4. /\ at[a] = "own" /\ at' = [at EXCEPT ![a] = "wait"]
        /\ UNCHANGED <<kind, poolVars, taskVars, asleep>>
    BY <1>4 DEF WaitAndRethrow, Goto
  <2>5. freed' = freed /\ freed' \in SUBSET Tasks /\ freed' \subseteq finished
    BY <2>4 DEF taskVars, PoolInv, TypeOK, Settled
  <2>6. QED
    BY <2>3, <2>4, <2>5, BodyKeepsInv DEF taskVars
<1>5. ASSUME NEW a \in Actors, WaitReturns(a) PROVE PoolInv'
  <2>1. at[a] = "wait" /\ at[Owner] # "over"
    BY <1>5, NobodyIsLeft DEF WaitReturns
  <2>2. freed' \in SUBSET Tasks /\ freed' \subseteq finished
    BY <1>5 DEF WaitReturns, PoolInv, TypeOK, Settled
  <2>3. awaited' \in [Actors -> SUBSET Tasks]
    BY <1>5 DEF WaitReturns, PoolInv, TypeOK
  <2>4. QED
    BY <1>5, <2>1, <2>2, <2>3, BodyKeepsInv DEF WaitReturns, Goto
<1>6. ASSUME NEW a \in Actors, WaitThrows(a) PROVE PoolInv'
  <2>1. /\ at[a] = "wait" /\ at' = [at EXCEPT ![a] = "unwind"]
        /\ UNCHANGED <<kind, poolVars, taskVars, awaited, asleep>>
    BY <1>6 DEF WaitThrows, Goto
  <2>2. freed' = freed /\ freed' \in SUBSET Tasks /\ freed' \subseteq finished
        /\ awaited' \in [Actors -> SUBSET Tasks]
    BY <2>1 DEF taskVars, PoolInv, TypeOK, Settled
  <2>3. QED
    BY <2>1, <2>2, BodyKeepsInv DEF taskVars
<1>7. ASSUME NEW a \in Actors, Unwind(a) PROVE PoolInv'
  <2>1. at[a] = "unwind" /\ at[Owner] # "over"
    BY <1>7, NobodyIsLeft DEF Unwind
  <2>2. freed' \in SUBSET Tasks /\ freed' \subseteq finished
    BY <1>7 DEF Unwind, PoolInv, TypeOK, Settled
  <2>3. awaited' \in [Actors -> SUBSET Tasks]
    BY <1>7 DEF Unwind, PoolInv, TypeOK
  <2>4. PICK place \in {"own", "threw"} : at' = [at EXCEPT ![a] = place]
    BY <1>7 DEF Unwind, Goto
  <2>5. UNCHANGED <<kind, poolVars, made, maker, finished, exceptions, asleep>>
    BY <1>7 DEF Unwind
  <2>6. QED
    BY <2>1, <2>2, <2>3, <2>4, <2>5, BodyKeepsInv
<1>8. ASSUME NEW a \in Actors, Leave(a) PROVE PoolInv'
  <2>1. at[a] = "own" /\ UNCHANGED <<kind, poolVars, taskVars, awaited, asleep>>
    BY <1>8 DEF Leave
  <2>2. PICK place \in {"leave", "threw"} : at' = [at EXCEPT ![a] = place]
    BY <1>8 DEF Leave, Goto
  <2>3. freed' = freed /\ freed' \in SUBSET Tasks /\ freed' \subseteq finished
        /\ awaited' \in [Actors -> SUBSET Tasks]
    BY <2>1 DEF taskVars, PoolInv, TypeOK, Settled
  <2>4. QED
    BY <2>1, <2>2, <2>3, BodyKeepsInv DEF taskVars
<1>9. ASSUME NEW a \in Actors, DropHandles(a) PROVE PoolInv'
  <2>1. at[a] \in {"leave", "threw"} /\ at[Owner] # "over"
    BY <1>9, NobodyIsLeft DEF DropHandles
  <2>2. freed' \in SUBSET Tasks /\ freed' \subseteq finished
    BY <1>9 DEF DropHandles, PoolInv, TypeOK, Settled
  <2>3. at' = [at EXCEPT ![a] = at[a]] /\ awaited' \in [Actors -> SUBSET Tasks]
    BY <1>9 DEF DropHandles, PoolInv, TypeOK
  <2>4. UNCHANGED <<kind, poolVars, made, maker, finished, exceptions, asleep>>
    BY <1>9 DEF DropHandles
  <2>5. QED
    BY <2>1, <2>2, <2>3, <2>4, BodyKeepsInv
<1>10. ASSUME CallDispatch \/ CallWaitForEverything \/ EverythingIsDone \/ OwnerSleeps PROVE PoolInv'
  <2>1. UNCHANGED <<kind, poolVars, taskVars, awaited>> /\ at[Owner] # "over" /\ asleep' \in BOOLEAN
    BY <1>10 DEF CallDispatch, CallWaitForEverything, EverythingIsDone, OwnerSleeps, PoolInv, TypeOK
  <2>2. PICK place \in {"own", "dispatch", "everything"} :
           at' = [at EXCEPT ![Owner] = place] \/ at' = at
    BY <1>10 DEF CallDispatch, CallWaitForEverything, EverythingIsDone, OwnerSleeps, Goto
  <2>3. /\ ready' = ready /\ sleeping' = sleeping /\ m_stopping' = m_stopping
        /\ UNCHANGED <<m_queue, m_threads, m_busy_count, back, gone>>
    BY <2>1 DEF poolVars
  <2>4. ready \in Nat /\ sleeping \in Nat /\ m_stopping \in BOOLEAN
    BY DEF PoolInv, TypeOK
  <2>5. QED
    BY <2>1, <2>2, <2>3, <2>4, OwnerKeepsInv
<1>11. ASSUME DispatchWithRoom PROVE PoolInv'
  <2>1. /\ at[Owner] = "dispatch" /\ Load < MaxThreads /\ Enqueue(Owner, 1)
        /\ Goto(Owner, "own") /\ awaited' = awaited /\ asleep' = asleep
    BY <1>11 DEF DispatchWithRoom
  <2>2. Load + 1 <= MaxThreads /\ awaited' \in [Actors -> SUBSET Tasks] /\ Owner \in Actors
    BY <2>1, ThreadPoolAssumption DEF Load, PoolInv, TypeOK, Actors
  <2>3. QED
    BY <2>1, <2>2, EnqueueKeepsInv
<1>12. ASSUME Destroy PROVE PoolInv'
  <2>1. /\ at[Owner] # "over" /\ at' = [at EXCEPT ![Owner] = "join"]
        /\ m_stopping' = TRUE /\ ready' = ready + sleeping /\ sleeping' = 0
        /\ UNCHANGED <<kind, m_queue, m_threads, m_busy_count, back, gone, taskVars, awaited, asleep>>
    BY <1>12 DEF Destroy, Goto
  <2>2. /\ ready' \in Nat /\ sleeping' \in Nat /\ ready' + sleeping' = ready + sleeping /\ ready' >= ready
        /\ asleep' \in BOOLEAN
    BY <2>1 DEF PoolInv, TypeOK
  <2>3. QED
    BY <2>1, <2>2, OwnerKeepsInv
<1>13. ASSUME SpuriousWakeup PROVE PoolInv'
  <2>1. /\ UNCHANGED <<kind, m_queue, m_threads, m_busy_count, m_stopping, back, gone, taskVars, at, awaited>>
        /\ ready' \in Nat /\ sleeping' \in Nat /\ ready' + sleeping' = ready + sleeping /\ ready' >= ready
        /\ asleep' \in BOOLEAN /\ m_stopping' \in BOOLEAN
    <3>1. asleep \in BOOLEAN /\ m_stopping \in BOOLEAN
      BY DEF PoolInv, TypeOK
    <3>2. CASE sleeping > 0 /\ sleeping' = sleeping - 1 /\ ready' = ready + 1 /\ UNCHANGED asleep
      BY <1>13, <3>1, <3>2, <1>0 DEF SpuriousWakeup
    <3>3. CASE asleep' = FALSE /\ sleeping' = sleeping /\ ready' = ready
      <4>1. /\ ready' \in Nat /\ sleeping' \in Nat /\ ready' + sleeping' = ready + sleeping
            /\ ready' >= ready
        BY <3>3, <1>0
      <4>2. QED
        BY <1>13, <3>1, <3>3, <4>1 DEF SpuriousWakeup
    <3>4. QED
      BY <1>13, <3>2, <3>3 DEF SpuriousWakeup
  <2>2. QED
    BY <1>13, <2>1, OwnerKeepsInv
<1>14. ASSUME UNCHANGED vars PROVE PoolInv'
  BY <1>14 DEF vars, poolVars, taskVars, PoolInv, TypeOK, Counted, Running, EveryTaskHasAThread,
               LimitIsKept, Queued, Settled
<1>15. QED
  BY <1>1, <1>2, <1>3, <1>4, <1>5, <1>6, <1>7, <1>8, <1>9, <1>10, <1>11, <1>12, <1>13, <1>14,
     IdleKeepsInv, TakeKeepsInv, FinishKeepsInv, JoinKeepsInv
     DEF Next, ActorStep, OwnerStep, ThreadStep

\* The invariant, and with it that the counts of the threads add up: the
\* difference in dispatch_task() (AsyncDispatcher.cpp:87) never wraps.
THEOREM PoolInvHolds == Spec => []PoolInv
BY InitPoolInv, NextPoolInv, PTL DEF Spec

\* A task that is dispatched never waits for another to end: a thread is
\* awake and free for it, however the tasks wait for each other.
THEOREM NoTaskWaitsForATask == Spec => []EveryTaskHasAThread
<1>1. PoolInv => EveryTaskHasAThread
  BY DEF PoolInv
<1>2. QED
  BY <1>1, PoolInvHolds, PTL

\* A ParallelTaskRunner never has more than m_max_threads threads.
THEOREM RunnerKeepsItsLimit == Spec => []LimitIsKept
<1>1. PoolInv => LimitIsKept
  BY DEF PoolInv
<1>2. QED
  BY <1>1, PoolInvHolds, PTL

\* No thread gets a pointer to a task that has been destroyed.
THEOREM NoDanglingTask == Spec => []TasksAreAlive
<1>1. PoolInv => TasksAreAlive
  <2> SUFFICES ASSUME PoolInv PROVE TasksAreAlive
    OBVIOUS
  <2>1. \A i \in 1 .. Len(m_queue) : m_queue[i] \notin freed
    BY DEF PoolInv, Queued, Settled
  <2>2. QED
    BY <2>1 DEF PoolInv, Settled, TasksAreAlive
<1>2. QED
  BY <1>1, PoolInvHolds, PTL

-----------------------------------------------------------------------------
\* Who waits for whom, in an AsyncDispatcher: a task is younger than the one
\* that made it, and destroyed when that one is over.  So the owner, that
\* has waited for its own tasks, has waited for all of them.
Family ==
    kind = "async" =>
       /\ \A k \in 1 .. made : maker[k] < k
       /\ \A k \in 1 .. made : maker[k] \in Tasks /\ at[maker[k]] = "over" => k \in freed
       /\ at[Owner] \notin {"dispatch", "everything"}
       /\ m_stopping => at[Owner] \in {"join", "over"} /\ 1 .. made \subseteq finished

LEMMA MadeAreTasks == PoolInv => made \in Nat /\ 1 .. made \subseteq Tasks /\ maker \in [Tasks -> Actors]
BY ThreadPoolAssumption DEF PoolInv, TypeOK, Tasks

\* A step in which no task is made or comes to its end, and the pool is not
\* destroyed.
LEMMA FamilyStays ==
    ASSUME PoolInv, Family, UNCHANGED <<kind, made, maker, m_stopping>>,
           finished \subseteq finished', freed \subseteq freed',
           \A k \in Tasks : at'[k] = "over" => at[k] = "over",
           at[Owner] \in {"join", "over"} => at'[Owner] \in {"join", "over"},
           at'[Owner] \notin {"dispatch", "everything"} \/ at'[Owner] = at[Owner] \/ kind # "async"
    PROVE  Family'
<1>1. 1 .. made \subseteq Tasks /\ made' = made /\ maker' = maker
  BY MadeAreTasks
<1>2. QED
  BY <1>1 DEF Family

\* A step of an actor that is in its body, to another place of it.
LEMMA FamilyStaysInBody ==
    ASSUME PoolInv, Family, NEW a \in Actors, at[a] \in Active,
           NEW place \in Active, at' = [at EXCEPT ![a] = place],
           UNCHANGED <<kind, poolVars, made, maker, finished>>, freed \subseteq freed'
    PROVE  Family'
<1>1. \A k \in Tasks : at'[k] = "over" => at[k] = "over"
  BY DEF PoolInv, TypeOK, Tasks, Actors, Active
<1>2. at[Owner] \in {"join", "over"} => at'[Owner] \in {"join", "over"}
  BY DEF PoolInv, TypeOK, Actors, Active
<1>3. at'[Owner] = at[Owner] \/ at'[Owner] \in Active
  BY DEF PoolInv, TypeOK, Actors
<1>4. QED
  BY <1>1, <1>2, <1>3, FamilyStays DEF poolVars, Active

\* Nobody dispatches on a pool that is being destroyed; and a task that
\* dispatches is older than the task it makes.
LEMMA FamilyGrows ==
    ASSUME PoolInv, Family, NEW a \in Actors, at[a] = "own", NEW n \in Nat \ {0},
           Enqueue(a, n), NEW place \in {"own", "wait"}, Goto(a, place)
    PROVE  Family'
<1> SUFFICES ASSUME kind' = "async" PROVE Family'
  BY DEF Family
<1>1. /\ kind = "async" /\ m_stopping' = m_stopping /\ made' = made + n
      /\ maker' = [k \in Tasks |-> IF k \in made + 1 .. made + n THEN a ELSE maker[k]]
      /\ finished' = finished /\ freed' = freed /\ made' <= MaxTasks
  BY DEF Enqueue
<1>2. made \in Nat /\ 1 .. made \subseteq Tasks /\ 1 .. made' \subseteq Tasks
  BY <1>1, MadeAreTasks, ThreadPoolAssumption DEF Tasks
<1>3. \/ a = 0
      \/ a \in 1 .. made /\ a \notin finished
  <2>1. CASE a = Owner
    BY <2>1 DEF Owner
  <2>2. CASE a \in Tasks
    BY <2>2, <1>2 DEF PoolInv, Queued, Settled, Active, Tasks
  <2> QED BY <2>1, <2>2 DEF Actors
<1>4. ~ m_stopping
  <2>1. CASE a = 0
    BY <2>1, <1>1 DEF Family, Owner
  <2>2. CASE a \in 1 .. made /\ a \notin finished
    BY <2>2, <1>1 DEF Family
  <2> QED BY <1>3, <2>1, <2>2
<1>5. ASSUME NEW k \in 1 .. made'
      PROVE  maker'[k] < k /\ (maker'[k] \in Tasks /\ at'[maker'[k]] = "over" => k \in freed')
  <2>1. k \in Tasks
    BY <1>2
  <2>2. CASE k \in 1 .. made
    <3>1. maker'[k] = maker[k]
      BY <2>1, <2>2, <1>1, <1>2
    <3>2. maker'[k] \in Tasks /\ at'[maker'[k]] = "over" => at[maker[k]] = "over"
      BY <3>1 DEF Goto, PoolInv, TypeOK, Tasks, Actors
    <3> QED BY <2>2, <3>1, <3>2, <1>1 DEF Family
  <2>3. CASE k \notin 1 .. made
    <3>1. k \in made + 1 .. made + n
      BY <2>3, <1>1, <1>2
    <3>2. maker'[k] = a
      BY <2>1, <3>1, <1>1
    <3>3. at'[a] # "over"
      BY DEF Goto, PoolInv, TypeOK
    <3>4. a < k
      BY <3>1, <1>2, <1>3
    <3> QED BY <3>2, <3>3, <3>4
  <2> QED BY <2>2, <2>3
<1>6. at'[Owner] \notin {"dispatch", "everything"}
  BY <1>1 DEF Goto, PoolInv, TypeOK, Actors, Family
<1>7. QED
  BY <1>1, <1>4, <1>5, <1>6 DEF Family

\* A task comes to its end without any handle.
LEMMA FamilyOutlivesATask ==
    ASSUME PoolInv, Family, NEW t \in Tasks, Finish(t)
    PROVE  Family'
<1> SUFFICES ASSUME kind' = "async" PROVE Family'
  BY DEF Family
<1>1. /\ kind = "async" /\ UNCHANGED <<made, maker, m_stopping, freed>>
      /\ Handles(t) = {} /\ at' = [at EXCEPT ![t] = "over"] /\ finished' = finished \cup {t}
  BY DEF Finish, Goto
<1>2. \A k \in 1 .. made : maker[k] = t => k \in freed
  BY <1>1 DEF Handles
<1>3. \A k \in Tasks : k # t => at'[k] = at[k]
  BY <1>1 DEF PoolInv, TypeOK, Tasks, Actors
<1>4. at'[Owner] = at[Owner]
  BY <1>1 DEF PoolInv, TypeOK, Tasks, Owner
<1>5. \A k \in 1 .. made : maker[k] \in Tasks /\ at'[maker[k]] = "over" => k \in freed
  BY <1>1, <1>2, <1>3 DEF Family
<1>6. QED
  BY <1>1, <1>4, <1>5 DEF Family

\* The owner has no handle left when it destroys the pool.  The oldest task
\* that is not finished would be its own, or one of a task that is over.
LEMMA AllAreFinished ==
    ASSUME PoolInv, Family, kind = "async", at[Owner] # "over", Handles(Owner) = {}
    PROVE  1 .. made \subseteq finished
<1> DEFINE Left == {k \in 1 .. made : k \notin finished}
<1> DEFINE Less == {p \in Nat \X Nat : p[1] < p[2]}
<1> SUFFICES ASSUME Left # {} PROVE FALSE
  OBVIOUS
<1>1. made \in Nat /\ 1 .. made \subseteq Tasks /\ maker \in [Tasks -> Actors]
  BY MadeAreTasks
<1>2. IsWellFoundedOn(Less, Nat)
  BY NatLessThanWellFounded DEF OpToRel
<1>3. Left \subseteq Nat
  BY <1>1
<1>4. PICK u \in Left : \A y \in Left : ~ (<<y, u>> \in Less)
  BY <1>2, <1>3, WFMin
<1>5. u \in 1 .. made /\ u \notin finished /\ u \notin freed
  BY <1>4 DEF PoolInv, Settled
<1>6. maker[u] \in Actors /\ maker[u] < u
  BY <1>1, <1>5 DEF Family
<1>7. maker[u] # Owner
  BY <1>5 DEF Handles
<1>8. maker[u] \in Tasks /\ maker[u] \in Nat /\ u \in Nat
  BY <1>1, <1>5, <1>6, <1>7 DEF Actors, Tasks
<1>9. maker[u] \in 1 .. made
  BY <1>1, <1>5, <1>6, <1>8 DEF Tasks
<1>10. maker[u] \notin Left
  BY <1>4, <1>6, <1>8
<1>11. at[maker[u]] = "over"
  BY <1>9, <1>10 DEF PoolInv, Settled
<1>12. QED
  BY <1>5, <1>8, <1>11 DEF Family

LEMMA InitFamily == Init => Family
<1>1. Init => made = 0 /\ m_stopping = FALSE /\ at[Owner] = "own"
  BY DEF Init, Actors
<1>2. QED
  BY <1>1 DEF Family

LEMMA NextFamily == PoolInv /\ Family /\ [Next]_vars => Family'
<1> SUFFICES ASSUME PoolInv, Family, [Next]_vars PROVE Family'
  OBVIOUS
<1> USE DEF Active
<1>1. ASSUME NEW a \in Actors, Dispatch(a) PROVE Family'
  <2>1. at[a] = "own" /\ Enqueue(a, 1) /\ Goto(a, "own")
    BY <1>1 DEF Dispatch, Goto, PoolInv, TypeOK
  <2> QED BY <2>1, FamilyGrows
<1>2. ASSUME NEW a \in Actors, RunInParallel(a) PROVE Family'
  <2>1. at[a] = "own" /\ Enqueue(a, Width) /\ Goto(a, "wait")
    BY <1>2 DEF RunInParallel
  <2> QED BY <2>1, FamilyGrows, ThreadPoolAssumption
<1>3. ASSUME NEW a \in Actors, EnsureThreads(a) PROVE Family'
  <2>1. UNCHANGED <<kind, m_stopping, taskVars, at>>
    BY <1>3 DEF EnsureThreads
  <2> QED BY <2>1, FamilyStays DEF taskVars
<1>4. ASSUME NEW a \in Actors, WaitAndRethrow(a) PROVE Family'
  BY <1>4, FamilyStaysInBody DEF WaitAndRethrow, Goto, taskVars
<1>5. ASSUME NEW a \in Actors, WaitReturns(a) PROVE Family'
  BY <1>5, FamilyStaysInBody DEF WaitReturns, Goto
<1>6. ASSUME NEW a \in Actors, WaitThrows(a) PROVE Family'
  BY <1>6, FamilyStaysInBody DEF WaitThrows, Goto, taskVars
<1>7. ASSUME NEW a \in Actors, Unwind(a) PROVE Family'
  <2>1. PICK place \in {"own", "threw"} : at' = [at EXCEPT ![a] = place]
    BY <1>7 DEF Unwind, Goto
  <2> QED BY <1>7, <2>1, FamilyStaysInBody DEF Unwind
<1>8. ASSUME NEW a \in Actors, Leave(a) PROVE Family'
  <2>1. PICK place \in {"leave", "threw"} : at' = [at EXCEPT ![a] = place]
    BY <1>8 DEF Leave, Goto
  <2> QED BY <1>8, <2>1, FamilyStaysInBody DEF Leave, taskVars
<1>9. ASSUME NEW a \in Actors, DropHandles(a) PROVE Family'
  <2>1. UNCHANGED <<kind, m_stopping, made, maker, finished, at>> /\ freed \subseteq freed'
    BY <1>9 DEF DropHandles, poolVars
  <2> QED BY <2>1, FamilyStays
<1>10. ASSUME CallDispatch \/ CallWaitForEverything \/ EverythingIsDone \/ OwnerSleeps PROVE Family'
  <2>1. UNCHANGED <<kind, poolVars, taskVars>> /\ at[Owner] # "over"
    BY <1>10 DEF CallDispatch, CallWaitForEverything, EverythingIsDone, OwnerSleeps
  <2>2. PICK place \in {"own", "dispatch", "everything"} :
           \/ at' = [at EXCEPT ![Owner] = place] /\ at[Owner] \in {"own", "everything"}
           \/ at' = at
    BY <1>10 DEF CallDispatch, CallWaitForEverything, EverythingIsDone, OwnerSleeps, Goto
  <2>3. \A k \in Tasks : at'[k] = at[k]
    BY SMTT(20), <2>2 DEF PoolInv, TypeOK, Tasks, Owner
  <2>4. at[Owner] \in {"join", "over"} => at'[Owner] \in {"join", "over"}
    BY <2>2
  <2>5. at'[Owner] \notin {"dispatch", "everything"} \/ at'[Owner] = at[Owner] \/ kind # "async"
    BY <1>10, <2>1 DEF CallDispatch, CallWaitForEverything, EverythingIsDone, OwnerSleeps,
                       Goto, PoolInv, TypeOK, Actors
  <2> QED BY <2>1, <2>3, <2>4, <2>5, FamilyStays DEF poolVars, taskVars
<1>11. ASSUME DispatchWithRoom PROVE Family'
  <2>1. kind # "async"
    BY <1>11 DEF DispatchWithRoom, Family
  <2> QED BY <2>1, <1>11 DEF DispatchWithRoom, Enqueue, Family
<1>12. ASSUME NEW from \in {"ready", "back"}, Exit(from) \/ Sleep(from) PROVE Family'
  <2>1. UNCHANGED <<kind, m_stopping, taskVars, at>>
    BY <1>12 DEF Exit, Sleep
  <2> QED BY <2>1, FamilyStays DEF taskVars
<1>13. ASSUME NEW from \in {"ready", "back"}, Take(from) PROVE Family'
  <2>1. UNCHANGED <<kind, m_stopping, taskVars>> /\ at' = [at EXCEPT ![Head(m_queue)] = "own"]
    BY <1>13 DEF Take, Goto
  <2>2. Head(m_queue) \in Tasks
    BY <1>13 DEF Take, PoolInv, TypeOK
  <2>3. at'[Owner] = at[Owner]
    BY <2>1, <2>2 DEF PoolInv, TypeOK, Tasks, Actors, Owner
  <2>4. \A k \in Tasks : at'[k] = "over" => at[k] = "over"
    BY <2>1, <2>2 DEF PoolInv, TypeOK, Tasks, Actors
  <2> QED BY <2>1, <2>3, <2>4, FamilyStays DEF taskVars
<1>14. ASSUME Destroy PROVE Family'
  <2>1. /\ at[Owner] # "over" /\ Handles(Owner) = {} /\ at' = [at EXCEPT ![Owner] = "join"]
        /\ UNCHANGED <<kind, made, maker, finished, freed>>
    BY <1>14 DEF Destroy, Goto, taskVars
  <2>2. at'[Owner] = "join" /\ \A k \in Tasks : at'[k] = at[k]
    BY <2>1 DEF PoolInv, TypeOK, Tasks, Actors, Owner
  <2>3. kind = "async" => 1 .. made \subseteq finished
    BY <2>1, AllAreFinished
  <2> QED BY <2>1, <2>2, <2>3 DEF Family
<1>15. ASSUME Join PROVE Family'
  <2>1. /\ UNCHANGED <<kind, m_stopping, made, maker, freed>> /\ finished \subseteq finished'
        /\ at' = [at EXCEPT ![Owner] = "over"]
    BY <1>15 DEF Join, Goto
  <2>2. at'[Owner] = "over" /\ \A k \in Tasks : at'[k] = at[k]
    BY <2>1 DEF PoolInv, TypeOK, Tasks, Actors, Owner
  <2> QED BY <2>1, <2>2, FamilyStays
<1>16. ASSUME SpuriousWakeup PROVE Family'
  <2>1. UNCHANGED <<kind, m_stopping, taskVars, at>>
    BY <1>16 DEF SpuriousWakeup
  <2> QED BY <2>1, FamilyStays DEF taskVars
<1>17. ASSUME UNCHANGED vars PROVE Family'
  BY <1>17, FamilyStays DEF vars, poolVars, taskVars
<1>18. QED
  BY <1>1, <1>2, <1>3, <1>4, <1>5, <1>6, <1>7, <1>8, <1>9, <1>10, <1>11, <1>12, <1>13, <1>14,
     <1>15, <1>16, <1>17, FamilyOutlivesATask
     DEF Next, ActorStep, OwnerStep, ThreadStep

\* An AsyncDispatcher that is destroyed has nothing in its queue: the loop
\* of its destructor that signals what nobody has run finds nothing, and no
\* AsyncTask is over without having been run.
THEOREM NothingIsLeft == Spec => []NothingIsAbandoned
<1>1. PoolInv /\ Family => NothingIsAbandoned
  <2> SUFFICES ASSUME PoolInv, Family, kind = "async", m_stopping PROVE m_queue = <<>>
    BY DEF NothingIsAbandoned
  <2>1. m_queue \in Seq(Tasks) /\ made \in Nat
    BY MadeAreTasks DEF PoolInv, TypeOK
  <2>2. ASSUME NEW i \in 1 .. Len(m_queue)
        PROVE  m_queue[i] \in 1 .. made /\ m_queue[i] \notin finished
    <3>0. m_queue[i] \in Tasks
      BY <2>1
    <3>1. m_queue[i] \in Nat /\ m_queue[i] >= 1
      BY <3>0, ThreadPoolAssumption DEF Tasks
    <3>2. m_queue[i] <= made /\ m_queue[i] \notin finished
      BY DEF PoolInv, Queued
    <3> QED BY <2>1, <3>1, <3>2
  <2>3. 1 \notin 1 .. Len(m_queue)
    BY <2>2 DEF Family
  <2> QED BY <2>1, <2>3
<1>2. QED
  BY <1>1, PoolInvHolds, InitFamily, NextFamily, PTL DEF Spec

=============================================================================
