------------------------- MODULE WorkerClientProofs -------------------------
(***************************************************************************)
(* Theorems about ThreadPool and WorkerClient, for every number of pool    *)
(* threads, callers and tasks.  The first part is about any use of the     *)
(* pool; a Worker uses its pool as ThreadPool allows, so what it shows     *)
(* holds in the Worker.                                                    *)
(***************************************************************************)
EXTENDS WorkerClient, FiniteSetTheorems, SequenceTheorems, TLAPS

\* A thread returns only when m_stop is set and all accepted tasks were started,
\* and the destructor waits for all threads.
EndInv ==
    /\ At("end") # {} => m_stop /\ accepted <= Len(started)
    /\ dtor = "gone" => At("end") = Pool

\* The inductive invariant of the queue and its threads.
PoolInv == PoolTypeOK /\ InOrder /\ HeldOnce /\ EndInv

-----------------------------------------------------------------------------
LEMMA PoolInitInv == PoolInit => PoolInv
<1> SUFFICES ASSUME PoolInit PROVE PoolInv
  OBVIOUS
<1>1. PoolTypeOK
  <2>1. <<>> \in Seq(Nat)
    BY EmptySeq
  <2>2. /\ pc = [t \in Pool |-> "lock"] /\ task = [t \in Pool |-> None]
        /\ m_taskQueue = <<>> /\ started = <<>> /\ m_stop = FALSE /\ notifying = {}
        /\ dtor = "alive" /\ pushed = 0 /\ accepted = 0 /\ finished = {}
    BY DEF PoolInit
  <2>3. \A t \in Pool : pc[t] = "run" <=> task[t] # None
    BY <2>2
  <2>4. m_stop \in BOOLEAN /\ (m_stop <=> dtor # "alive")
    BY <2>2
  <2>5. pushed \in Nat /\ accepted \in 0 .. pushed /\ finished \subseteq 1 .. pushed
    BY <2>2
  <2>6. /\ pc \in [Pool -> {"lock", "wait", "run", "end"}]
        /\ task \in [Pool -> Nat \cup {None}]
    BY <2>2
  <2> QED
    BY <2>1, <2>2, <2>3, <2>4, <2>5, <2>6 DEF PoolTypeOK
<1>2. InOrder
  BY EmptySeq DEF PoolInit, InOrder
<1>3. HeldOnce
  BY EmptySeq DEF PoolInit, HeldOnce, At
<1>4. EndInv
  BY DEF PoolInit, EndInv, At
<1> QED
  BY <1>1, <1>2, <1>3, <1>4 DEF PoolInv

\* The step of a thread that goes from one place to another without a task, and of
\* those that only move threads between these places.
LEMMA MovePreserves ==
    ASSUME PoolInv,
           pc' \in [Pool -> {"lock", "wait", "run", "end"}],
           At("run")' = At("run"),
           UNCHANGED <<m_taskQueue, task, pushed, started, finished>>
    PROVE  InOrder' /\ HeldOnce' /\ \A t \in Pool : pc'[t] = "run" <=> task'[t] # None
<1>1. InOrder'
  BY DEF PoolInv, InOrder
<1>2. HeldOnce'
  BY DEF PoolInv, HeldOnce
<1>3. \A t \in Pool : pc'[t] = "run" <=> pc[t] = "run"
  BY DEF At
<1> QED
  BY <1>1, <1>2, <1>3 DEF PoolInv, PoolTypeOK

\* Enqueue.
LEMMA PushPreserves ==
    ASSUME PoolInv, NEW c \in Caller, Push(c)
    PROVE  PoolInv'
<1> USE DEF PoolInv
<1>1. /\ Len(m_taskQueue') = Len(m_taskQueue) + 1
      /\ m_taskQueue' \in Seq(Nat)
      /\ \A i \in 1 .. Len(m_taskQueue) : m_taskQueue'[i] = m_taskQueue[i]
      /\ m_taskQueue'[Len(m_taskQueue) + 1] = pushed + 1
  BY AppendProperties DEF Push, PoolTypeOK
<1>2. Len(m_taskQueue) \in Nat /\ Len(started) \in Nat
  BY LenProperties DEF PoolTypeOK
<1>3. PoolTypeOK'
  BY <1>1 DEF Push, PoolTypeOK, threads
<1>4. InOrder'
  <2>1. pushed' = pushed + 1 /\ started' = started /\ pushed \in Nat
    BY DEF Push, PoolTypeOK
  <2>2. Len(started) + Len(m_taskQueue) = pushed
    BY DEF InOrder
  <2>3. ASSUME NEW i \in 1 .. Len(m_taskQueue')
        PROVE  m_taskQueue'[i] = Len(started) + i
    <3>1. CASE i \in 1 .. Len(m_taskQueue)
      BY <1>1, <3>1 DEF InOrder
    <3>2. CASE i = Len(m_taskQueue) + 1
      BY <1>1, <1>2, <2>2, <3>2
    <3> QED
      BY <1>1, <1>2, <3>1, <3>2
  <2> QED
    BY <1>1, <1>2, <2>1, <2>2, <2>3 DEF InOrder
<1>5. HeldOnce' /\ EndInv'
  BY DEF Push, HeldOnce, EndInv, At, threads
<1> QED
  BY <1>3, <1>4, <1>5

LEMMA NotifyOnePreserves ==
    ASSUME PoolInv, NEW c \in Caller, NotifyOne(c)
    PROVE  PoolInv'
<1> USE DEF PoolInv
<1>1. \/ pc' = pc
      \/ \E t \in At("wait") : pc' = [pc EXCEPT ![t] = "lock"]
  BY DEF NotifyOne
<1>2. /\ pc' \in [Pool -> {"lock", "wait", "run", "end"}]
      /\ At("run")' = At("run") /\ At("end")' = At("end")
  BY <1>1 DEF At, PoolTypeOK
<1>3. UNCHANGED <<m_taskQueue, m_stop, task, dtor, pushed, accepted, started, finished>>
      /\ notifying' \subseteq notifying
  BY DEF NotifyOne, history
<1>4. InOrder' /\ HeldOnce' /\ \A t \in Pool : pc'[t] = "run" <=> task'[t] # None
  BY <1>2, <1>3, MovePreserves
<1>5. PoolTypeOK'
  BY <1>2, <1>3, <1>4 DEF PoolTypeOK
<1>6. EndInv'
  BY <1>2, <1>3 DEF EndInv
<1> QED
  BY <1>4, <1>5, <1>6

LEMMA GoPreserves ==
    ASSUME PoolInv, NEW t \in Pool, NEW from \in {"lock", "wait"},
           NEW to \in {"lock", "wait", "end"}, Go(t, from, to),
           to = "end" => m_stop /\ m_taskQueue = <<>>
    PROVE  PoolInv'
<1> USE DEF PoolInv
<1>1. pc[t] = from /\ pc' = [pc EXCEPT ![t] = to]
  BY DEF Go
<1>2. /\ pc' \in [Pool -> {"lock", "wait", "run", "end"}]
      /\ At("run")' = At("run")
      /\ At("end")' = IF to = "end" THEN At("end") \cup {t} ELSE At("end")
      /\ t \notin At("end")
  BY <1>1 DEF At, PoolTypeOK
<1>3. UNCHANGED <<m_taskQueue, m_stop, task, notifying, dtor, pushed, accepted,
                  started, finished>>
  BY DEF Go, history
<1>4. InOrder' /\ HeldOnce' /\ \A u \in Pool : pc'[u] = "run" <=> task'[u] # None
  BY <1>2, <1>3, MovePreserves
<1>5. PoolTypeOK'
  BY <1>2, <1>3, <1>4 DEF PoolTypeOK
<1>6. to = "end" => accepted <= Len(started)
  BY EmptySeq, LenProperties DEF InOrder, PoolTypeOK
<1>7. EndInv'
  BY <1>2, <1>3, <1>6 DEF EndInv
<1> QED
  BY <1>4, <1>5, <1>7

\* A thread takes the oldest task.
LEMMA TakePreserves ==
    ASSUME PoolInv, NEW t \in Pool, Take(t)
    PROVE  PoolInv'
<1> USE DEF PoolInv
<1> DEFINE k == Len(started) + 1
<1>1. /\ pc[t] = "lock" /\ m_taskQueue # <<>>
      /\ UNCHANGED <<m_stop, notifying, dtor, pushed, accepted, finished>>
      /\ pc' = [pc EXCEPT ![t] = "run"]
  BY DEF Take
<1>2. /\ Len(m_taskQueue) \in Nat /\ Len(started) \in Nat /\ k \in Nat
      /\ Len(m_taskQueue) > 0
  BY <1>1, LenProperties, EmptySeq DEF PoolTypeOK
<1>3. Head(m_taskQueue) = k
  BY <1>1, <1>2 DEF InOrder, PoolTypeOK
<1>4. /\ m_taskQueue' \in Seq(Nat)
      /\ Len(m_taskQueue') = Len(m_taskQueue) - 1
      /\ \A i \in 1 .. Len(m_taskQueue') : m_taskQueue'[i] = m_taskQueue[i + 1]
  BY <1>1, <1>2 DEF Take, PoolTypeOK
<1>5. /\ started' \in Seq(Nat) /\ Len(started') = k
      /\ \A i \in 1 .. Len(started) : started'[i] = started[i]
      /\ started'[k] = k
  BY <1>2, <1>3, AppendProperties DEF Take, PoolTypeOK
<1>6. task' = [task EXCEPT ![t] = k]
  BY <1>3 DEF Take
<1>7. InOrder'
  <2>1. Len(started') + Len(m_taskQueue') = pushed'
    BY <1>1, <1>2, <1>4, <1>5 DEF InOrder
  <2>2. ASSUME NEW i \in 1 .. Len(started') PROVE started'[i] = i
    <3>1. CASE i = k
      BY <1>5, <3>1
    <3>2. CASE i \in 1 .. Len(started)
      BY <1>5, <3>2 DEF InOrder
    <3> QED
      BY <1>2, <1>5, <3>1, <3>2
  <2>3. ASSUME NEW i \in 1 .. Len(m_taskQueue')
        PROVE  m_taskQueue'[i] = Len(started') + i
    <3>1. i + 1 \in 1 .. Len(m_taskQueue) /\ i \in Nat
      BY <1>2, <1>4
    <3>2. m_taskQueue[i + 1] = Len(started) + (i + 1)
      BY <3>1 DEF InOrder
    <3> QED
      BY <1>2, <1>4, <1>5, <3>1, <3>2
  <2> QED
    BY <2>1, <2>2, <2>3 DEF InOrder
<1>8. PoolTypeOK'
  <2>1. task' \in [Pool -> Nat \cup {None}] /\ k # None
    BY <1>2, <1>6, PoolAssumption DEF PoolTypeOK
  <2>2. \A u \in Pool : pc'[u] = "run" <=> task'[u] # None
    BY <1>1, <1>6, <2>1 DEF PoolTypeOK
  <2> QED
    BY <1>1, <1>4, <1>5, <2>1, <2>2 DEF PoolTypeOK
<1>9. At("run")' = At("run") \cup {t} /\ t \notin At("run")
  BY <1>1 DEF At, PoolTypeOK
<1>10. HeldOnce'
  <2>1. \A u \in At("run") : task'[u] = task[u] /\ task[u] \in 1 .. Len(started)
    BY <1>6, <1>9 DEF HeldOnce, PoolTypeOK, At
  <2>2. task'[t] = k
    BY <1>6 DEF PoolTypeOK
  <2>3. {task'[u] : u \in At("run")'} = {task[u] : u \in At("run")} \cup {k}
    BY <1>9, <2>1, <2>2
  <2>4. 1 .. Len(started') = (1 .. Len(started)) \cup {k}
    BY <1>2, <1>5
  <2>5. finished \cup {task'[u] : u \in At("run")'} = 1 .. Len(started')
    BY <2>3, <2>4 DEF HeldOnce
  <2>6. k \notin finished /\ \A u \in At("run") : task[u] # k
    BY <1>2, <2>1 DEF HeldOnce
  <2> QED
    BY <1>1, <1>9, <2>1, <2>2, <2>5, <2>6 DEF HeldOnce
<1>11. EndInv'
  <2>1. At("end")' = At("end")
    BY <1>1 DEF At, PoolTypeOK
  <2> QED
    BY <1>1, <1>2, <1>5, <2>1 DEF EndInv, PoolTypeOK
<1> QED
  BY <1>7, <1>8, <1>10, <1>11

LEMMA FinishPreserves ==
    ASSUME PoolInv, NEW t \in Pool, Finish(t)
    PROVE  PoolInv'
<1> USE DEF PoolInv
<1>1. /\ pc[t] = "run" /\ finished' = finished \cup {task[t]}
      /\ task' = [task EXCEPT ![t] = None]
      /\ pc' = [pc EXCEPT ![t] = "lock"]
      /\ UNCHANGED <<m_taskQueue, m_stop, notifying, dtor, pushed, accepted, started>>
  BY DEF Finish
<1>2. /\ At("run")' = At("run") \ {t} /\ t \in At("run")
      /\ At("end")' = At("end")
  BY <1>1 DEF At, PoolTypeOK
<1>3. InOrder'
  BY <1>1 DEF InOrder
<1>4. HeldOnce'
  <2>1. \A u \in At("run") \ {t} : task'[u] = task[u]
    BY <1>1 DEF PoolTypeOK, At
  <2>2. {task'[u] : u \in At("run")'} = {task[u] : u \in At("run") \ {t}}
    BY <1>2, <2>1
  <2>3. finished' \cup {task'[u] : u \in At("run")'} = 1 .. Len(started')
    BY <1>1, <1>2, <2>2 DEF HeldOnce
  <2>4. \A u \in At("run") \ {t} : task[u] # task[t]
    BY <1>2 DEF HeldOnce
  <2> QED
    BY <1>1, <1>2, <2>1, <2>3, <2>4 DEF HeldOnce
<1>5. task[t] \in 1 .. pushed
  <2>1. task[t] \in 1 .. Len(started)
    BY <1>2 DEF HeldOnce
  <2> QED
    BY <2>1, LenProperties DEF InOrder, PoolTypeOK
<1>6. PoolTypeOK'
  <2>1. \A u \in Pool : pc'[u] = "run" <=> task'[u] # None
    BY <1>1 DEF PoolTypeOK
  <2> QED
    BY <1>1, <1>5, <2>1 DEF PoolTypeOK
<1>7. EndInv'
  BY <1>1, <1>2 DEF EndInv
<1> QED
  BY <1>3, <1>4, <1>6, <1>7

\* The destructor.
LEMMA DestructorPreserves ==
    ASSUME PoolInv, Destructor
    PROVE  PoolInv'
<1> USE DEF PoolInv
<1>1. CASE Stop
  <2>1. dtor = "alive" /\ ~m_stop /\ At("end") = {}
    BY <1>1 DEF Stop, PoolTypeOK, EndInv
  <2>2. PoolTypeOK'
    BY <1>1 DEF Stop, PoolTypeOK, threads
  <2>3. InOrder' /\ HeldOnce' /\ At("end")' = At("end") /\ dtor' = "notify"
    BY <1>1 DEF Stop, InOrder, HeldOnce, At, threads
  <2> QED
    BY <2>1, <2>2, <2>3 DEF EndInv
<1>2. CASE NotifyAll
  <2>1. /\ pc' = [u \in Pool |-> IF pc[u] = "wait" THEN "lock" ELSE pc[u]]
        /\ dtor = "notify" /\ dtor' = "join"
        /\ UNCHANGED <<m_taskQueue, m_stop, task, notifying, pushed, accepted,
                       started, finished>>
    BY <1>2 DEF NotifyAll, history
  <2>2. /\ pc' \in [Pool -> {"lock", "wait", "run", "end"}]
        /\ At("run")' = At("run") /\ At("end")' = At("end")
    BY <2>1 DEF At, PoolTypeOK
  <2>3. InOrder' /\ HeldOnce' /\ \A u \in Pool : pc'[u] = "run" <=> task'[u] # None
    BY <2>1, <2>2, MovePreserves
  <2>4. PoolTypeOK'
    BY <2>1, <2>2, <2>3 DEF PoolTypeOK
  <2> QED
    BY <2>1, <2>2, <2>3, <2>4 DEF EndInv
<1>3. CASE Join
  <2>1. At("end") = Pool
    BY <1>3 DEF Join, At
  <2>2. PoolTypeOK'
    BY <1>3 DEF Join, PoolTypeOK, threads, history
  <2>3. InOrder' /\ HeldOnce' /\ UNCHANGED <<At("end"), m_stop, accepted, started>>
    BY <1>3 DEF Join, InOrder, HeldOnce, At, threads, history
  <2> QED
    BY <2>1, <2>2, <2>3 DEF EndInv
<1> QED
  BY <1>1, <1>2, <1>3 DEF Destructor

LEMMA PoolStep == PoolInv /\ [PoolNext]_poolVars => PoolInv'
<1> SUFFICES ASSUME PoolInv, [PoolNext]_poolVars PROVE PoolInv'
  OBVIOUS
<1>1. CASE \E c \in Caller : Enqueue(c)
  BY <1>1, PushPreserves, NotifyOnePreserves DEF Enqueue
<1>2. ASSUME NEW t \in Pool, Loop(t) PROVE PoolInv'
  <2>1. CASE Wait(t)
    BY <2>1, GoPreserves DEF Wait
  <2>2. CASE Exit(t)
    BY <2>2, GoPreserves DEF Exit
  <2> QED
    BY <1>2, <2>1, <2>2, TakePreserves DEF Loop
<1>3. ASSUME NEW t \in Pool, Wakeup(t) PROVE PoolInv'
  BY <1>3, GoPreserves DEF Wakeup
<1>4. CASE UNCHANGED poolVars
  BY <1>4 DEF PoolInv, PoolTypeOK, InOrder, HeldOnce, EndInv, At, poolVars, threads,
              history
<1> QED
  BY <1>1, <1>2, <1>3, <1>4, FinishPreserves, DestructorPreserves DEF PoolNext

LEMMA PoolInvariant == PoolSpec => []PoolInv
  BY PoolInitInv, PoolStep, PTL DEF PoolSpec

-----------------------------------------------------------------------------
\* The threads and the queue of ThreadPool keep their types; a thread has a task
\* exactly while it runs one.
THEOREM PoolTypeCorrect == PoolSpec => []PoolTypeOK
  BY PoolInvariant, PTL DEF PoolInv

\* Tasks are started in the order of the Enqueue calls; none is lost in the queue
\* or started twice.
THEOREM TasksInOrder == PoolSpec => []InOrder
  BY PoolInvariant, PTL DEF PoolInv

\* A task that was started has returned or is run by exactly one thread.
THEOREM TasksHeldOnce == PoolSpec => []HeldOnce
  BY PoolInvariant, PTL DEF PoolInv

\* When ~ThreadPool is over, every task pushed before the stop has returned.
THEOREM StopIsGraceful == PoolSpec => []GracefulStop
<1>1. PoolInv => GracefulStop
  <2> SUFFICES ASSUME PoolInv, dtor = "gone"
               PROVE  At("end") = Pool /\ 1 .. accepted \subseteq finished
    BY DEF GracefulStop
  <2>1. At("end") = Pool /\ Pool # {}
    BY PoolAssumption DEF PoolInv, EndInv
  <2>2. At("run") = {}
    BY <2>1 DEF At
  <2>3. finished = 1 .. Len(started)
    BY <2>2 DEF PoolInv, HeldOnce
  <2>4. accepted <= Len(started) /\ accepted \in Nat /\ Len(started) \in Nat
    BY <2>1, LenProperties DEF PoolInv, EndInv, PoolTypeOK
  <2> QED
    BY <2>1, <2>3, <2>4
<1> QED
  BY <1>1, PoolInvariant, PTL

-----------------------------------------------------------------------------
(***************************************************************************)
(* No wakeup is lost: NoLostWakeup is inductive next to the invariant.     *)
(***************************************************************************)

\* The sets of threads and callers are finite, and their cardinalities numbers.
LEMMA PoolFinite ==
    ASSUME PoolInv, NEW place
    PROVE  /\ IsFiniteSet(At(place)) /\ Cardinality(At(place)) \in Nat
           /\ IsFiniteSet(notifying) /\ Cardinality(notifying) \in Nat
           /\ Len(m_taskQueue) \in Nat
<1>1. At(place) \in SUBSET Pool /\ notifying \in SUBSET Caller
  BY DEF At, PoolInv, PoolTypeOK
<1>2. IsFiniteSet(At(place)) /\ IsFiniteSet(notifying)
  BY <1>1, PoolAssumption, FS_Subset
<1> QED
  BY <1>2, FS_CardinalityType, LenProperties DEF PoolInv, PoolTypeOK

LEMMA LockFinite == Cardinality(At("lock")') \in Nat
<1>1. At("lock")' \in SUBSET Pool
  BY DEF At
<1> QED
  BY <1>1, PoolAssumption, FS_Subset, FS_CardinalityType

\* A thread that goes to the mutex, or leaves it.
LEMMA LockGains ==
    ASSUME PoolInv, NEW t \in Pool, pc[t] # "lock", pc' = [pc EXCEPT ![t] = "lock"]
    PROVE  Cardinality(At("lock")') = Cardinality(At("lock")) + 1
<1>1. At("lock")' = At("lock") \cup {t} /\ t \notin At("lock")
  BY DEF At, PoolInv, PoolTypeOK
<1> QED
  BY <1>1, PoolFinite, FS_AddElement

LEMMA LockLoses ==
    ASSUME PoolInv, NEW t \in Pool, NEW to \in {"wait", "run", "end"},
           pc[t] = "lock", pc' = [pc EXCEPT ![t] = to]
    PROVE  Cardinality(At("lock")') = Cardinality(At("lock")) - 1
<1>1. At("lock")' = At("lock") \ {t} /\ t \in At("lock")
  BY DEF At, PoolInv, PoolTypeOK
<1> QED
  BY <1>1, PoolFinite, FS_RemoveElement

LEMMA WakeupStep ==
    ASSUME PoolInv, NoLostWakeup, [PoolNext]_poolVars
    PROVE  NoLostWakeup'
<1>0. /\ Cardinality(At("lock")) \in Nat /\ Cardinality(notifying) \in Nat
      /\ IsFiniteSet(notifying) /\ Len(m_taskQueue) \in Nat
      /\ pc \in [Pool -> {"lock", "wait", "run", "end"}]
  BY PoolFinite DEF PoolInv, PoolTypeOK
<1>1. ASSUME NEW c \in Caller, Push(c) PROVE NoLostWakeup'
  <2>1. Cardinality(notifying') = Cardinality(notifying) + 1
    BY <1>0, <1>1, FS_AddElement DEF Push
  <2>2. Len(m_taskQueue') = Len(m_taskQueue) + 1
    BY <1>1, AppendProperties DEF Push, PoolInv, PoolTypeOK
  <2>3. UNCHANGED <<At("wait"), At("lock"), m_stop, dtor>>
    BY <1>1 DEF Push, At, threads
  <2> QED
    BY <1>0, <2>1, <2>2, <2>3 DEF NoLostWakeup
<1>2. ASSUME NEW c \in Caller, NotifyOne(c) PROVE NoLostWakeup'
  <2>1. Cardinality(notifying') = Cardinality(notifying) - 1
    BY <1>0, <1>2, FS_RemoveElement DEF NotifyOne
  <2>2. UNCHANGED <<m_taskQueue, m_stop, dtor>>
    BY <1>2 DEF NotifyOne
  <2>3. CASE At("wait") = {}
    BY <1>2, <2>3 DEF NotifyOne, NoLostWakeup, At
  <2>4. CASE At("wait") # {}
    <3>1. PICK t \in At("wait") : pc' = [pc EXCEPT ![t] = "lock"]
      BY <1>2, <2>4 DEF NotifyOne
    <3>2. t \in Pool /\ pc[t] # "lock"
      BY <3>1 DEF At
    <3>3. Cardinality(At("lock")') = Cardinality(At("lock")) + 1
      BY <3>1, <3>2, LockGains
    <3> QED
      BY <1>0, <2>1, <2>2, <2>4, <3>3 DEF NoLostWakeup
  <2> QED
    BY <2>3, <2>4
<1>3. ASSUME NEW t \in Pool, Wait(t) PROVE NoLostWakeup'
  <2>1. Len(m_taskQueue') = 0 /\ ~m_stop'
    BY <1>3, EmptySeq DEF Wait, Go
  <2>2. notifying' = notifying
    BY <1>3 DEF Wait, Go
  <2> QED
    BY <1>0, <2>1, <2>2, LockFinite DEF NoLostWakeup
<1>4. ASSUME NEW t \in Pool, Wakeup(t) \/ Finish(t) PROVE NoLostWakeup'
  <2>1. /\ pc[t] \in {"wait", "run"} /\ pc' = [pc EXCEPT ![t] = "lock"]
        /\ UNCHANGED <<m_taskQueue, m_stop, notifying, dtor>>
    BY <1>4 DEF Wakeup, Go, Finish
  <2>2. Cardinality(At("lock")') = Cardinality(At("lock")) + 1
    BY <2>1, LockGains
  <2>3. At("wait")' \subseteq At("wait")
    BY <1>0, <2>1 DEF At
  <2> QED
    BY <1>0, <2>1, <2>2, <2>3 DEF NoLostWakeup
<1>5. ASSUME NEW t \in Pool, Take(t) PROVE NoLostWakeup'
  <2>1. /\ pc[t] = "lock" /\ pc' = [pc EXCEPT ![t] = "run"]
        /\ UNCHANGED <<m_stop, notifying, dtor>>
    BY <1>5 DEF Take
  <2>2. Cardinality(At("lock")') = Cardinality(At("lock")) - 1
    BY <2>1, LockLoses
  <2>3. Len(m_taskQueue') = Len(m_taskQueue) - 1
    BY <1>5, EmptySeq, LenProperties DEF Take, PoolInv, PoolTypeOK
  <2>4. At("wait")' = At("wait")
    BY <1>0, <2>1 DEF At
  <2> QED
    BY <1>0, <2>1, <2>2, <2>3, <2>4 DEF NoLostWakeup
<1>6. ASSUME NEW t \in Pool, Exit(t) PROVE NoLostWakeup'
  <2>1. /\ pc[t] = "lock" /\ pc' = [pc EXCEPT ![t] = "end"]
        /\ m_taskQueue' = <<>> /\ UNCHANGED <<m_stop, notifying, dtor>>
    BY <1>6 DEF Exit, Go
  <2>2. At("wait")' = At("wait")
    BY <1>0, <2>1 DEF At
  <2> QED
    BY <1>0, <2>1, <2>2, LockFinite, EmptySeq DEF NoLostWakeup
<1>7. CASE Stop
  <2>1. /\ UNCHANGED <<At("wait"), At("lock"), notifying, m_taskQueue>>
        /\ dtor' = "notify"
    BY <1>7 DEF Stop, At, threads
  <2> QED
    BY <2>1 DEF NoLostWakeup
<1>8. CASE NotifyAll \/ Join
  <2>1. At("wait")' = {}
    BY <1>0, <1>8 DEF NotifyAll, Join, At, threads
  <2> QED
    BY <2>1 DEF NoLostWakeup
<1>9. CASE UNCHANGED poolVars
  BY <1>9 DEF NoLostWakeup, At, poolVars, threads, history
<1> QED
  BY <1>1, <1>2, <1>3, <1>4, <1>5, <1>6, <1>7, <1>8, <1>9
  DEF PoolNext, Enqueue, Loop, Destructor

\* No thread sleeps while a task waits for it, whatever the order in which pushes,
\* notifications, spurious wakeups and the stop come.
THEOREM NoWakeupLost == PoolSpec => []NoLostWakeup
<1>1. PoolInit => NoLostWakeup
  BY DEF PoolInit, NoLostWakeup, At
<1> QED
  BY <1>1, PoolInvariant, WakeupStep, PTL DEF PoolSpec

-----------------------------------------------------------------------------
\* The tasks before a running one that have not returned are held by other threads,
\* each by another one; so there are fewer of them than threads.
LEMMA HeldByOthers == PoolInv => OldestFirst
<1> SUFFICES ASSUME PoolInv, NEW t \in At("run")
             PROVE  Cardinality((1 .. task[t] - 1) \ finished) < Cardinality(Pool)
  BY DEF OldestFirst
<1> DEFINE S == (1 .. task[t] - 1) \ finished
           Holder(i) == CHOOSE u \in At("run") : task[u] = i
           f == [i \in S |-> Holder(i)]
<1>1. Len(started) \in Nat /\ task[t] \in 1 .. Len(started) /\ t \in Pool
  BY LenProperties DEF PoolInv, PoolTypeOK, HeldOnce, At
<1>2. \A i \in S : Holder(i) \in At("run") /\ task[Holder(i)] = i
  <2> TAKE i \in S
  <2>1. i \in 1 .. Len(started) /\ i \notin finished
    BY <1>1
  <2>2. \E u \in At("run") : task[u] = i
    BY <2>1 DEF PoolInv, HeldOnce
  <2> QED
    BY <2>2
<1>3. \A i \in S : Holder(i) \in Pool \ {t}
  <2> TAKE i \in S
  <2>1. i # task[t]
    BY <1>1
  <2> QED
    BY <1>2, <2>1 DEF At
<1>4. f \in Injection(S, Pool \ {t})
  <2> HIDE DEF Holder, S
  <2>1. f \in [S -> Pool \ {t}]
    BY <1>3
  <2>2. \A i, j \in S : f[i] = f[j] => i = j
    BY <1>2
  <2> QED
    BY <2>1, <2>2 DEF Injection, IsInjective
<1>5. /\ IsFiniteSet(Pool) /\ Cardinality(Pool) \in Nat
      /\ IsFiniteSet(Pool \ {t}) /\ Cardinality(Pool \ {t}) = Cardinality(Pool) - 1
  BY <1>1, PoolAssumption, FS_CardinalityType, FS_RemoveElement
<1>6. IsFiniteSet(S) /\ Cardinality(S) <= Cardinality(Pool \ {t})
  <2> HIDE DEF f, S
  <2> QED
    BY <1>4, <1>5, FS_Injection
<1>7. Cardinality(S) \in Nat
  <2> HIDE DEF S
  <2> QED
    BY <1>6, FS_CardinalityType
<1> QED
  BY <1>5, <1>6, <1>7

\* The threads of a pool run its oldest tasks: MasterServer may assume that a
\* Worker with n threads answers one of its n oldest unanswered tasks next.
THEOREM OldestTasksFirst == PoolSpec => []OldestFirst
  BY PoolInvariant, HeldByOthers, PTL

-----------------------------------------------------------------------------
(***************************************************************************)
(* The Worker.                                                             *)
(***************************************************************************)
LEMMA MainUsesPool == Main => [PoolNext]_poolVars
  BY DEF Main, Connect, ResolveFails, Poll, LeaveLoop, PostClose, StopContext,
         JoinContext, DestroyPool, PoolNext

LEMMA AsioUsesPool == AsioHandlers \/ Master => [PoolNext]_poolVars
<1>1. Asio \in Caller
  BY WorkerAssumption
<1> QED
  BY <1>1 DEF AsioHandlers, Master, Connected, ConnectFails, ReadFails, RunPosted,
              OnMessage, Arrive, PoolNext, Enqueue

LEMMA ThreadsUsePool ==
    ASSUME NEW t \in Pool, PoolThread(t) \/ (Wakeup(t) /\ UNCHANGED clientVars)
    PROVE  [PoolNext]_poolVars
  BY DEF PoolThread, CheckConnected, DropAnswer, Send, PoolNext

LEMMA WorkerStepUsesPool == [WorkerNext]_vars => [PoolNext]_poolVars
<1>1. UNCHANGED vars => [PoolNext]_poolVars
  BY DEF vars
<1> QED
  BY <1>1, MainUsesPool, AsioUsesPool, ThreadsUsePool DEF WorkerNext

\* The Worker implements the thread pool's specification: main, thrContext and the
\* tasks call Enqueue and ~ThreadPool only as ThreadPool describes it.
THEOREM WorkerUsesPool == Spec => PoolSpec
<1>1. WorkerInit => PoolInit
  BY DEF WorkerInit
<1> QED
  BY <1>1, WorkerStepUsesPool, PTL DEF Spec, PoolSpec

LEMMA PoolInWorker == PoolInv /\ [WorkerNext]_vars => PoolInv'
  BY WorkerStepUsesPool, PoolStep

-----------------------------------------------------------------------------
(***************************************************************************)
(* The inductive invariant.                                                *)
(***************************************************************************)

\* Only tasks that have returned are answered, or about to be.
MessagesInv ==
    /\ \A k \in DOMAIN answered : answered[k] \in {Hello} \cup finished
    /\ \A k \in DOMAIN posted : posted[k] \in {Close, Hello} \cup finished

\* Server_JobFinished comes when all tasks have returned, and is the last message.
JobInv ==
    /\ m_shouldDisconnect => arrived = "nothing"
    /\ arrived = "JobFinished" \/ m_shouldDisconnect => 1 .. pushed \subseteq finished

\* main disconnects before the pool is gone only when the job is finished.
CloseInv ==
    main \in {"close", "stop", "join"} /\ dtor # "gone" => m_shouldDisconnect

WorkerInv ==
    PoolInv /\ WorkerTypeOK /\ MessagesInv /\ JobInv /\ CloseInv /\ NoNullConnection

LEMMA WorkerInitInv == WorkerInit => WorkerInv
<1> SUFFICES ASSUME WorkerInit PROVE WorkerInv
  OBVIOUS
<1>1. PoolInv
  BY PoolInitInv DEF WorkerInit
<1>2. WorkerTypeOK
  <2>1. /\ main = "connect" /\ polls = 0 /\ m_connection = FALSE /\ socket = "none"
        /\ context = "idle" /\ posted = <<>> /\ arrived = "nothing" /\ sending = {}
        /\ m_shouldDisconnect = FALSE /\ answered = <<>> /\ failedWrite = "none"
    BY DEF WorkerInit
  <2>2. m_connection \in BOOLEAN /\ m_shouldDisconnect \in BOOLEAN
        /\ failedWrite \in {"none", "header", "body"}
    BY <2>1
  <2>3. <<>> \in Seq({Close} \cup Nat) /\ <<>> \in Seq(Nat)
    BY EmptySeq
  <2> QED
    BY <1>1, <2>1, <2>2, <2>3, WorkerAssumption DEF WorkerTypeOK, PoolInv
<1>3. MessagesInv
  BY EmptySeq DEF WorkerInit, MessagesInv
<1>4. JobInv /\ CloseInv /\ NoNullConnection
  BY DEF WorkerInit, JobInv, CloseInv, NoNullConnection
<1> QED
  BY <1>1, <1>2, <1>3, <1>4 DEF WorkerInv

\* A step of a pool thread, or of Enqueue and ~ThreadPool, that no task returns by:
\* running threads go on and what has returned stays.
LEMMA PoolGoesOn ==
    ASSUME PoolInv,
           \/ \E c \in Caller : NotifyOne(c) \/ Push(c)
           \/ \E t \in Pool : Loop(t) \/ Wakeup(t)
           \/ Destructor
    PROVE  At("run") \subseteq At("run")' /\ finished' = finished
<1>1. pc \in [Pool -> {"lock", "wait", "run", "end"}]
  BY DEF PoolInv, PoolTypeOK
<1>2. CASE \E c \in Caller : NotifyOne(c) \/ Push(c)
  BY <1>1, <1>2 DEF NotifyOne, Push, threads, history, At
<1>3. ASSUME NEW t \in Pool, Loop(t) \/ Wakeup(t)
      PROVE  At("run") \subseteq At("run")' /\ finished' = finished
  BY <1>1, <1>3 DEF Loop, Wait, Take, Exit, Wakeup, Go, history, At
<1>4. CASE Destructor
  BY <1>1, <1>4 DEF Destructor, Stop, NotifyAll, Join, threads, history, At
<1> QED
  BY <1>2, <1>3, <1>4

-----------------------------------------------------------------------------
\* main.
LEMMA MainPreserves ==
    ASSUME WorkerInv, PoolInv', Main
    PROVE  WorkerInv'
<1> USE DEF WorkerInv
<1>1. /\ posted' = posted \/ posted' = Append(posted, Close)
      /\ UNCHANGED <<arrived, m_shouldDisconnect, sending, answered, failedWrite>>
  BY DEF Main, Connect, ResolveFails, Poll, LeaveLoop, PostClose, StopContext,
         JoinContext, DestroyPool
<1>2. /\ Destructor \/ UNCHANGED poolVars
      /\ UNCHANGED <<pushed, finished>>
  BY DEF Main, Connect, ResolveFails, Poll, LeaveLoop, PostClose, StopContext,
         JoinContext, DestroyPool, Destructor, Stop, NotifyAll, Join, poolVars, history
<1>3. At("run") \subseteq At("run")'
  BY <1>2, PoolGoesOn DEF poolVars, threads, At
<1>4. WorkerTypeOK'
  <2>1. posted' \in Seq({Close} \cup Nat)
    <3>1. posted \in Seq({Close} \cup Nat) /\ Close \in {Close} \cup Nat
      BY DEF WorkerTypeOK
    <3> QED
      BY <1>1, <3>1, AppendProperties
  <2>2. polls' \in 0 .. MaxPolls
    BY WorkerAssumption
    DEF Main, Connect, ResolveFails, Poll, LeaveLoop, PostClose, StopContext,
        JoinContext, DestroyPool, WorkerTypeOK
  <2>3. m_connection' \in BOOLEAN
    BY DEF Main, Connect, ResolveFails, Poll, LeaveLoop, PostClose, StopContext,
           JoinContext, DestroyPool, WorkerTypeOK
  <2>4. /\ main' \in {"connect", "poll", "loop", "close", "stop", "join", "destroy",
                      "end"}
        /\ socket' \in {"none", "opening", "open", "closed"}
        /\ context' \in {"idle", "running", "stopped", "joined"}
    BY DEF Main, Connect, ResolveFails, Poll, LeaveLoop, PostClose, StopContext,
           JoinContext, DestroyPool, WorkerTypeOK
  <2>5. sending' \subseteq At("run")'
    BY <1>1, <1>3 DEF WorkerTypeOK
  <2> QED
    BY <1>1, <2>1, <2>2, <2>3, <2>4, <2>5 DEF WorkerTypeOK, PoolInv
<1>5. MessagesInv'
  <2>1. \A k \in DOMAIN posted' : posted'[k] \in {Close, Hello} \cup finished
    BY <1>1, AppendProperties DEF MessagesInv, WorkerTypeOK
  <2> QED
    BY <1>1, <1>2, <2>1 DEF MessagesInv
<1>6. JobInv'
  BY <1>1, <1>2 DEF JobInv
<1>7. CloseInv'
  <2>1. CASE LeaveLoop
    BY <2>1 DEF LeaveLoop, CloseInv
  <2>2. CASE PostClose \/ StopContext \/ JoinContext
    BY <2>2 DEF PostClose, StopContext, JoinContext, CloseInv, poolVars
  <2>3. CASE Connect \/ ResolveFails \/ Poll
    BY <2>3 DEF Connect, ResolveFails, Poll, CloseInv
  <2>4. CASE DestroyPool
    BY <2>4 DEF DestroyPool, CloseInv, poolVars
  <2> QED
    BY <2>1, <2>2, <2>3, <2>4 DEF Main
<1>8. NoNullConnection'
  <2>1. CASE JoinContext
    <3>1. main = "join"
      BY <2>1 DEF JoinContext
    <3>2. At("run") = {}
      <4>1. CASE dtor = "gone"
        BY <4>1 DEF PoolInv, EndInv, At
      <4>2. CASE dtor # "gone"
        <5>1. 1 .. pushed \subseteq finished
          BY <3>1, <4>2 DEF CloseInv, JobInv
        <5>2. \A t \in At("run") : task[t] \in 1 .. pushed /\ task[t] \notin finished
          BY LenProperties DEF PoolInv, HeldOnce, InOrder, PoolTypeOK
        <5> QED
          BY <5>1, <5>2
      <4> QED
        BY <4>1, <4>2
    <3> QED
      BY <1>1, <3>2 DEF NoNullConnection, WorkerTypeOK
  <2>2. CASE ~JoinContext
    <3>1. m_connection => m_connection'
      BY <2>2 DEF Main, Connect, ResolveFails, Poll, LeaveLoop, PostClose, StopContext,
                  DestroyPool
    <3> QED
      BY <1>1, <3>1 DEF NoNullConnection
  <2> QED
    BY <2>1, <2>2
<1> QED
  BY <1>4, <1>5, <1>6, <1>7, <1>8

\* thrContext, and the Master behind it.
LEMMA AsioPreserves ==
    ASSUME WorkerInv, PoolInv', AsioHandlers \/ Master
    PROVE  WorkerInv'
<1> USE DEF WorkerInv
<1> DEFINE Msg == {Close} \cup Nat
<1>0. /\ posted \in Seq(Msg) /\ answered \in Seq(Nat)
      /\ sending \subseteq At("run") /\ Hello \in Msg /\ Close \in Msg
      /\ Hello \in Nat /\ Close \notin Nat
  BY DEF WorkerTypeOK, Hello, Close
<1>1. CASE Connected \/ ConnectFails \/ ReadFails
  <2>1. /\ posted' = posted \/ posted' = Append(posted, Hello)
        /\ socket' \in {"none", "opening", "open", "closed"}
        /\ UNCHANGED <<poolVars, main, polls, m_connection, context, arrived,
                       m_shouldDisconnect, sending, answered, failedWrite>>
    BY <1>1 DEF Connected, ConnectFails, ReadFails
  <2>2. UNCHANGED <<pushed, finished, dtor, At("run")>>
    BY <2>1 DEF poolVars, history, threads, At
  <2>3. posted' \in Seq(Msg)
    <3> HIDE DEF Msg
    <3> QED
      BY <1>0, <2>1, AppendProperties
  <2>4. WorkerTypeOK'
    BY <2>1, <2>2, <2>3 DEF WorkerTypeOK, PoolInv
  <2>5. \A k \in DOMAIN posted' : posted'[k] \in {Close, Hello} \cup finished
    <3> HIDE DEF Msg
    <3>1. CASE posted' = posted
      BY <3>1 DEF MessagesInv
    <3>2. CASE posted' = Append(posted, Hello)
      BY <1>0, <3>2, AppendProperties DEF MessagesInv
    <3> QED
      BY <2>1, <3>1, <3>2
  <2>6. MessagesInv' /\ JobInv' /\ CloseInv' /\ NoNullConnection'
    BY <2>1, <2>2, <2>5 DEF MessagesInv, JobInv, CloseInv, NoNullConnection
  <2> QED
    BY <2>4, <2>6
<1>2. CASE RunPosted
  <2>1. /\ posted # <<>> /\ posted' = Tail(posted)
        /\ \/ answered' = answered
           \/ answered' = Append(answered, Head(posted)) /\ Head(posted) # Close
        /\ UNCHANGED <<poolVars, main, polls, m_connection, context, arrived,
                       m_shouldDisconnect, sending>>
    BY <1>2 DEF RunPosted
  <2>2. UNCHANGED <<pushed, finished, dtor, At("run")>>
    BY <2>1 DEF poolVars, history, threads, At
  <2>3. /\ posted' \in Seq(Msg) /\ Head(posted) = posted[1] /\ 1 \in DOMAIN posted
        /\ \A k \in DOMAIN posted' : k + 1 \in DOMAIN posted /\ posted'[k] = posted[k + 1]
    BY <1>0, <2>1
  <2>4. Head(posted) \in Msg /\ Head(posted) \in {Close, Hello} \cup finished
    BY <1>0, <2>3, ElementOfSeq DEF MessagesInv
  <2>5. answered' \in Seq(Nat)
    <3>1. Head(posted) # Close => Head(posted) \in Nat
      BY <2>4
    <3>2. ASSUME NEW m \in Nat PROVE Append(answered, m) \in Seq(Nat)
      BY <1>0, AppendProperties
    <3> HIDE DEF Msg
    <3> QED
      BY <1>0, <2>1, <3>1, <3>2
  <2>6. failedWrite' \in {"none", "header", "body"}
    BY <1>2 DEF RunPosted, WorkerTypeOK
  <2>7. socket' \in {"none", "opening", "open", "closed"}
    BY <1>2 DEF RunPosted, WorkerTypeOK
  <2>8. WorkerTypeOK'
    BY <2>1, <2>2, <2>3, <2>5, <2>6, <2>7 DEF WorkerTypeOK, PoolInv
  <2>9. \A k \in DOMAIN answered' : answered'[k] \in {Hello} \cup finished
    <3>1. CASE answered' = answered
      BY <3>1 DEF MessagesInv
    <3>2. CASE answered' = Append(answered, Head(posted)) /\ Head(posted) # Close
      <4>1. /\ DOMAIN answered' = 1 .. Len(answered) + 1
            /\ DOMAIN answered = 1 .. Len(answered) /\ Len(answered) \in Nat
            /\ \A k \in 1 .. Len(answered) : answered'[k] = answered[k]
            /\ answered'[Len(answered) + 1] = Head(posted)
        BY <1>0, <2>4, <3>2, AppendProperties
      <4>2. Head(posted) \in {Hello} \cup finished
        BY <2>3, <3>2 DEF MessagesInv
      <4> QED
        BY <4>1, <4>2 DEF MessagesInv
    <3> QED
      BY <2>1, <3>1, <3>2
  <2>10. \A k \in DOMAIN posted' : posted'[k] \in {Close, Hello} \cup finished
    BY <2>3 DEF MessagesInv
  <2>11. MessagesInv' /\ JobInv' /\ CloseInv' /\ NoNullConnection'
    BY <2>1, <2>2, <2>9, <2>10 DEF MessagesInv, JobInv, CloseInv, NoNullConnection
  <2> QED
    BY <2>8, <2>11
<1>3. CASE OnMessage
  <2>1. /\ UNCHANGED <<main, polls, m_connection, socket, context, posted, sending,
                       answered, failedWrite>>
        /\ arrived # "nothing" /\ arrived' = "nothing"
        /\ \/ arrived = "SearchTask" /\ Push(Asio) /\ UNCHANGED m_shouldDisconnect
           \/ arrived = "JobFinished" /\ m_shouldDisconnect' = TRUE
              /\ UNCHANGED poolVars
    BY <1>3 DEF OnMessage
  <2>2. UNCHANGED <<finished, dtor>> /\ At("run")' = At("run")
    BY <2>1 DEF Push, poolVars, history, threads, At
  <2>3. m_shouldDisconnect' \in BOOLEAN
    BY <2>1 DEF WorkerTypeOK
  <2>4. WorkerTypeOK'
    BY <1>0, <2>1, <2>2, <2>3 DEF WorkerTypeOK, PoolInv
  <2>5. MessagesInv' /\ NoNullConnection'
    BY <2>1, <2>2 DEF MessagesInv, NoNullConnection
  <2>6. JobInv'
    <3>1. CASE arrived = "SearchTask"
      BY <2>1, <3>1 DEF JobInv
    <3>2. CASE arrived = "JobFinished"
      BY <2>1, <2>2, <3>2 DEF JobInv, poolVars, history
    <3> QED
      BY <2>1, <3>1, <3>2
  <2>7. CloseInv'
    BY <2>1, <2>2 DEF CloseInv
  <2> QED
    BY <2>4, <2>5, <2>6, <2>7
<1>4. CASE NotifyOne(Asio) /\ UNCHANGED clientVars
  <2>1. At("run") \subseteq At("run")' /\ UNCHANGED <<pushed, finished, dtor>>
    BY <1>4, PoolGoesOn, WorkerAssumption DEF NotifyOne, history
  <2> QED
    BY <1>4, <2>1 DEF clientVars, WorkerTypeOK, PoolInv, MessagesInv, JobInv, CloseInv,
                      NoNullConnection
<1>5. ASSUME NEW msg \in {"SearchTask", "JobFinished"}, Arrive(msg) PROVE WorkerInv'
  <2>1. /\ arrived' = msg /\ ~m_shouldDisconnect
        /\ msg = "JobFinished" => AllAnswered
        /\ UNCHANGED <<poolVars, main, polls, m_connection, socket, context, posted,
                       m_shouldDisconnect, sending, answered, failedWrite>>
    BY <1>5 DEF Arrive
  <2>2. UNCHANGED <<pushed, finished, dtor, At("run")>>
    BY <2>1 DEF poolVars, history, threads, At
  <2>3. AllAnswered => 1 .. pushed \subseteq finished
    BY DEF AllAnswered, MessagesInv, Hello, PoolInv, PoolTypeOK
  <2>4. WorkerTypeOK'
    BY <2>1, <2>2 DEF WorkerTypeOK, PoolInv
  <2>5. MessagesInv' /\ JobInv' /\ CloseInv' /\ NoNullConnection'
    BY <2>1, <2>2, <2>3 DEF MessagesInv, JobInv, CloseInv, NoNullConnection
  <2> QED
    BY <2>4, <2>5
<1> QED
  BY <1>1, <1>2, <1>3, <1>4, <1>5 DEF AsioHandlers, Master

\* The pool threads.
LEMMA ThreadPreserves ==
    ASSUME WorkerInv, PoolInv', NEW t \in Pool,
           PoolThread(t) \/ (Wakeup(t) /\ UNCHANGED clientVars)
    PROVE  WorkerInv'
<1> USE DEF WorkerInv
<1>0. /\ pc \in [Pool -> {"lock", "wait", "run", "end"}]
      /\ sending \subseteq At("run")
  BY DEF WorkerTypeOK, PoolInv, PoolTypeOK
<1>1. CASE (Loop(t) \/ Wakeup(t)) /\ UNCHANGED clientVars
  <2>1. At("run") \subseteq At("run")' /\ UNCHANGED finished
    BY <1>1, PoolGoesOn
  <2>2. UNCHANGED <<pushed, dtor>>
    BY <1>1 DEF Loop, Wait, Take, Exit, Wakeup, Go, history
  <2> QED
    BY <1>1, <2>1, <2>2 DEF clientVars, WorkerTypeOK, PoolInv, MessagesInv, JobInv,
                            CloseInv, NoNullConnection
<1>2. CASE CheckConnected(t)
  <2>1. /\ sending' = sending \cup {t} /\ pc[t] = "run" /\ m_connection
        /\ UNCHANGED <<poolVars, main, polls, m_connection, socket, context, posted,
                       arrived, m_shouldDisconnect, answered, failedWrite>>
    BY <1>2 DEF CheckConnected, IsConnected
  <2>2. UNCHANGED <<pushed, finished, dtor>> /\ At("run")' = At("run") /\ t \in At("run")
    BY <2>1 DEF poolVars, history, threads, At
  <2>3. WorkerTypeOK'
    BY <1>0, <2>1, <2>2 DEF WorkerTypeOK, PoolInv
  <2>4. MessagesInv' /\ JobInv' /\ CloseInv' /\ NoNullConnection'
    BY <2>1, <2>2 DEF MessagesInv, JobInv, CloseInv, NoNullConnection
  <2> QED
    BY <2>3, <2>4
<1>3. ASSUME Finish(t)
      PROVE  /\ finished \subseteq finished' /\ task[t] \in finished' \cap Nat
             /\ At("run")' = At("run") \ {t} /\ UNCHANGED <<pushed, dtor>>
  <2>1. task[t] \in Nat
    BY <1>3 DEF Finish, PoolInv, PoolTypeOK
  <2> QED
    BY <1>0, <1>3, <2>1 DEF Finish, At
<1>4. CASE DropAnswer(t)
  <2>1. UNCHANGED clientVars /\ t \notin sending /\ Finish(t)
    BY <1>4 DEF DropAnswer
  <2>2. WorkerTypeOK'
    BY <1>0, <1>3, <2>1 DEF clientVars, WorkerTypeOK, PoolInv
  <2>3. MessagesInv' /\ JobInv' /\ CloseInv' /\ NoNullConnection'
    BY <1>3, <2>1 DEF clientVars, MessagesInv, JobInv, CloseInv, NoNullConnection
  <2> QED
    BY <2>2, <2>3
<1>5. CASE Send(t)
  <2>1. /\ Finish(t) /\ sending' = sending \ {t} /\ posted' = Append(posted, task[t])
        /\ UNCHANGED <<main, polls, m_connection, socket, context, arrived,
                       m_shouldDisconnect, answered, failedWrite>>
    BY <1>5 DEF Send
  <2>2. posted \in Seq({Close} \cup Nat) /\ task[t] \in {Close} \cup Nat
    BY <1>3, <2>1 DEF WorkerTypeOK
  <2>3. posted' \in Seq({Close} \cup Nat)
    BY <2>1, <2>2, AppendProperties
  <2>4. WorkerTypeOK'
    BY <1>0, <1>3, <2>1, <2>3 DEF WorkerTypeOK, PoolInv
  <2>5. \A k \in DOMAIN posted' : posted'[k] \in {Close, Hello} \cup finished'
    BY <1>3, <2>1, <2>2, AppendProperties DEF MessagesInv
  <2>6. MessagesInv' /\ JobInv' /\ CloseInv' /\ NoNullConnection'
    BY <1>3, <2>1, <2>5 DEF MessagesInv, JobInv, CloseInv, NoNullConnection
  <2> QED
    BY <2>4, <2>6
<1> QED
  BY <1>1, <1>2, <1>4, <1>5 DEF PoolThread

LEMMA WorkerStep == WorkerInv /\ [WorkerNext]_vars => WorkerInv'
<1> SUFFICES ASSUME WorkerInv, [WorkerNext]_vars PROVE WorkerInv'
  OBVIOUS
<1>1. PoolInv'
  BY PoolInWorker DEF WorkerInv
<1>2. CASE UNCHANGED vars
  <2>1. UNCHANGED poolVars /\ UNCHANGED clientVars
    BY <1>2 DEF vars
  <2>2. UNCHANGED <<pushed, finished, dtor, At("run")>>
    BY <2>1 DEF poolVars, history, threads, At
  <2>3. WorkerTypeOK'
    BY <1>1, <2>1, <2>2 DEF WorkerInv, clientVars, WorkerTypeOK, PoolInv
  <2> QED
    BY <1>1, <2>1, <2>2, <2>3 DEF WorkerInv, clientVars, MessagesInv, JobInv, CloseInv,
                                  NoNullConnection
<1> QED
  BY <1>1, <1>2, MainPreserves, AsioPreserves, ThreadPreserves DEF WorkerNext

LEMMA WorkerInvariant == Spec => []WorkerInv
  BY WorkerInitInv, WorkerStep, PTL DEF Spec

-----------------------------------------------------------------------------
\* The members of the Worker keep their types; only a running task is sending.
THEOREM WorkerTypeCorrect == Spec => []WorkerTypeOK
  BY WorkerInvariant, PTL DEF WorkerInv

\* m_connection->Send() is never called through a null m_connection, although
\* nothing is locked between IsConnected() and the call.
THEOREM ConnectionNotNull == Spec => []NoNullConnection
  BY WorkerInvariant, PTL DEF WorkerInv

\* When the Worker's pool is gone, every task it was given before the stop has
\* returned and no thread is left to use the members destroyed after it.
THEOREM WorkerStopsGracefully == Spec => []GracefulStop
  BY WorkerUsesPool, StopIsGraceful, PTL

-----------------------------------------------------------------------------
(***************************************************************************)
(* Messages and answers at the end of a Worker.  A Worker is on its way    *)
(* out once main has left its loop: the job was finished, or the socket    *)
(* was never opened or is closed.  In each case nothing of the Master is   *)
(* left to handle, unless a failing WriteHeader closed the socket behind   *)
(* the back of a message that had been read.                               *)
(***************************************************************************)
Early == {"connect", "poll", "loop"}

Has(s, x) == \E k \in DOMAIN s : s[k] = x
Once(s) == \A k, l \in DOMAIN s : s[k] = s[l] => k = l

\* No message is being handled or waits for it.
QuietInv ==
    \/ m_shouldDisconnect
    \/ socket \in {"none", "opening"}
    \/ socket = "closed" /\ failedWrite # "header"
    => arrived = "nothing" /\ notifying = {}

\* main destroys the pool and disconnects only after it has left its loop.
EarlyInv ==
    main \in Early =>
        /\ dtor = "alive" /\ ~Has(posted, Close)
        /\ ~m_connection => socket \in {"none", "closed"}
        /\ main = "connect" => ~m_connection /\ socket = "none" /\ context = "idle"

LateInv ==
    main \notin Early => m_shouldDisconnect \/ socket \in {"none", "closed"}

\* m_connection is released on a socket that is open only when no task runs.
ReleasedInv ==
    /\ ~m_connection /\ socket \in {"opening", "open"} =>
          m_shouldDisconnect \/ dtor = "gone"
    /\ socket \in {"none", "opening"} => pushed = 0

LifeInv == QuietInv /\ EarlyInv /\ LateInv /\ ReleasedInv

\* Worker_Hello is posted by the connect, the close by the first Disconnect.
OnceInv ==
    /\ Once(answered) /\ Once(posted)
    /\ \A x : ~(Has(answered, x) /\ Has(posted, x))
    /\ socket \in {"none", "opening"} => ~Has(answered, Hello) /\ ~Has(posted, Hello)
    /\ m_connection /\ main \notin {"stop", "join"} => ~Has(posted, Close)

\* As long as the socket has not been closed and no write has failed, every task
\* that returned is answered.
AllInv ==
    socket # "closed" /\ failedWrite = "none" =>
        \A i \in finished : Has(answered, i) \/ Has(posted, i)

-----------------------------------------------------------------------------
LEMMA AppendHas ==
    ASSUME NEW S, NEW s \in Seq(S), NEW x \in S
    PROVE  /\ Has(Append(s, x), x)
           /\ \A y : Has(s, y) => Has(Append(s, x), y)
           /\ \A y : Has(Append(s, x), y) => Has(s, y) \/ y = x
           /\ Once(s) /\ ~Has(s, x) => Once(Append(s, x))
<1>1. /\ DOMAIN s = 1 .. Len(s) /\ Len(s) \in Nat
      /\ DOMAIN Append(s, x) = 1 .. Len(s) + 1
      /\ \A i \in 1 .. Len(s) : Append(s, x)[i] = s[i]
      /\ Append(s, x)[Len(s) + 1] = x
  BY AppendProperties
<1>2. PICK n \in Nat, a \in Seq(S) : n = Len(s) /\ a = Append(s, x)
  BY <1>1, AppendProperties
<1>3. /\ DOMAIN s = 1 .. n /\ DOMAIN a = 1 .. n + 1 /\ a[n + 1] = x
      /\ \A i \in 1 .. n : a[i] = s[i]
  BY <1>1, <1>2
<1>4. /\ n + 1 \in DOMAIN a /\ \A i \in DOMAIN s : i \in DOMAIN a
      /\ \A i \in DOMAIN a : i \in DOMAIN s \/ i = n + 1
  BY <1>3
<1>5. Has(a, x) /\ \A y : (Has(s, y) => Has(a, y)) /\ (Has(a, y) => Has(s, y) \/ y = x)
  BY <1>3, <1>4 DEF Has
<1>6. Once(s) /\ ~Has(s, x) => Once(a)
  BY <1>3, <1>4 DEF Has, Once
<1> QED
  BY <1>2, <1>5, <1>6

LEMMA TailHas ==
    ASSUME NEW S, NEW s \in Seq(S), s # <<>>
    PROVE  /\ Has(s, Head(s)) /\ Tail(s) \in Seq(S) /\ Head(s) \in S
           /\ \A y : Has(Tail(s), y) => Has(s, y)
           /\ \A y : Has(s, y) => y = Head(s) \/ Has(Tail(s), y)
           /\ Once(s) => Once(Tail(s)) /\ ~Has(Tail(s), Head(s))
<1>1. /\ Len(s) \in Nat /\ Len(s) >= 1 /\ DOMAIN s = 1 .. Len(s) /\ Head(s) = s[1]
      /\ Tail(s) \in Seq(S) /\ Len(Tail(s)) = Len(s) - 1 /\ Head(s) \in S
  BY HeadTailProperties, EmptySeq
<1>2. PICK n \in Nat, a \in Seq(S) : n = Len(s) /\ a = Tail(s)
  BY <1>1
<1>3. /\ n >= 1 /\ DOMAIN s = 1 .. n /\ DOMAIN a = 1 .. n - 1
      /\ \A i \in 1 .. n - 1 : a[i] = s[i + 1]
  BY <1>1, <1>2
<1>4. /\ 1 \in DOMAIN s
      /\ \A i \in DOMAIN a : i + 1 \in DOMAIN s /\ i + 1 # 1 /\ a[i] = s[i + 1]
      /\ \A i \in DOMAIN s : i # 1 => i - 1 \in DOMAIN a /\ a[i - 1] = s[i]
      /\ \A i, j \in DOMAIN a : i + 1 = j + 1 => i = j
  BY <1>3
<1>5. Has(s, s[1])
  BY <1>4 DEF Has
<1>6. ASSUME NEW y, Has(a, y)
      PROVE  Has(s, y)
  <2>1. PICK k \in DOMAIN a : a[k] = y
    BY <1>6 DEF Has
  <2> QED
    BY <1>4, <2>1 DEF Has
<1>7. ASSUME NEW y, Has(s, y), y # s[1]
      PROVE  Has(a, y)
  <2>1. PICK k \in DOMAIN s : s[k] = y
    BY <1>7 DEF Has
  <2> QED
    BY <1>4, <1>7, <2>1 DEF Has
<1>8. Once(s) => Once(a) /\ ~Has(a, s[1])
  BY <1>4 DEF Has, Once
<1> QED
  BY <1>1, <1>2, <1>5, <1>6, <1>7, <1>8

\* What goes out, in terms of Has.
LEMMA Messages ==
    ASSUME WorkerInv
    PROVE  /\ posted \in Seq({Close} \cup Nat) /\ answered \in Seq(Nat)
           /\ Close \notin Nat /\ Hello \in Nat
           /\ \A x : Has(posted, x) => x \in {Close, Hello} \cup finished
           /\ \A x : Has(answered, x) => x \in {Hello} \cup finished
           /\ Close \notin finished /\ Hello \notin finished
<1>1. finished \subseteq 1 .. pushed /\ pushed \in Nat
  BY DEF WorkerInv, PoolInv, PoolTypeOK
<1>2. Close \notin finished /\ Hello \notin finished
  BY <1>1 DEF Close, Hello
<1>3. Close \notin Nat /\ Hello \in Nat
  BY DEF Close, Hello
<1> QED
  BY <1>2, <1>3 DEF WorkerInv, WorkerTypeOK, MessagesInv, Has

-----------------------------------------------------------------------------
LEMMA EndInit == WorkerInit => LifeInv /\ OnceInv /\ AllInv
<1> SUFFICES ASSUME WorkerInit PROVE LifeInv /\ OnceInv /\ AllInv
  OBVIOUS
<1>1. DOMAIN posted = {} /\ DOMAIN answered = {}
  BY EmptySeq DEF WorkerInit
<1> QED
  BY <1>1 DEF WorkerInit, PoolInit, LifeInv, QuietInv, EarlyInv, LateInv, ReleasedInv,
              OnceInv, AllInv, Has, Once, Early

LEMMA MainEnds ==
    ASSUME WorkerInv, LifeInv, OnceInv, AllInv, Main
    PROVE  LifeInv' /\ OnceInv' /\ AllInv'
<1>1. /\ UNCHANGED <<arrived, m_shouldDisconnect, answered, failedWrite>>
      /\ UNCHANGED <<pushed, finished, notifying>>
      /\ dtor' # dtor => main = "destroy" /\ main' = "destroy" /\ dtor # "gone"
  BY DEF Main, Connect, ResolveFails, Poll, LeaveLoop, PostClose, StopContext,
         JoinContext, DestroyPool, Destructor, Stop, NotifyAll, Join, poolVars, history
<1>2. CASE Connect
  <2>1. /\ main = "connect" /\ main' = "poll" /\ m_connection' = TRUE
        /\ socket' = "opening" /\ UNCHANGED <<posted, dtor>> /\ socket = "none"
    BY <1>2 DEF Connect, poolVars, LifeInv, EarlyInv, Early
  <2> QED
    BY <1>1, <2>1 DEF LifeInv, QuietInv, EarlyInv, LateInv, ReleasedInv, OnceInv, AllInv,
                      Early
<1>3. CASE ResolveFails \/ Poll
  <2>1. /\ main \in Early /\ main' \in Early \ {"connect"}
        /\ UNCHANGED <<posted, dtor, m_connection, socket>>
    BY <1>3 DEF ResolveFails, Poll, poolVars, Early
  <2> QED
    BY <1>1, <2>1 DEF LifeInv, QuietInv, EarlyInv, LateInv, ReleasedInv, OnceInv, AllInv,
                      Early
<1>4. CASE LeaveLoop
  <2>1. /\ main = "loop" /\ main' \in {"close", "destroy"}
        /\ m_shouldDisconnect \/ ~m_connection \/ socket \notin {"opening", "open"}
        /\ UNCHANGED <<posted, dtor, m_connection, socket>>
    BY <1>4 DEF LeaveLoop, IsConnected, poolVars
  <2>2. m_shouldDisconnect \/ socket \in {"none", "closed"}
    BY <2>1 DEF LifeInv, EarlyInv, Early, WorkerInv, WorkerTypeOK
  <2> QED
    BY <1>1, <2>1, <2>2 DEF LifeInv, QuietInv, EarlyInv, LateInv, ReleasedInv, OnceInv,
                            AllInv, Early
<1>5. CASE PostClose
  <2>1. /\ main = "close" /\ main' = "stop"
        /\ UNCHANGED <<dtor, m_connection, socket>>
        /\ \/ posted' = posted
           \/ m_connection /\ posted' = Append(posted, Close)
    BY <1>5 DEF PostClose, IsConnected, poolVars
  <2>2. LifeInv'
    BY <1>1, <2>1 DEF LifeInv, QuietInv, EarlyInv, LateInv, ReleasedInv, Early
  <2>3. CASE posted' = posted
    BY <1>1, <2>1, <2>2, <2>3 DEF OnceInv, AllInv
  <2>4. CASE m_connection /\ posted' = Append(posted, Close)
    <3>1. ~Has(posted, Close) /\ Close # Hello /\ ~Has(answered, Close)
      BY <2>1, <2>4, Messages DEF OnceInv
    <3>2. /\ \A y : Has(posted, y) => Has(posted', y)
          /\ \A y : Has(posted', y) => Has(posted, y) \/ y = Close
          /\ Once(posted')
      <4>1. posted \in Seq({Close} \cup Nat) /\ Close \in {Close} \cup Nat
        BY Messages
      <4> QED
        BY <2>4, <3>1, <4>1, AppendHas DEF OnceInv
    <3>3. OnceInv'
      BY <1>1, <2>1, <3>1, <3>2 DEF OnceInv, Has, Once
    <3>4. AllInv'
      BY <1>1, <2>1, <3>2 DEF AllInv, Has
    <3> QED
      BY <2>2, <3>3, <3>4
  <2> QED
    BY <2>1, <2>3, <2>4
<1>6. CASE StopContext
  <2>1. main = "stop" /\ main' = "join" /\ UNCHANGED <<dtor, m_connection, socket, posted>>
    BY <1>6 DEF StopContext, poolVars
  <2> QED
    BY <1>1, <2>1 DEF LifeInv, QuietInv, EarlyInv, LateInv, ReleasedInv, OnceInv, AllInv,
                      Early
<1>7. CASE JoinContext
  <2>1. /\ main = "join" /\ main' \in {"end", "destroy"} /\ m_connection' = FALSE
        /\ UNCHANGED <<dtor, socket, posted>>
    BY <1>7 DEF JoinContext, poolVars
  <2>2. m_shouldDisconnect \/ dtor = "gone"
    BY <2>1 DEF WorkerInv, CloseInv
  <2> QED
    BY <1>1, <2>1, <2>2 DEF LifeInv, QuietInv, EarlyInv, LateInv, ReleasedInv, OnceInv,
                            AllInv, Early
<1>8. CASE DestroyPool
  <2>1. /\ main = "destroy" /\ main' \in {"destroy", "close"}
        /\ UNCHANGED <<m_connection, socket, posted>>
        /\ dtor = "gone" => dtor' = "gone"
    BY <1>1, <1>8 DEF DestroyPool
  <2> QED
    BY <1>1, <2>1 DEF LifeInv, QuietInv, EarlyInv, LateInv, ReleasedInv, OnceInv, AllInv,
                      Early
<1> QED
  BY <1>2, <1>3, <1>4, <1>5, <1>6, <1>7, <1>8 DEF Main

LEMMA AsioEnds ==
    ASSUME WorkerInv, LifeInv, OnceInv, AllInv, AsioHandlers \/ Master
    PROVE  LifeInv' /\ OnceInv' /\ AllInv'
<1>1. CASE Connected
  <2>1. /\ socket = "opening" /\ socket' = "open" /\ notifying = {}
        /\ UNCHANGED <<main, m_connection, arrived, m_shouldDisconnect, answered,
                       failedWrite, notifying, dtor, pushed, finished>>
        /\ posted' = posted \/ posted' = Append(posted, Hello)
    BY <1>1 DEF Connected, Handling, poolVars, history
  <2>2. ~Has(posted, Hello) /\ ~Has(answered, Hello) /\ Hello # Close
    BY <2>1, Messages DEF OnceInv
  <2>3. /\ \A y : Has(posted, y) => Has(posted', y)
        /\ \A y : Has(posted', y) => Has(posted, y) \/ y = Hello
        /\ Once(posted')
    <3>1. posted \in Seq({Close} \cup Nat) /\ Hello \in {Close} \cup Nat
          /\ Once(posted)
      BY Messages DEF OnceInv
    <3>2. CASE posted' = posted
      BY <3>1, <3>2
    <3>3. CASE posted' = Append(posted, Hello)
      BY <2>2, <3>1, <3>3, AppendHas
    <3> QED
      BY <2>1, <3>2, <3>3
  <2>4. LifeInv'
    BY <2>1, <2>2, <2>3
    DEF LifeInv, QuietInv, EarlyInv, LateInv, ReleasedInv, Early, Has
  <2>5. OnceInv'
    BY <2>1, <2>2, <2>3 DEF OnceInv, Has, Once
  <2>6. AllInv'
    BY <2>1, <2>3 DEF AllInv, Has
  <2> QED
    BY <2>4, <2>5, <2>6
<1>2. CASE ConnectFails \/ ReadFails
  <2>0. socket = "opening" => arrived = "nothing"
    BY DEF LifeInv, QuietInv
  <2>1. /\ socket' = "closed" /\ notifying = {} /\ arrived = "nothing"
        /\ socket \in {"opening", "open"}
        /\ UNCHANGED <<main, m_connection, arrived, m_shouldDisconnect, answered, posted,
                       failedWrite, notifying, dtor, pushed, finished>>
    BY <1>2, <2>0 DEF ConnectFails, ReadFails, Handling, poolVars, history
  <2> QED
    BY <2>1 DEF LifeInv, QuietInv, EarlyInv, LateInv, ReleasedInv, OnceInv, AllInv, Early
<1>3. CASE RunPosted
  <2>1. /\ posted # <<>> /\ posted' = Tail(posted) /\ notifying = {}
        /\ UNCHANGED <<main, m_connection, arrived, m_shouldDisconnect,
                       notifying, dtor, pushed, finished>>
    BY <1>3 DEF RunPosted, Handling, poolVars, history
  <2>2. /\ \A y : Has(posted', y) => Has(posted, y)
        /\ \A y : Has(posted, y) => y = Head(posted) \/ Has(posted', y)
        /\ Has(posted, Head(posted)) /\ ~Has(posted', Head(posted)) /\ Once(posted')
        /\ Head(posted) \in {Close} \cup Nat
    BY <2>1, Messages, TailHas DEF OnceInv
  <2>3. CASE /\ answered' = answered /\ socket' = "closed"
             /\ \/ Head(posted) = Close /\ UNCHANGED failedWrite
                \/ Head(posted) # Close /\ failedWrite' = "header"
    <3>2. Head(posted) = Close =>
             m_shouldDisconnect \/ socket \in {"none", "closed"}
      BY <2>2 DEF LifeInv, EarlyInv, LateInv
    <3>3. QuietInv'
      <4>1. failedWrite' # "header" => Head(posted) = Close /\ UNCHANGED failedWrite
        BY <2>3
      <4>2. m_shouldDisconnect \/ failedWrite' # "header" => arrived = "nothing"
        BY <3>2, <4>1 DEF LifeInv, QuietInv
      <4> QED
        BY <2>1, <2>3, <4>2 DEF QuietInv
    <3>4. EarlyInv' /\ LateInv' /\ ReleasedInv'
      <4>1. main # "connect"
        BY <1>3 DEF RunPosted, Handling, LifeInv, EarlyInv, Early
      <4> QED
        BY <2>1, <2>2, <2>3, <4>1 DEF LifeInv, EarlyInv, LateInv, ReleasedInv, Has
    <3>5. OnceInv'
      BY <2>1, <2>2, <2>3 DEF OnceInv
    <3> QED
      BY <2>3, <3>3, <3>4, <3>5 DEF LifeInv, AllInv
  <2>4. CASE /\ socket = "open" /\ socket' = "open" /\ Head(posted) # Close
             /\ answered' = Append(answered, Head(posted)) /\ UNCHANGED failedWrite
    <3>1. ~Has(answered, Head(posted))
      BY <2>2 DEF OnceInv
    <3>2. /\ \A y : Has(answered, y) => Has(answered', y)
          /\ \A y : Has(answered', y) => Has(answered, y) \/ y = Head(posted)
          /\ Has(answered', Head(posted)) /\ Once(answered')
      <4>1. answered \in Seq(Nat) /\ Head(posted) \in Nat
        BY <2>2, <2>4, Messages
      <4> QED
        BY <2>4, <3>1, <4>1, AppendHas DEF OnceInv
    <3>3. LifeInv'
      BY <2>1, <2>2, <2>4 DEF LifeInv, QuietInv, EarlyInv, LateInv, ReleasedInv, Has
    <3>4. OnceInv'
      <4>1. \A x : ~(Has(answered', x) /\ Has(posted', x))
        BY <2>2, <3>2 DEF OnceInv
      <4>2. m_connection /\ main \notin {"stop", "join"} => ~Has(posted', Close)
        BY <2>2 DEF OnceInv
      <4> QED
        BY <2>1, <2>2, <2>4, <3>2, <4>1, <4>2 DEF OnceInv
    <3>5. AllInv'
      BY <2>1, <2>2, <2>4, <3>2 DEF AllInv, Has
    <3> QED
      BY <3>3, <3>4, <3>5
  <2>5. CASE /\ UNCHANGED <<answered, socket>>
             /\ \/ socket = "open" /\ failedWrite' = "body"
                \/ ~CanWrite /\ UNCHANGED failedWrite
    <3>1. LifeInv'
      <4>1. QuietInv'
        BY <2>1, <2>5 DEF LifeInv, QuietInv
      <4>2. EarlyInv'
        <5>1. main # "connect"
          BY <1>3 DEF RunPosted, Handling, LifeInv, EarlyInv, Early
        <5> QED
          BY <2>1, <2>2, <2>5, <5>1 DEF LifeInv, EarlyInv
      <4>3. LateInv' /\ ReleasedInv'
        BY <2>1, <2>5 DEF LifeInv, LateInv, ReleasedInv
      <4> QED
        BY <4>1, <4>2, <4>3 DEF LifeInv
    <3>2. OnceInv'
      BY <2>1, <2>2, <2>5 DEF OnceInv
    <3>3. AllInv'
      <4> SUFFICES ASSUME socket # "closed", failedWrite' = "none"
                   PROVE  finished = {}
        BY <2>1, <2>5 DEF AllInv
      <4>1. socket \in {"none", "opening"}
        BY <2>5 DEF CanWrite, WorkerInv, WorkerTypeOK
      <4>2. pushed = 0 /\ finished \subseteq 1 .. pushed
        BY <4>1 DEF LifeInv, ReleasedInv, WorkerInv, PoolInv, PoolTypeOK
      <4> QED
        BY <4>2
    <3> QED
      BY <3>1, <3>2, <3>3
  <2> QED
    <3>1. \/ /\ Head(posted) = Close /\ socket' = "closed"
             /\ UNCHANGED <<answered, failedWrite>>
          \/ /\ Head(posted) # Close /\ CanWrite
             /\ answered' = Append(answered, Head(posted))
             /\ UNCHANGED <<socket, failedWrite>>
          \/ /\ Head(posted) # Close /\ CanWrite /\ UNCHANGED answered
             /\ failedWrite' = "header" /\ socket' = "closed"
          \/ /\ Head(posted) # Close /\ CanWrite /\ UNCHANGED <<socket, answered>>
             /\ failedWrite' = "body"
          \/ ~CanWrite /\ UNCHANGED <<socket, answered, failedWrite>>
      BY <1>3 DEF RunPosted
    <3>2. CanWrite => socket = "open"
      BY DEF CanWrite
    <3> QED
      BY <2>3, <2>4, <2>5, <3>1, <3>2
<1>4. CASE OnMessage
  <2>1. /\ notifying = {} /\ arrived # "nothing" /\ arrived' = "nothing"
        /\ UNCHANGED <<main, m_connection, socket, context, posted, answered, failedWrite>>
        /\ \/ Push(Asio) /\ UNCHANGED m_shouldDisconnect
           \/ m_shouldDisconnect' = TRUE /\ UNCHANGED poolVars
    BY <1>4 DEF OnMessage, Handling
  <2>2. UNCHANGED <<dtor, finished>> /\ (m_shouldDisconnect => m_shouldDisconnect')
    BY <2>1 DEF Push, poolVars, history
  <2>3. /\ ~m_shouldDisconnect /\ socket \notin {"none", "opening"}
        /\ socket = "closed" => failedWrite = "header"
    BY <2>1 DEF LifeInv, QuietInv
  <2>4. m_shouldDisconnect' => notifying' = {}
    BY <2>1, <2>3 DEF poolVars
  <2>5. LifeInv'
    BY <2>1, <2>2, <2>3, <2>4 DEF LifeInv, QuietInv, EarlyInv, LateInv, ReleasedInv
  <2>6. OnceInv' /\ AllInv'
    BY <2>1, <2>2 DEF OnceInv, AllInv
  <2> QED
    BY <2>5, <2>6
<1>5. CASE NotifyOne(Asio) /\ UNCHANGED clientVars
  <2>1. UNCHANGED <<pushed, finished, dtor>> /\ notifying' \subseteq notifying
    BY <1>5 DEF NotifyOne, history
  <2> QED
    BY <1>5, <2>1 DEF clientVars, LifeInv, QuietInv, EarlyInv, LateInv, ReleasedInv,
                      OnceInv, AllInv
<1>6. ASSUME NEW msg \in {"SearchTask", "JobFinished"}, Arrive(msg)
      PROVE  LifeInv' /\ OnceInv' /\ AllInv'
  <2>1. /\ socket = "open" /\ ~m_shouldDisconnect
        /\ UNCHANGED <<main, m_connection, socket, context, posted, m_shouldDisconnect,
                       answered, failedWrite, notifying, dtor, pushed, finished>>
    BY <1>6 DEF Arrive, poolVars, history
  <2> QED
    BY <2>1 DEF LifeInv, QuietInv, EarlyInv, LateInv, ReleasedInv, OnceInv, AllInv
<1> QED
  BY <1>1, <1>2, <1>3, <1>4, <1>5, <1>6 DEF AsioHandlers, Master

LEMMA ThreadEnds ==
    ASSUME WorkerInv, LifeInv, OnceInv, AllInv, NEW t \in Pool,
           PoolThread(t) \/ (Wakeup(t) /\ UNCHANGED clientVars)
    PROVE  LifeInv' /\ OnceInv' /\ AllInv'
<1>1. /\ UNCHANGED <<main, m_connection, socket, context, arrived, m_shouldDisconnect,
                     answered, failedWrite, notifying, dtor, pushed>>
  BY DEF PoolThread, Loop, Wait, Take, Exit, Wakeup, Go, CheckConnected, DropAnswer,
         Send, Finish, clientVars, poolVars, history
<1>2. CASE UNCHANGED <<posted, finished>>
  BY <1>1, <1>2 DEF LifeInv, QuietInv, EarlyInv, LateInv, ReleasedInv, OnceInv, AllInv
<1>3. ASSUME Finish(t)
      PROVE  /\ t \in At("run") /\ finished' = finished \cup {task[t]}
             /\ task[t] \in 1 .. pushed /\ task[t] \notin finished /\ task[t] \in Nat
             /\ task[t] # Hello /\ task[t] # Close
  <2>1. t \in At("run") /\ finished' = finished \cup {task[t]}
    BY <1>3 DEF Finish, At
  <2>2. task[t] \in 1 .. Len(started) /\ task[t] \notin finished
    BY <2>1 DEF WorkerInv, PoolInv, HeldOnce
  <2>3. Len(started) \in Nat /\ Len(m_taskQueue) \in Nat /\ pushed \in Nat
        /\ Len(started) + Len(m_taskQueue) = pushed
    BY DEF WorkerInv, PoolInv, PoolTypeOK, InOrder
  <2>4. task[t] \in 1 .. pushed
    BY <2>2, <2>3
  <2> QED
    BY <2>1, <2>2, <2>3, <2>4 DEF Hello, Close
<1>4. CASE DropAnswer(t)
  <2>1. ~IsConnected /\ Finish(t) /\ UNCHANGED posted
    BY <1>4 DEF DropAnswer, clientVars
  <2>2. socket = "closed"
    <3> SUFFICES ASSUME socket # "closed" PROVE FALSE
      OBVIOUS
    <3>1. pushed \in Nat /\ 1 .. pushed # {} /\ ~(1 .. pushed \subseteq finished)
      BY <1>3, <2>1 DEF WorkerInv, PoolInv, PoolTypeOK
    <3>2. socket \in {"opening", "open"} /\ ~m_connection
      BY <2>1, <3>1 DEF LifeInv, ReleasedInv, IsConnected, WorkerInv, WorkerTypeOK
    <3>3. CASE m_shouldDisconnect
      BY <3>1, <3>3 DEF WorkerInv, JobInv
    <3>4. CASE dtor = "gone"
      <4>1. t \in At("end") /\ t \in At("run")
        BY <1>3, <2>1, <3>4 DEF WorkerInv, PoolInv, EndInv
      <4> QED
        BY <4>1 DEF At
    <3> QED
      BY <3>2, <3>3, <3>4 DEF LifeInv, ReleasedInv
  <2> QED
    BY <1>1, <2>1, <2>2
    DEF LifeInv, QuietInv, EarlyInv, LateInv, ReleasedInv, OnceInv, AllInv
<1>5. CASE Send(t)
  <2>1. Finish(t) /\ posted' = Append(posted, task[t])
    BY <1>5 DEF Send
  <2>2. ~Has(posted, task[t]) /\ ~Has(answered, task[t])
    BY <1>3, <2>1, Messages
  <2>3. /\ \A y : Has(posted, y) => Has(posted', y)
        /\ \A y : Has(posted', y) => Has(posted, y) \/ y = task[t]
        /\ Has(posted', task[t]) /\ Once(posted')
    <3>1. posted \in Seq({Close} \cup Nat) /\ task[t] \in {Close} \cup Nat
      BY <1>3, <2>1, Messages
    <3> QED
      BY <2>1, <2>2, <3>1, AppendHas DEF OnceInv
  <2>4. LifeInv'
    BY <1>1, <1>3, <2>1, <2>3
    DEF LifeInv, QuietInv, EarlyInv, LateInv, ReleasedInv, Has
  <2>5. OnceInv'
    <3>1. \A x : ~(Has(answered, x) /\ Has(posted', x))
      BY <2>2, <2>3 DEF OnceInv
    <3>2. socket \in {"none", "opening"} => ~Has(posted', Hello)
      BY <1>3, <2>1, <2>3 DEF OnceInv
    <3>3. m_connection /\ main \notin {"stop", "join"} => ~Has(posted', Close)
      BY <1>3, <2>1, <2>3 DEF OnceInv
    <3> QED
      BY <1>1, <2>3, <3>1, <3>2, <3>3 DEF OnceInv
  <2>6. AllInv'
    BY <1>1, <1>3, <2>1, <2>3 DEF AllInv, Has
  <2> QED
    BY <2>4, <2>5, <2>6
<1> QED
  BY <1>2, <1>4, <1>5
  DEF PoolThread, Loop, Wait, Take, Exit, Wakeup, Go, CheckConnected, clientVars, poolVars,
      history

LEMMA EndInvariant == Spec => [](WorkerInv /\ LifeInv /\ OnceInv /\ AllInv)
<1>1. WorkerInv /\ LifeInv /\ OnceInv /\ AllInv /\ [WorkerNext]_vars
         => LifeInv' /\ OnceInv' /\ AllInv'
  <2> SUFFICES ASSUME WorkerInv, LifeInv, OnceInv, AllInv, [WorkerNext]_vars
               PROVE  LifeInv' /\ OnceInv' /\ AllInv'
    OBVIOUS
  <2>1. CASE UNCHANGED vars
    BY <2>1 DEF vars, poolVars, history, clientVars, LifeInv, QuietInv, EarlyInv, LateInv,
                ReleasedInv, OnceInv, AllInv
  <2> QED
    BY <2>1, MainEnds, AsioEnds, ThreadEnds DEF WorkerNext
<1> QED
  BY <1>1, EndInit, WorkerInvariant, PTL DEF Spec

\* OnMessage never calls Enqueue of a ThreadPool that ~WorkerClient has destroyed,
\* and none is under way when it does, unless a failing WriteHeader has closed the
\* socket after the message was read.
THEOREM PoolOutlivesItsMessages == Spec => []PoolOutlivesMessages
<1>1. WorkerInv /\ LifeInv => PoolOutlivesMessages
  <2> SUFFICES ASSUME WorkerInv, LifeInv, dtor = "gone", failedWrite # "header"
               PROVE  notifying = {} /\ arrived = "nothing"
    BY DEF PoolOutlivesMessages
  <2>1. m_shouldDisconnect \/ socket \in {"none", "closed"}
    BY DEF LifeInv, EarlyInv, LateInv
  <2> QED
    BY <2>1 DEF LifeInv, QuietInv
<1> QED
  BY <1>1, EndInvariant, PTL

\* A sequence behind another.
LEMMA Joined ==
    ASSUME NEW S, NEW a \in Seq(S), NEW b \in Seq(S), Once(a), Once(b),
           \A x : ~(Has(a, x) /\ Has(b, x))
    PROVE  Once(a \o b) /\ \A x : Has(a, x) \/ Has(b, x) => Has(a \o b, x)
<1>1. /\ Len(a) \in Nat /\ Len(b) \in Nat
      /\ DOMAIN a = 1 .. Len(a) /\ DOMAIN b = 1 .. Len(b)
      /\ DOMAIN (a \o b) = 1 .. Len(a) + Len(b)
      /\ \A i \in 1 .. Len(a) + Len(b) :
            (a \o b)[i] = IF i <= Len(a) THEN a[i] ELSE b[i - Len(a)]
  BY ConcatProperties
<1>2. PICK m \in Nat, n \in Nat, c \in Seq(S) :
         m = Len(a) /\ n = Len(b) /\ c = a \o b
  BY <1>1, ConcatProperties
<1>3. /\ DOMAIN a = 1 .. m /\ DOMAIN b = 1 .. n /\ DOMAIN c = 1 .. m + n
      /\ \A i \in 1 .. m + n : c[i] = IF i <= m THEN a[i] ELSE b[i - m]
  BY <1>1, <1>2
<1>4. /\ \A i \in DOMAIN a : i \in DOMAIN c /\ c[i] = a[i]
      /\ \A i \in DOMAIN b : i + m \in DOMAIN c /\ c[i + m] = b[i]
  BY <1>3
<1>5. \A i \in DOMAIN c :
         \/ i \in DOMAIN a /\ c[i] = a[i] /\ Has(a, c[i])
         \/ i - m \in DOMAIN b /\ c[i] = b[i - m] /\ Has(b, c[i])
  BY <1>3 DEF Has
<1>6. ASSUME NEW k \in DOMAIN c, NEW l \in DOMAIN c, c[k] = c[l] PROVE k = l
  <2>1. k \in Int /\ l \in Int
    BY <1>3
  <2>2. CASE k \in DOMAIN a /\ l \in DOMAIN a /\ c[k] = a[k] /\ c[l] = a[l]
    BY <1>6, <2>2 DEF Once
  <2>3. CASE k - m \in DOMAIN b /\ l - m \in DOMAIN b /\ c[k] = b[k - m] /\ c[l] = b[l - m]
    <3>1. k - m = l - m
      BY <1>6, <2>3 DEF Once
    <3> QED
      BY <2>1, <3>1
  <2> QED
    BY <1>5, <1>6, <2>2, <2>3
<1>7. Once(c)
  BY <1>6 DEF Once
<1>8. \A x : Has(a, x) \/ Has(b, x) => Has(c, x)
  BY <1>4 DEF Has
<1> QED
  BY <1>2, <1>7, <1>8

\* Every task that was searched is answered with one Worker_TaskDone, however the
\* pool threads, thrContext and main interleave, and none is left out before the
\* socket is closed or a write fails.
THEOREM AnswersAreExact == Spec => []AnswersExact
<1>1. WorkerInv /\ OnceInv /\ AllInv => AnswersExact
  <2> SUFFICES ASSUME WorkerInv, OnceInv, AllInv PROVE AnswersExact
    OBVIOUS
  <2>1. answered \in Seq({Close} \cup Nat) /\ posted \in Seq({Close} \cup Nat)
    BY Messages
  <2>2. Once(Outgoing) /\ \A x : Has(answered, x) \/ Has(posted, x) => Has(Outgoing, x)
    BY <2>1, Joined DEF OnceInv, Outgoing
  <2> QED
    BY <2>2 DEF AllInv, Once, Has, AnswersExact
<1> QED
  BY <1>1, EndInvariant, PTL
=============================================================================
