----------------------------- MODULE ThreadPool -----------------------------
(***************************************************************************)
(* The Worker's ThreadPool (NetClient/src/ThreadPool.hpp): a queue of      *)
(* tasks and a stop flag behind m_queueState, a condition variable, and    *)
(* the destructor that lets the threads drain the queue.                   *)
(*                                                                         *)
(* A critical section of m_queueState is one step.  notify_one and         *)
(* notify_all are called after the mutex is released and are steps of      *)
(* their own; evaluating the predicate of wait() and blocking is one step, *)
(* as the condition variable guarantees.  A blocked thread may also wake   *)
(* up for no reason.  Tasks are numbered in the order they are pushed.     *)
(*                                                                         *)
(* Enqueue may still be called while the destructor runs, as the asio      *)
(* thread of a Worker may do; the destructor answers for the tasks that    *)
(* were pushed before it set m_stop.                                       *)
(***************************************************************************)
EXTENDS Integers, Sequences, FiniteSets

CONSTANTS
    Pool,       \* the threads of m_workerThreads
    Caller,     \* the threads that call Enqueue
    None,       \* "no task"
    MaxTasks    \* bound: number of tasks pushed

ASSUME PoolAssumption ==
    /\ Pool # {} /\ IsFiniteSet(Pool)
    /\ IsFiniteSet(Caller)
    /\ None \notin Nat
    /\ MaxTasks \in Nat

VARIABLES
    m_taskQueue, m_stop,
    pc, task,   \* where each pool thread is in its loop, and the task it runs
    notifying,  \* the callers between the push and the notify_one of Enqueue
    dtor,       \* how far the destructor is
    pushed,     \* how many tasks have been pushed ...
    accepted,   \* ... before m_stop was set
    started,    \* the tasks in the order they were started
    finished    \* the tasks that have returned

threads == <<pc, task>>
history == <<pushed, accepted, started, finished>>
poolVars == <<m_taskQueue, m_stop, threads, notifying, dtor, history>>

PoolInit ==
    /\ m_taskQueue = <<>> /\ m_stop = FALSE
    /\ pc = [t \in Pool |-> "lock"] /\ task = [t \in Pool |-> None]
    /\ notifying = {} /\ dtor = "alive"
    /\ pushed = 0 /\ accepted = 0 /\ started = <<>> /\ finished = {}

At(place) == {t \in Pool : pc[t] = place}

-----------------------------------------------------------------------------
\* Enqueue, first half: the task is pushed under the mutex.
Push(c) ==
    /\ c \notin notifying /\ dtor # "gone"
    /\ pushed < MaxTasks
    /\ m_taskQueue' = Append(m_taskQueue, pushed + 1)
    /\ pushed' = pushed + 1
    /\ notifying' = notifying \cup {c}
    /\ UNCHANGED <<m_stop, threads, dtor, accepted, started, finished>>

NotifyOne_Forgotten(c) ==
    /\ c \in notifying
    /\ notifying' = notifying \ {c}
    /\ UNCHANGED <<m_taskQueue, m_stop, threads, dtor, history>>

\* Second half, with the mutex released: notify_one wakes a blocked thread, if
\* there is one.
NotifyOne(c) ==
    /\ c \in notifying
    /\ notifying' = notifying \ {c}
    /\ IF At("wait") = {} THEN UNCHANGED pc
       ELSE \E t \in At("wait") : pc' = [pc EXCEPT ![t] = "lock"]
    /\ UNCHANGED <<m_taskQueue, m_stop, task, dtor, history>>

\* A pool thread moves on without touching the queue.
Go(t, from, to) ==
    /\ pc[t] = from
    /\ pc' = [pc EXCEPT ![t] = to]
    /\ UNCHANGED <<m_taskQueue, m_stop, task, notifying, dtor, history>>

\* The predicate of wait() is false: the thread blocks.  A blocked thread may
\* wake up spuriously, to evaluate the predicate again.
Wait(t) == ~m_stop /\ m_taskQueue = <<>> /\ Go(t, "lock", "wait")
Wakeup(t) == Go(t, "wait", "lock")

Exit_AtOnce(t) == m_stop /\ Go(t, "lock", "end")

\* m_stop is set and nothing is queued: the thread returns.
Exit(t) == m_stop /\ m_taskQueue = <<>> /\ Go(t, "lock", "end")

Take_Newest(t) ==
    /\ pc[t] = "lock"
    /\ m_taskQueue # <<>>
    /\ LET last == Len(m_taskQueue)
       IN  /\ task' = [task EXCEPT ![t] = m_taskQueue[last]]
           /\ started' = Append(started, m_taskQueue[last])
           /\ m_taskQueue' = SubSeq(m_taskQueue, 1, last - 1)
    /\ pc' = [pc EXCEPT ![t] = "run"]
    /\ UNCHANGED <<m_stop, notifying, dtor, pushed, accepted, finished>>

\* A task is queued, whether or not m_stop is set: it is taken.
Take(t) ==
    /\ pc[t] = "lock"
    /\ m_taskQueue # <<>>
    /\ task' = [task EXCEPT ![t] = Head(m_taskQueue)]
    /\ started' = Append(started, Head(m_taskQueue))
    /\ m_taskQueue' = Tail(m_taskQueue)
    /\ pc' = [pc EXCEPT ![t] = "run"]
    /\ UNCHANGED <<m_stop, notifying, dtor, pushed, accepted, finished>>

\* task() returns.
Finish(t) ==
    /\ pc[t] = "run"
    /\ finished' = finished \cup {task[t]}
    /\ task' = [task EXCEPT ![t] = None]
    /\ pc' = [pc EXCEPT ![t] = "lock"]
    /\ UNCHANGED <<m_taskQueue, m_stop, notifying, dtor, pushed, accepted, started>>

\* ~ThreadPool: m_stop is set under the mutex.
Stop ==
    /\ dtor = "alive" /\ dtor' = "notify"
    /\ m_stop' = TRUE /\ accepted' = pushed
    /\ UNCHANGED <<m_taskQueue, threads, notifying, pushed, started, finished>>

NotifyAll_One ==
    /\ dtor = "notify" /\ dtor' = "join"
    /\ \E S \in {{}} \cup {{t} : t \in At("wait")} :
          pc' = [t \in Pool |-> IF t \in S THEN "lock" ELSE pc[t]]
    /\ UNCHANGED <<m_taskQueue, m_stop, task, notifying, history>>

\* notify_all, with the mutex released.
NotifyAll ==
    /\ dtor = "notify" /\ dtor' = "join"
    /\ pc' = [t \in Pool |-> IF pc[t] = "wait" THEN "lock" ELSE pc[t]]
    /\ UNCHANGED <<m_taskQueue, m_stop, task, notifying, history>>

\* The members are destroyed, m_workerThreads (declared last) first: each jthread
\* is joined.
Join ==
    /\ dtor = "join" /\ dtor' = "gone"
    /\ \A t \in Pool : pc[t] = "end"
    /\ UNCHANGED <<m_taskQueue, m_stop, threads, notifying, history>>

-----------------------------------------------------------------------------
Enqueue(c) == Push(c) \/ NotifyOne(c)
Loop(t) == Wait(t) \/ Take(t) \/ Exit(t)
Destructor == Stop \/ NotifyAll \/ Join

PoolNext ==
    \/ \E c \in Caller : Enqueue(c)
    \/ \E t \in Pool : Loop(t) \/ Finish(t) \/ Wakeup(t)
    \/ Destructor

PoolSpec == PoolInit /\ [][PoolNext]_poolVars

-----------------------------------------------------------------------------
(***************************************************************************)
(* Properties.                                                             *)
(***************************************************************************)

\* The members of ThreadPool and the places of its threads; a thread has a task
\* exactly while it runs one.
PoolTypeOK ==
    /\ m_taskQueue \in Seq(Nat) /\ started \in Seq(Nat)
    /\ m_stop \in BOOLEAN
    /\ pc \in [Pool -> {"lock", "wait", "run", "end"}]
    /\ task \in [Pool -> Nat \cup {None}]
    /\ \A t \in Pool : pc[t] = "run" <=> task[t] # None
    /\ notifying \subseteq Caller
    /\ dtor \in {"alive", "notify", "join", "gone"}
    /\ m_stop <=> dtor # "alive"
    /\ pushed \in Nat /\ accepted \in 0 .. pushed
    /\ finished \subseteq 1 .. pushed

\* No task is lost, run twice or overtaken on its way through the queue: the
\* tasks started, and after them the tasks queued, are the tasks pushed in the
\* order of the Enqueue calls (test_thread_pool.cpp checks it for one thread).
InOrder ==
    /\ Len(started) + Len(m_taskQueue) = pushed
    /\ \A i \in 1 .. Len(started) : started[i] = i
    /\ \A i \in 1 .. Len(m_taskQueue) : m_taskQueue[i] = Len(started) + i

\* Every task started has returned or is in the hands of exactly one thread.
HeldOnce ==
    /\ finished \cup {task[t] : t \in At("run")} = 1 .. Len(started)
    /\ \A t \in At("run") : task[t] \notin finished
    /\ \A t, u \in At("run") : task[t] = task[u] => t = u

\* No wakeup is lost, though every notification comes after the mutex has been
\* released and may meet no blocked thread: while a thread is blocked, each
\* queued task has a thread on its way to the queue or a notify_one to come,
\* and once m_stop is set the notify_all is still to come.
NoLostWakeup ==
    At("wait") # {} =>
        /\ Len(m_taskQueue) <= Cardinality(At("lock")) + Cardinality(notifying)
        /\ m_stop => dtor = "notify"

\* The destructor is graceful: when the members of the pool are gone, every task
\* pushed before the stop has been run to its end and no thread is left.
GracefulStop ==
    dtor = "gone" => At("end") = Pool /\ 1 .. accepted \subseteq finished

\* Answers come from the oldest tasks: a running task has fewer unfinished ones
\* before it than there are threads.  MasterServer!SendTaskDone rests on this.
OldestFirst ==
    \A t \in At("run") :
        Cardinality((1 .. task[t] - 1) \ finished) < Cardinality(Pool)

=============================================================================
