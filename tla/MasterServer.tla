---------------------------- MODULE MasterServer ----------------------------
(***************************************************************************)
(* The Master of a LogGrid cluster: the scheduler and the search sessions  *)
(* of NetServer/src/MasterServer.cpp, together with as much of its         *)
(* surroundings as it talks to.                                            *)
(*                                                                         *)
(* Everything below m_stateMutex is one atomic step; whatever a thread     *)
(* keeps between two critical sections is in the thread-local variables    *)
(* pc, cur, left, sid and job.  Three kinds of thread run:                 *)
(*   - Main, the loop of main.cpp, which calls server.Update() and so      *)
(*     OnMessage for every message of m_qMessagesIn;                       *)
(*   - the threads of Http, the pool of cpp-httplib, which run StartSearch *)
(*     (GetStatus only reads and is the operator of the same name);        *)
(*   - Watcher, the thread on which server_interface would call            *)
(*     OnClientDisconnect.  The callback is only reachable through         *)
(*     MessageClient and MessageAllClients, which nothing in the program   *)
(*     calls: ReportDisconnects = FALSE is the program as built, TRUE is   *)
(*     the program its documentation describes.                            *)
(*                                                                         *)
(* The Workers are the environment: a Worker connects once, says hello,    *)
(* answers the tasks it was sent and may vanish at any moment.             *)
(*                                                                         *)
(* A definition named Def_Slip is Def with a plausible slip of the         *)
(* programmer; nothing uses it.  It is there to show, by putting it in the *)
(* place of Def, that a property notices the slip.                         *)
(***************************************************************************)
EXTENDS Integers, FiniteSets, SequencesExt

CONSTANTS
    Client,             \* the connections ever accepted (nIDCounter is never reused)
    Threads,            \* Threads[c]: the size of Worker c's thread pool
    Stable,             \* the Workers whose connection never breaks
    Http,               \* the HTTP threads
    Main, Watcher,      \* the other two threads
    None,               \* "no value" of a thread-local variable
    ReportDisconnects,  \* is OnClientDisconnect ever called?
    DiskFails,          \* can a result file fail to open?
    Limits,             \* the maxResults values clients ask for
    SlotModulus,        \* 2^64, the modulus of the uint64_t slot counters
    MaxSearches,        \* bound: number of searches started
    MaxChunks,          \* bound: chunks of one search
    MaxScanErrors,      \* bound: entries of one scan that cannot be examined
    MaxMatches          \* bound: matching lines of one chunk

ASSUME ConstantsAssumption ==
    /\ Threads \in [Client -> Nat \ {0}]
    /\ Stable \subseteq Client
    /\ None \notin Client /\ None \notin Nat
    /\ Main \notin Http /\ Watcher \notin Http /\ Main # Watcher
    /\ ReportDisconnects \in BOOLEAN /\ DiskFails \in BOOLEAN
    /\ Limits \subseteq Nat
    /\ SlotModulus \in Nat \ {0}
    /\ \A c \in Client : Threads[c] < SlotModulus
    /\ MaxSearches \in Nat /\ MaxChunks \in Nat
    /\ MaxScanErrors \in Nat /\ MaxMatches \in Nat

VARIABLES
    \* guarded by m_stateMutex
    m_pendingTasks,       \* deque of chunks waiting for a Worker
    m_inFlightTasks,      \* the (client, task id, task) triples of the map of maps
    m_idleWorkers,        \* queue of Workers waiting for work
    m_idleWorkersIds,     \* the ids believed to be in that queue
    m_workersFreeSlots,   \* free pool threads of every registered Worker
    m_sessions,           \* the published sessions
    m_nextSearchId, m_nextTaskId,
    \* thread-local
    pc, cur, left, sid, job,
    \* the surroundings
    m_qMessagesIn,        \* messages received and not yet handled
    sent,                 \* tasks sent to each Worker and not yet answered
    conn,                 \* the state of each socket
    disk                  \* lines in each session's result file

scheduler == <<m_pendingTasks, m_inFlightTasks, m_idleWorkers,
               m_idleWorkersIds, m_workersFreeSlots, m_nextTaskId>>
loops == <<cur, left>>
environment == <<m_qMessagesIn, sent, conn>>
vars == <<scheduler, m_sessions, m_nextSearchId, pc, loops, sid, job,
          environment, disk>>

-----------------------------------------------------------------------------
Thread == Http \cup {Main, Watcher}
SearchId == 0 .. MaxSearches - 1

Task == [search_id : SearchId, chunk : Nat, max_results : Nat]

Flight == [client : Client, task_id : Nat, task : Task]

SearchSession ==
    [max_results : Nat, total_matches : Nat, line_count : Nat,
     scan_errors : Nat, chunks_total : Nat, chunks_done : Nat]

Hello == [id : {"Worker_Hello"}, client : Client, threads_available : Nat]
TaskDone == [id : {"Worker_TaskDone"}, client : Client, task_id : Nat,
             total_matches : 0 .. MaxMatches, lines : Nat]

\* What Main holds of the Worker_TaskDone message it is handling; "out" is
\* linesToWrite.
Job == [task : Task, total_matches : 0 .. MaxMatches, lines : Nat, out : Nat]

Min2(a, b) == IF a <= b THEN a ELSE b

\* The control points of the threads, between two critical sections.
Place == {"free", "scan", "assign", "wake", "watch", "update", "hello", "next",
          "aggregate", "write", "count"}

\* Where a thread stands when it is doing nothing.
Rest(t) == IF t = Main THEN "update" ELSE IF t = Watcher THEN "watch" ELSE "free"

Registered(c) == c \in DOMAIN m_workersFreeSlots

SetSlots_Clamped(c, n) ==
    [d \in DOMAIN m_workersFreeSlots \cup {c} |->
        IF d = c THEN (IF n < 0 THEN 0 ELSE n) ELSE m_workersFreeSlots[d]]

\* m_workersFreeSlots[c] = n, and the ++ and -- of the uint64_t it maps to.
SetSlots(c, n) ==
    [d \in DOMAIN m_workersFreeSlots \cup {c} |->
        IF d = c THEN n % SlotModulus ELSE m_workersFreeSlots[d]]

GetStatus_Early(s) ==
    IF s \notin DOMAIN m_sessions THEN "NotFound"
    ELSE IF m_sessions[s].chunks_done + 1 >= m_sessions[s].chunks_total
         THEN "Done" ELSE "Running"

\* ISearchService::GetStatus: the state it reports, from one critical section.
GetStatus(s) ==
    IF s \notin DOMAIN m_sessions THEN "NotFound"
    ELSE IF m_sessions[s].chunks_done = m_sessions[s].chunks_total
         THEN "Done" ELSE "Running"

-----------------------------------------------------------------------------
Init ==
    /\ m_pendingTasks = <<>>
    /\ m_inFlightTasks = {}
    /\ m_idleWorkers = <<>>
    /\ m_idleWorkersIds = {}
    /\ m_workersFreeSlots = [c \in {} |-> 0]
    /\ m_sessions = [s \in {} |-> None]
    /\ m_nextSearchId = 0
    /\ m_nextTaskId = 0
    /\ pc = [t \in Thread |-> Rest(t)]
    /\ cur = [t \in Thread |-> None]
    /\ left = [t \in Thread |-> 0]
    /\ sid = [t \in Http |-> None]
    /\ job = None
    /\ m_qMessagesIn = <<>>
    /\ sent = [c \in Client |-> <<>>]
    /\ conn = [c \in Client |-> "new"]
    /\ disk = [s \in SearchId |-> 0]

(***************************************************************************)
(* StartSearch, on an HTTP thread.                                         *)
(***************************************************************************)

AllocateSearchId_NoIncrement(t) ==
    /\ pc[t] = "free"
    /\ m_nextSearchId < MaxSearches
    /\ sid' = [sid EXCEPT ![t] = m_nextSearchId]
    /\ pc' = [pc EXCEPT ![t] = "scan"]
    /\ UNCHANGED <<scheduler, m_sessions, m_nextSearchId, loops, job, environment,
                   disk>>

\* The path was accepted: AllocateSearchId reserves an id under the mutex.
AllocateSearchId(t) ==
    /\ pc[t] = "free"
    /\ m_nextSearchId < MaxSearches
    /\ sid' = [sid EXCEPT ![t] = m_nextSearchId]
    /\ m_nextSearchId' = m_nextSearchId + 1
    /\ pc' = [pc EXCEPT ![t] = "scan"]
    /\ UNCHANGED <<scheduler, m_sessions, loops, job, environment, disk>>

\* BuildSession or the scan throws; the reserved id is skipped for good.
StartSearchThrows(t) ==
    /\ pc[t] = "scan"
    /\ sid' = [sid EXCEPT ![t] = None]
    /\ pc' = [pc EXCEPT ![t] = "free"]
    /\ UNCHANGED <<scheduler, m_sessions, m_nextSearchId, loops, job,
                   environment, disk>>

\* The chunk tasks of search s, in file order.
NewTasks(s, n, limit) ==
    [i \in 1 .. n |-> [search_id |-> s, chunk |-> i, max_results |-> limit]]

\* BuildSession, with the fields the scan and AddPendingTasks fill in.
BuildSession(limit, errors, n) ==
    [max_results |-> limit, total_matches |-> 0, line_count |-> 0,
     scan_errors |-> errors, chunks_total |-> n, chunks_done |-> 0]

\* The scan found n chunks and could not examine "errors" entries; the session
\* is published with all of its tasks in one critical section.
AddPendingTasks(t, n, errors, limit) ==
    /\ pc[t] = "scan"
    /\ ~(n = 0 /\ errors > 0)
    /\ m_sessions' =
         [s \in DOMAIN m_sessions \cup {sid[t]} |->
            IF s = sid[t] THEN BuildSession(limit, errors, n) ELSE m_sessions[s]]
    /\ m_pendingTasks' = m_pendingTasks \o NewTasks(sid[t], n, limit)
    /\ sid' = [sid EXCEPT ![t] = None]
    /\ pc' = [pc EXCEPT ![t] = "assign"]
    /\ UNCHANGED <<m_inFlightTasks, m_idleWorkers, m_idleWorkersIds,
                   m_workersFreeSlots, m_nextTaskId, m_nextSearchId, loops, job,
                   environment, disk>>

(***************************************************************************)
(* AssignIdleWorkers: one critical section per turn of its outer loop.     *)
(***************************************************************************)

AssignDone_Both(t) ==
    /\ pc[t] = "assign"
    /\ m_pendingTasks = <<>> /\ m_idleWorkers = <<>>
    /\ pc' = [pc EXCEPT ![t] = Rest(t)]
    /\ UNCHANGED <<scheduler, m_sessions, m_nextSearchId, loops, sid, job,
                   environment, disk>>

\* Nothing is pending or nobody is idle: the loop ends.
AssignDone(t) ==
    /\ pc[t] = "assign"
    /\ m_pendingTasks = <<>> \/ m_idleWorkers = <<>>
    /\ pc' = [pc EXCEPT ![t] = Rest(t)]
    /\ UNCHANGED <<scheduler, m_sessions, m_nextSearchId, loops, sid, job,
                   environment, disk>>

\* The front Worker is no longer registered: it is dropped from the queue.
AssignSkip(t) ==
    /\ pc[t] = "assign"
    /\ m_pendingTasks # <<>> /\ m_idleWorkers # <<>>
    /\ ~Registered(Head(m_idleWorkers))
    /\ m_idleWorkers' = Tail(m_idleWorkers)
    /\ UNCHANGED <<m_pendingTasks, m_inFlightTasks, m_idleWorkersIds,
                   m_workersFreeSlots, m_nextTaskId, m_sessions, m_nextSearchId,
                   pc, loops, sid, job, environment, disk>>

\* The front Worker is taken with the number of slots it has right now; the
\* slots are used after the mutex is released, one DispatchNextTask at a time.
AssignWake(t) ==
    /\ pc[t] = "assign"
    /\ m_pendingTasks # <<>> /\ m_idleWorkers # <<>>
    /\ LET w == Head(m_idleWorkers)
       IN  /\ Registered(w)
           /\ m_idleWorkers' = Tail(m_idleWorkers)
           /\ m_idleWorkersIds' = m_idleWorkersIds \ {w}
           /\ IF m_workersFreeSlots[w] = 0
              THEN UNCHANGED <<pc, loops>>
              ELSE /\ cur' = [cur EXCEPT ![t] = w]
                   /\ left' = [left EXCEPT ![t] = m_workersFreeSlots[w]]
                   /\ pc' = [pc EXCEPT ![t] = "wake"]
    /\ UNCHANGED <<m_pendingTasks, m_inFlightTasks, m_workersFreeSlots,
                   m_nextTaskId, m_sessions, m_nextSearchId, sid, job,
                   environment, disk>>

(***************************************************************************)
(* DispatchNextTask(cur[t]), called from the loop of Worker_Hello          *)
(* ("hello"), once from Worker_TaskDone ("next") and from the inner loop   *)
(* of AssignIdleWorkers ("wake").                                          *)
(***************************************************************************)

Dispatching(t) == pc[t] \in {"hello", "next", "wake"}

\* Where the caller goes once its loop is over.
AfterLoop == [hello |-> "update", next |-> "aggregate", wake |-> "assign"]

\* The caller's loop "for i < n: if (!DispatchNextTask(c)) break".
Repeat(t, dispatched) ==
    IF dispatched /\ left[t] > 1
    THEN /\ left' = [left EXCEPT ![t] = @ - 1]
         /\ UNCHANGED <<pc, cur>>
    ELSE /\ left' = [left EXCEPT ![t] = 0]
         /\ cur' = [cur EXCEPT ![t] = None]
         /\ pc' = [pc EXCEPT ![t] = AfterLoop[pc[t]]]

NextFlight_ChunkNumber(c) ==
    [client |-> c, task_id |-> Head(m_pendingTasks).chunk,
     task |-> Head(m_pendingTasks)]

\* The task at the front of the deque, with the id it gets for Worker c.
NextFlight(c) ==
    [client |-> c, task_id |-> m_nextTaskId + 1, task |-> Head(m_pendingTasks)]

\* A task is pending: it is registered in flight and sent.  A task written to
\* a closed socket is lost (WriteHeader fails).
DispatchTask(t) ==
    /\ Dispatching(t)
    /\ Registered(cur[t])
    /\ m_pendingTasks # <<>>
    /\ LET c == cur[t]
       IN  /\ m_inFlightTasks' = m_inFlightTasks \cup {NextFlight(c)}
           /\ m_workersFreeSlots' = SetSlots(c, m_workersFreeSlots[c] - 1)
           /\ sent' = IF conn[c] = "open"
                      THEN [sent EXCEPT ![c] = Append(@, NextFlight(c))] ELSE sent
    /\ m_nextTaskId' = m_nextTaskId + 1
    /\ m_pendingTasks' = Tail(m_pendingTasks)
    /\ Repeat(t, TRUE)
    /\ UNCHANGED <<m_idleWorkers, m_idleWorkersIds, m_sessions, m_nextSearchId,
                   sid, job, m_qMessagesIn, conn, disk>>

Park_Always(c) ==
    /\ m_idleWorkers' = Append(m_idleWorkers, c)
    /\ m_idleWorkersIds' = m_idleWorkersIds \cup {c}
Park_Never(c) == UNCHANGED <<m_idleWorkers, m_idleWorkersIds>>

\* The Worker joins the idle queue unless it is in it.
Park(c) ==
    IF c \in m_idleWorkersIds
    THEN UNCHANGED <<m_idleWorkers, m_idleWorkersIds>>
    ELSE /\ m_idleWorkers' = Append(m_idleWorkers, c)
         /\ m_idleWorkersIds' = m_idleWorkersIds \cup {c}

\* Nothing is pending.
DispatchParks(t) ==
    /\ Dispatching(t)
    /\ Registered(cur[t])
    /\ m_pendingTasks = <<>>
    /\ Park(cur[t])
    /\ Repeat(t, FALSE)
    /\ UNCHANGED <<m_pendingTasks, m_inFlightTasks, m_workersFreeSlots,
                   m_nextTaskId, m_sessions, m_nextSearchId, sid, job,
                   environment, disk>>

\* The Worker was unregistered since the caller got hold of it.
DispatchRefused(t) ==
    /\ Dispatching(t)
    /\ ~Registered(cur[t])
    /\ Repeat(t, FALSE)
    /\ UNCHANGED <<scheduler, m_sessions, m_nextSearchId, sid, job, environment,
                   disk>>

(***************************************************************************)
(* OnMessage, on the main thread.  Workers send Worker_Hello and           *)
(* Worker_TaskDone only, with bodies that can be read (RoundTrip in        *)
(* MessageCodec): the default case and the handlers for exceptions of a    *)
(* malformed message have nothing to do.                                   *)
(***************************************************************************)

\* The message at the front of the queue is of this kind and is taken.
Update(id) ==
    /\ pc[Main] = "update"
    /\ m_qMessagesIn # <<>>
    /\ Head(m_qMessagesIn).id = id
    /\ m_qMessagesIn' = Tail(m_qMessagesIn)

\* Worker_Hello: the Worker's capacity is registered, then it is saturated.
OnHello ==
    /\ Update("Worker_Hello")
    /\ LET msg == Head(m_qMessagesIn)
           n == msg.threads_available
       IN  /\ m_workersFreeSlots' = SetSlots(msg.client, n)
           /\ IF n = 0
              THEN UNCHANGED <<pc, loops>>
              ELSE /\ cur' = [cur EXCEPT ![Main] = msg.client]
                   /\ left' = [left EXCEPT ![Main] = n]
                   /\ pc' = [pc EXCEPT ![Main] = "hello"]
    /\ UNCHANGED <<m_pendingTasks, m_inFlightTasks, m_idleWorkers,
                   m_idleWorkersIds, m_nextTaskId, m_sessions, m_nextSearchId,
                   sid, job, sent, conn, disk>>

\* The entry of m_inFlightTasks a Worker_TaskDone message answers, as a set of
\* at most one element.
Answered(msg) ==
    {f \in m_inFlightTasks : f.client = msg.client /\ f.task_id = msg.task_id}

\* Worker_TaskDone for a task in flight: the task leaves the map, its slot is
\* free again, and one DispatchNextTask follows.
OnTaskDone ==
    /\ Update("Worker_TaskDone")
    /\ LET msg == Head(m_qMessagesIn)
       IN  \E f \in Answered(msg) :
             /\ m_inFlightTasks' = m_inFlightTasks \ {f}
             /\ m_workersFreeSlots' =
                  SetSlots(f.client,
                           1 + IF Registered(f.client)
                               THEN m_workersFreeSlots[f.client] ELSE 0)
             /\ job' = [task |-> f.task, total_matches |-> msg.total_matches,
                        lines |-> msg.lines, out |-> 0]
             /\ cur' = [cur EXCEPT ![Main] = f.client]
             /\ left' = [left EXCEPT ![Main] = 1]
             /\ pc' = [pc EXCEPT ![Main] = "next"]
    /\ UNCHANGED <<m_pendingTasks, m_idleWorkers, m_idleWorkersIds, m_nextTaskId,
                   m_sessions, m_nextSearchId, sid, sent, conn, disk>>

\* Worker_TaskDone for a task that is not in flight at this Worker: ignored.
OnUnknownTaskDone ==
    /\ Update("Worker_TaskDone")
    /\ Answered(Head(m_qMessagesIn)) = {}
    /\ UNCHANGED <<scheduler, m_sessions, m_nextSearchId, pc, loops, sid, job,
                   sent, conn, disk>>

LinesToWrite_Unlimited(session, lines) == lines

\* linesToWrite: what the session still accepts of a batch.
LinesToWrite(session, lines) ==
    IF session.line_count < session.max_results
    THEN Min2(lines, session.max_results - session.line_count) ELSE 0

\* AggregateTaskResult, up to the release of the mutex.  A session that is not
\* found throws, and the handler goes on to count the chunk.
AggregateTaskResult ==
    /\ pc[Main] = "aggregate"
    /\ LET s == job.task.search_id
           found == s \in DOMAIN m_sessions
           out == IF found THEN LinesToWrite(m_sessions[s], job.lines) ELSE 0
       IN  /\ m_sessions' =
                IF found
                THEN [m_sessions EXCEPT
                        ![s].total_matches = @ + job.total_matches,
                        ![s].line_count = @ + out]
                ELSE m_sessions
           /\ job' = [job EXCEPT !.out = out]
           /\ pc' = [pc EXCEPT ![Main] = IF out > 0 THEN "write" ELSE "count"]
    /\ UNCHANGED <<scheduler, m_nextSearchId, loops, sid, environment, disk>>

WriteResults_Truncates ==
    /\ pc[Main] = "write"
    /\ disk' = [disk EXCEPT ![job.task.search_id] = job.out]
    /\ job' = [job EXCEPT !.out = 0]
    /\ pc' = [pc EXCEPT ![Main] = "count"]
    /\ UNCHANGED <<scheduler, m_sessions, m_nextSearchId, loops, sid, environment>>

\* WriteResults appends the lines to the session's file, without the mutex.
WriteResults ==
    /\ pc[Main] = "write"
    /\ disk' = [disk EXCEPT ![job.task.search_id] = @ + job.out]
    /\ job' = [job EXCEPT !.out = 0]
    /\ pc' = [pc EXCEPT ![Main] = "count"]
    /\ UNCHANGED <<scheduler, m_sessions, m_nextSearchId, loops, sid, environment>>

\* OpenResultFile returns nullopt: the lines are dropped, the handler goes on.
OpenResultFileFails ==
    /\ DiskFails
    /\ pc[Main] = "write"
    /\ job' = [job EXCEPT !.out = 0]
    /\ pc' = [pc EXCEPT ![Main] = "count"]
    /\ UNCHANGED <<scheduler, m_sessions, m_nextSearchId, loops, sid, environment,
                   disk>>

\* The end of Worker_TaskDone: the chunk is counted.
CountChunk ==
    /\ pc[Main] = "count"
    /\ LET s == job.task.search_id
       IN  m_sessions' = IF s \in DOMAIN m_sessions
                         THEN [m_sessions EXCEPT ![s].chunks_done = @ + 1]
                         ELSE m_sessions
    /\ job' = None
    /\ pc' = [pc EXCEPT ![Main] = "update"]
    /\ UNCHANGED <<scheduler, m_nextSearchId, loops, sid, environment, disk>>

(***************************************************************************)
(* OnClientDisconnect, on the thread that finds the socket closed.         *)
(***************************************************************************)

\* What is in flight at c, and the orders in which the iteration of an
\* unordered_map may push a set of tasks to the front of the deque.
InFlightAt(c) == {f \in m_inFlightTasks : f.client = c}
Orders(S) == {q \in [1 .. Cardinality(S) -> S] : Range(q) = S}

\* The Worker is forgotten; its entry in the idle queue, if any, stays.
Unregister(c) ==
    /\ m_workersFreeSlots' =
         [d \in DOMAIN m_workersFreeSlots \ {c} |-> m_workersFreeSlots[d]]
    /\ m_idleWorkersIds' = m_idleWorkersIds \ {c}

Reclaim_KeepsEntry(c) ==
    /\ \E q \in Orders(InFlightAt(c)) :
          m_pendingTasks' = [i \in DOMAIN q |-> q[i].task] \o m_pendingTasks
    /\ UNCHANGED m_inFlightTasks
Reclaim_LosesTasks(c) ==
    /\ m_inFlightTasks' = m_inFlightTasks \ InFlightAt(c)
    /\ UNCHANGED m_pendingTasks

\* Its tasks in flight go back to the front of the deque.
Reclaim(c) ==
    /\ \E q \in Orders(InFlightAt(c)) :
          m_pendingTasks' = [i \in DOMAIN q |-> q[i].task] \o m_pendingTasks
    /\ m_inFlightTasks' = m_inFlightTasks \ InFlightAt(c)

OnClientDisconnect_NoAssign(c) ==
    /\ ReportDisconnects
    /\ pc[Watcher] = "watch" /\ conn[c] = "closed"
    /\ Unregister(c) /\ Reclaim(c)
    /\ UNCHANGED <<m_idleWorkers, m_nextTaskId, m_sessions, m_nextSearchId, pc,
                   loops, sid, job, environment, disk>>

\* Both in one critical section, then AssignIdleWorkers.
OnClientDisconnect(c) ==
    /\ ReportDisconnects
    /\ pc[Watcher] = "watch" /\ conn[c] = "closed"
    /\ Unregister(c) /\ Reclaim(c)
    /\ pc' = [pc EXCEPT ![Watcher] = "assign"]
    /\ UNCHANGED <<m_idleWorkers, m_nextTaskId, m_sessions, m_nextSearchId, loops,
                   sid, job, environment, disk>>

(***************************************************************************)
(* The Workers.  The order of a Worker's answers is that of its ThreadPool *)
(* (tasks start in FIFO order, Threads[c] at a time): any of the oldest    *)
(* Threads[c] unanswered tasks may be the next to finish.                  *)
(***************************************************************************)

\* SendHello: the size of the thread pool.
SendHello(c) ==
    [id |-> "Worker_Hello", client |-> c, threads_available |-> Threads[c]]

\* SerializeBatch: m lines of the chunk match, and the batch carries those that
\* fit the task's max_results.
SerializeBatch(c, f, m) ==
    [id |-> "Worker_TaskDone", client |-> c, task_id |-> f.task_id,
     total_matches |-> m, lines |-> Min2(m, f.task.max_results)]

\* The connection is accepted and OnConnectionResult sends Worker_Hello.
Connect(c) ==
    /\ conn[c] = "new"
    /\ conn' = [conn EXCEPT ![c] = "open"]
    /\ m_qMessagesIn' = Append(m_qMessagesIn, SendHello(c))
    /\ UNCHANGED <<scheduler, m_sessions, m_nextSearchId, pc, loops, sid, job,
                   sent, disk>>

\* The i-th unanswered task of Worker c finishes with m matching lines.
SendTaskDone(c, i, m) ==
    /\ conn[c] = "open"
    /\ i \in 1 .. Min2(Threads[c], Len(sent[c]))
    /\ m_qMessagesIn' = Append(m_qMessagesIn, SerializeBatch(c, sent[c][i], m))
    /\ sent' = [sent EXCEPT ![c] = RemoveAt(@, i)]
    /\ UNCHANGED <<scheduler, m_sessions, m_nextSearchId, pc, loops, sid, job,
                   conn, disk>>

\* The Worker dies or its connection breaks: ReadHeader fails on the Master,
\* which closes the socket and tells nobody.
Close(c) ==
    /\ c \notin Stable
    /\ conn[c] = "open"
    /\ conn' = [conn EXCEPT ![c] = "closed"]
    /\ sent' = [sent EXCEPT ![c] = <<>>]
    /\ UNCHANGED <<scheduler, m_sessions, m_nextSearchId, pc, loops, sid, job,
                   m_qMessagesIn, disk>>

-----------------------------------------------------------------------------
StartSearch(t) ==
    \/ AllocateSearchId(t)
    \/ StartSearchThrows(t)
    \/ \E n \in 0 .. MaxChunks, e \in 0 .. MaxScanErrors, limit \in Limits :
          AddPendingTasks(t, n, e, limit)

AssignIdleWorkers(t) == AssignDone(t) \/ AssignSkip(t) \/ AssignWake(t)

DispatchNextTask(t) == DispatchTask(t) \/ DispatchParks(t) \/ DispatchRefused(t)

OnMessage ==
    \/ OnHello \/ OnTaskDone \/ OnUnknownTaskDone
    \/ AggregateTaskResult \/ WriteResults \/ OpenResultFileFails \/ CountChunk

Worker(c) ==
    \/ Connect(c)
    \/ \E i \in 1 .. Threads[c], m \in 0 .. MaxMatches : SendTaskDone(c, i, m)
    \/ Close(c)

Next ==
    \/ \E t \in Http : StartSearch(t)
    \/ \E t \in Http \cup {Watcher} : AssignIdleWorkers(t)
    \/ \E t \in Thread : DispatchNextTask(t)
    \/ OnMessage
    \/ \E c \in Client : OnClientDisconnect(c)
    \/ \E c \in Client : Worker(c)

Spec == Init /\ [][Next]_vars

(***************************************************************************)
(* Fairness.  Main, the HTTP threads and the pool threads are preemptively *)
(* scheduled OS threads, none of their steps waits for anything but the    *)
(* mutex, and a Worker that stays connected finishes its tasks.  Nobody is *)
(* obliged to start a search, to break a connection, to notice a broken    *)
(* one or (except a Worker of Stable) to connect.                          *)
(***************************************************************************)
Fairness ==
    /\ WF_vars(OnMessage \/ DispatchNextTask(Main))
    /\ \A t \in Http :
          WF_vars((pc[t] # "free" /\ StartSearch(t))
                    \/ AssignIdleWorkers(t) \/ DispatchNextTask(t))
    /\ WF_vars(AssignIdleWorkers(Watcher) \/ DispatchNextTask(Watcher))
    /\ \A c \in Client :
          WF_vars(\E i \in 1 .. Threads[c], m \in 0 .. MaxMatches :
                     SendTaskDone(c, i, m))
    /\ \A c \in Stable : WF_vars(Connect(c))

FairSpec == Spec /\ Fairness

-----------------------------------------------------------------------------
(***************************************************************************)
(* Properties.                                                             *)
(***************************************************************************)

\* The variables behind m_stateMutex that belong to the scheduler.
SchedulerTypeOK ==
    /\ m_pendingTasks \in Seq(Task)
    /\ m_inFlightTasks \subseteq Flight /\ IsFiniteSet(m_inFlightTasks)
    /\ m_idleWorkers \in Seq(Client)
    /\ m_idleWorkersIds \subseteq Client
    /\ DOMAIN m_workersFreeSlots \subseteq Client
    /\ \A c \in DOMAIN m_workersFreeSlots :
          m_workersFreeSlots[c] \in 0 .. SlotModulus - 1
    /\ m_nextTaskId \in Nat

\* The sessions and their result files.
SessionsTypeOK ==
    /\ DOMAIN m_sessions \subseteq SearchId
    /\ \A s \in DOMAIN m_sessions : m_sessions[s] \in SearchSession
    /\ m_nextSearchId \in 0 .. MaxSearches
    /\ disk \in [SearchId -> Nat]

\* The thread-local variables: a thread has a current Worker exactly while it
\* dispatches, an HTTP thread owns an id exactly while it scans, and Main has a
\* job exactly while it handles a Worker_TaskDone.
ThreadsTypeOK ==
    /\ pc \in [Thread -> Place]
    /\ \A t \in Http : pc[t] \in {"free", "scan", "assign", "wake"}
    /\ pc[Main] \in {"update", "hello", "next", "aggregate", "write", "count"}
    /\ pc[Watcher] \in {"watch", "assign", "wake"}
    /\ cur \in [Thread -> Client \cup {None}]
    /\ left \in [Thread -> Nat]
    /\ \A t \in Thread : IF Dispatching(t) THEN cur[t] # None /\ left[t] > 0
                                           ELSE cur[t] = None /\ left[t] = 0
    /\ sid \in [Http -> SearchId \cup {None}]
    /\ \A t \in Http : pc[t] = "scan" <=> sid[t] # None
    /\ IF pc[Main] \in {"update", "hello"} THEN job = None ELSE job \in Job

\* The Workers, their sockets and the queue of incoming messages.
EnvironmentTypeOK ==
    /\ m_qMessagesIn \in Seq(Hello \cup TaskDone)
    /\ sent \in [Client -> Seq(Flight)]
    /\ conn \in [Client -> {"new", "open", "closed"}]

\* The type of every variable, and which of the thread-local ones are in use at
\* each control point of StartSearch, OnMessage and OnClientDisconnect.
TypeOK ==
    SchedulerTypeOK /\ SessionsTypeOK /\ ThreadsTypeOK /\ EnvironmentTypeOK

\* The places a chunk that is not counted yet can be in: waiting, at a Worker,
\* or in the hands of Main.
Waiting == Range(m_pendingTasks)
AtWorkers == {f.task : f \in m_inFlightTasks}
InHand == IF pc[Main] \in {"update", "hello"} THEN {} ELSE {job.task}
Live == Waiting \cup AtWorkers \cup InHand
Outstanding(s) == {task \in Live : task.search_id = s}

\* No two searches share an id, although StartSearch reserves it in one critical
\* section and publishes the session in another, much later one: the ids in the
\* hands of scanning threads are reserved, unpublished and pairwise different.
FreshIds ==
    /\ DOMAIN m_sessions \subseteq 0 .. m_nextSearchId - 1
    /\ \A t \in Http : sid[t] # None =>
          sid[t] < m_nextSearchId /\ sid[t] \notin DOMAIN m_sessions
    /\ \A t, u \in Http : sid[t] # None /\ sid[t] = sid[u] => t = u

\* No chunk is in two places, or twice in one, whatever the threads do to the
\* deque and the map between their critical sections: no chunk is ever searched
\* for twice on behalf of one result.
NoDuplicates ==
    /\ IsInjective(m_pendingTasks)
    /\ \A f, g \in m_inFlightTasks : f.task = g.task => f = g
    /\ Waiting \cap AtWorkers = {}
    /\ InHand \cap (Waiting \cup AtWorkers) = {}

\* No chunk is lost and none is counted twice: the chunks of a session that
\* GetStatus does not report as done are exactly the outstanding ones, and
\* every outstanding chunk belongs to a published session.
ChunkAccounting ==
    /\ \A task \in Live : task.search_id \in DOMAIN m_sessions
    /\ \A s \in DOMAIN m_sessions :
          m_sessions[s].chunks_done + Cardinality(Outstanding(s))
            = m_sessions[s].chunks_total

\* The free slots of a registered Worker are its threads less its tasks in
\* flight, as uint64_t arithmetic computes it, although the counter is read in
\* one critical section of AssignIdleWorkers and used in others.
SlotAccounting ==
    \A c \in DOMAIN m_workersFreeSlots :
        m_workersFreeSlots[c]
          = (Threads[c] - Cardinality(InFlightAt(c))) % SlotModulus

\* m_idleWorkersIds "must be kept in sync with m_idleWorkers": an id in the set
\* is in the queue exactly once, and only Workers that were unregistered while
\* they waited are in the queue without being in the set.
IdleInSync ==
    /\ m_idleWorkersIds \subseteq Range(m_idleWorkers)
    /\ IsInjective(m_idleWorkers)
    /\ \A c \in Range(m_idleWorkers) \ m_idleWorkersIds : ~Registered(c)

\* No wakeup of an idle Worker is lost: when every thread has come to rest and
\* chunks are still waiting, every thread of every registered Worker is busy.
AtRest == \A t \in Thread : pc[t] = Rest(t)
NoStrandedWork ==
    AtRest /\ m_pendingTasks # <<>> =>
        \A c \in DOMAIN m_workersFreeSlots :
            Cardinality(InFlightAt(c)) >= Threads[c]

\* An answer is taken for the task it answers, however late it comes and whatever
\* was sent, lost, reclaimed or sent again in the meantime: ids are not reused,
\* and the batch was cut by the limit of the very session it is added to.
AnswersMatch ==
    /\ \A f \in m_inFlightTasks : f.task_id <= m_nextTaskId
    /\ \A c \in Client : \A g \in Range(sent[c]) :
          /\ g.task_id <= m_nextTaskId
          /\ \A f \in m_inFlightTasks : f.task_id = g.task_id => f.task = g.task
    /\ \A msg \in Range(m_qMessagesIn) : msg.id = "Worker_TaskDone" =>
          /\ msg.task_id <= m_nextTaskId
          /\ \A f \in Answered(msg) :
                msg.lines = Min2(msg.total_matches, f.task.max_results)
    /\ pc[Main] \in {"next", "aggregate"} =>
          job.lines = Min2(job.total_matches, job.task.max_results)
    /\ \A task \in Live :
          task.max_results = m_sessions[task.search_id].max_results

\* The limit each Worker applies to its batch and the limit the Master applies
\* to the session agree: the lines accepted are the matches, up to maxResults.
LinesExact ==
    \A s \in DOMAIN m_sessions :
        m_sessions[s].line_count
          = Min2(m_sessions[s].total_matches, m_sessions[s].max_results)

\* A client that reads "Done" finds every line it is told of in the result file:
\* the chunk is counted only after its lines are written.  (SearchSession says of
\* line_count that it is the "number of matched lines written to disk"; that
\* holds while the file can be opened, ~DiskFails.)
DoneMeansOnDisk ==
    \A s \in DOMAIN m_sessions :
        GetStatus(s) = "Done" => disk[s] = m_sessions[s].line_count

\* Every search that was accepted is reported Done in the end ("zero lost
\* work"), if some Worker keeps its connection.
SearchCompletes ==
    \A s \in SearchId :
        (s \in DOMAIN m_sessions) ~> (GetStatus(s) = "Done")

\* StartSearch returns: its AssignIdleWorkers loop, which other threads refill
\* the deque and the idle queue for, comes to an end.
StartSearchReturns ==
    \A t \in Http : (pc[t] = "scan") ~> (pc[t] = "free")

\* The result file never holds a line the status does not tell of, and never
\* more than maxResults lines, even when it could not be opened at times.
FileWithinLimit ==
    \A s \in DOMAIN m_sessions :
        disk[s] <= m_sessions[s].line_count
          /\ m_sessions[s].line_count <= m_sessions[s].max_results

\* A client that has read "Done" reads the same status ever after: no late or
\* repeated Worker_TaskDone and no requeued chunk touches a finished session.
DoneIsFinal ==
    [][\A s \in DOMAIN m_sessions :
          GetStatus(s) = "Done" => m_sessions'[s] = m_sessions[s]]_vars

\* The Master implements ISearchService as SearchService.tla states it: whatever
\* the threads and the Workers do, each chunk's result is taken in once, while
\* the search is Running, and counted before the next one is taken in.
Service ==
    INSTANCE SearchService WITH
        session <- m_sessions,
        counting <- IF pc[Main] \in {"write", "count"}
                    THEN job.task.search_id ELSE None,
        Chunks <- 0 .. MaxChunks, Errors <- 0 .. MaxScanErrors,
        Matches <- 0 .. MaxMatches
ImplementsSearchService == Service!Spec
=============================================================================
