---------------------------- MODULE WorkerClient ----------------------------
(***************************************************************************)
(* A Worker process: main.cpp, WorkerClient and the client_interface it    *)
(* inherits from, around the ThreadPool of the module it extends.  Three   *)
(* kinds of thread meet here:                                              *)
(*   - main, which connects, polls IsConnected and ShouldDisconnect and    *)
(*     then destroys the WorkerClient: first its member m_threadPool, then *)
(*     its base client_interface, whose destructor calls Disconnect;       *)
(*   - Asio, thrContext, which runs one handler at a time: the result of   *)
(*     the connect, the handlers that Send and Disconnect post, and        *)
(*     OnMessage, which enqueues the task;                                 *)
(*   - the pool threads, which search and call Send: IsConnected() and     *)
(*     m_connection->Send() are two steps, with no lock around them.       *)
(* The Master is the environment.  It sends tasks after it has heard the   *)
(* Worker's hello and may close the connection at any moment;              *)
(* Server_JobFinished ("All work done") comes after the answers to all     *)
(* tasks, and nothing comes after it.                                      *)
(***************************************************************************)
EXTENDS ThreadPool

CONSTANTS
    Asio,       \* the thread thrContext
    MaxPolls    \* 10 in main.cpp: polls of IsConnected before main gives up

ASSUME WorkerAssumption ==
    Caller = {Asio} /\ MaxPolls \in Nat

VARIABLES
    main, polls,        \* where main is; connAttempts
    m_connection,       \* is the unique_ptr m_connection non-null?
    socket,             \* the socket of the connection object
    context,            \* m_context: "idle", "running", "stopped", "joined"
    posted,             \* the handlers posted to m_context
    arrived,            \* the message whose read is complete, OnMessage pending
    m_shouldDisconnect,
    sending,            \* the pool threads between IsConnected() and ->Send()
    answered,           \* what has been written to the socket, in order
    failedWrite         \* the write that failed: "none", "header" or "body"

clientVars == <<main, polls, m_connection, socket, context, posted, arrived,
                m_shouldDisconnect, sending, answered, failedWrite>>
vars == <<poolVars, clientVars>>

\* What a posted handler does: it sends Worker_Hello, or the Worker_TaskDone of
\* the task of that number, or closes the socket.
Hello == 0
Close == -1

WorkerInit ==
    /\ PoolInit
    /\ main = "connect" /\ polls = 0
    /\ m_connection = FALSE /\ socket = "none" /\ context = "idle"
    /\ posted = <<>> /\ arrived = "nothing" /\ m_shouldDisconnect = FALSE
    /\ sending = {} /\ answered = <<>> /\ failedWrite = "none"

\* is_open() is true as soon as async_connect has opened the socket, long before
\* the connection is established.  The host has one address; with several,
\* async_connect would close and open the socket between them.
IsConnected == m_connection /\ socket \in {"opening", "open"}

-----------------------------------------------------------------------------
(***************************************************************************)
(* main.                                                                   *)
(***************************************************************************)

\* Connect: the host is resolved, the connection created, thrContext started.
Connect ==
    /\ main = "connect" /\ main' = "poll"
    /\ m_connection' = TRUE /\ socket' = "opening" /\ context' = "running"
    /\ UNCHANGED <<poolVars, polls, posted, arrived, m_shouldDisconnect, sending,
                   answered, failedWrite>>

\* resolve throws; Connect returns false, which main does not look at.
ResolveFails ==
    /\ main = "connect" /\ main' = "poll"
    /\ UNCHANGED <<poolVars, polls, m_connection, socket, context, posted, arrived,
                   m_shouldDisconnect, sending, answered, failedWrite>>

\* "Wait for connection to establish".
Poll ==
    /\ main = "poll"
    /\ IF ~IsConnected /\ polls < MaxPolls
       THEN polls' = polls + 1 /\ UNCHANGED main
       ELSE main' = "loop" /\ UNCHANGED polls
    /\ UNCHANGED <<poolVars, m_connection, socket, context, posted, arrived,
                   m_shouldDisconnect, sending, answered, failedWrite>>

LeaveLoop_AtOnce ==
    /\ main = "loop" /\ main' = "destroy"
    /\ UNCHANGED <<poolVars, polls, m_connection, socket, context, posted, arrived,
                   m_shouldDisconnect, sending, answered, failedWrite>>

LeaveLoop_OnlyFlag ==
    /\ main = "loop" /\ m_shouldDisconnect
    /\ main' = IF IsConnected THEN "close" ELSE "destroy"
    /\ UNCHANGED <<poolVars, polls, m_connection, socket, context, posted, arrived,
                   m_shouldDisconnect, sending, answered, failedWrite>>

\* The main loop ends; main.cpp sleeps and looks again otherwise.
LeaveLoop ==
    /\ main = "loop"
    /\ ~IsConnected \/ m_shouldDisconnect
    /\ main' = IF IsConnected THEN "close" ELSE "destroy"
    /\ UNCHANGED <<poolVars, polls, m_connection, socket, context, posted, arrived,
                   m_shouldDisconnect, sending, answered, failedWrite>>

\* client_interface::Disconnect, called by main and by the destructor of the
\* base: post the close of the socket; stop the context; join the thread, which
\* finishes the handler it is in, and release m_connection.
PostClose ==
    /\ main = "close" /\ main' = "stop"
    /\ posted' = IF IsConnected THEN Append(posted, Close) ELSE posted
    /\ UNCHANGED <<poolVars, polls, m_connection, socket, context, arrived,
                   m_shouldDisconnect, sending, answered, failedWrite>>

StopContext ==
    /\ main = "stop" /\ main' = "join"
    /\ context' = IF context = "running" THEN "stopped" ELSE context
    /\ UNCHANGED <<poolVars, polls, m_connection, socket, posted, arrived,
                   m_shouldDisconnect, sending, answered, failedWrite>>

JoinContext ==
    /\ main = "join"
    /\ notifying = {}
    /\ context' = IF context = "stopped" THEN "joined" ELSE context
    /\ m_connection' = FALSE
    /\ main' = IF dtor = "gone" THEN "end" ELSE "destroy"
    /\ UNCHANGED <<poolVars, polls, socket, posted, arrived, m_shouldDisconnect,
                   sending, answered, failedWrite>>

DestroyPool_AfterBase ==
    /\ main = "destroy"
    /\ \/ dtor = "alive" /\ m_connection /\ main' = "close" /\ UNCHANGED poolVars
       \/ ~m_connection /\ Destructor /\ UNCHANGED main
       \/ ~m_connection /\ dtor = "gone" /\ main' = "end" /\ UNCHANGED poolVars
    /\ UNCHANGED <<polls, m_connection, socket, context, posted, arrived,
                   m_shouldDisconnect, sending, answered, failedWrite>>

\* ~WorkerClient: m_threadPool is destroyed step by step, then the base.
DestroyPool ==
    /\ main = "destroy"
    /\ \/ Destructor /\ UNCHANGED main
       \/ dtor = "gone" /\ main' = "close" /\ UNCHANGED poolVars
    /\ UNCHANGED <<polls, m_connection, socket, context, posted, arrived,
                   m_shouldDisconnect, sending, answered, failedWrite>>

(***************************************************************************)
(* The asio thread.                                                        *)
(***************************************************************************)

\* thrContext is between two handlers.
Handling == context = "running" /\ notifying = {}

\* The socket is open and the chain of writes has not broken off.
CanWrite == socket = "open" /\ failedWrite = "none"

\* ConnectToServer's handler: ReadHeader, then OnConnectionResult(true), SendHello.
Connected ==
    /\ Handling /\ socket = "opening"
    /\ socket' = "open"
    /\ posted' = IF m_connection THEN Append(posted, Hello) ELSE posted
    /\ UNCHANGED <<poolVars, main, polls, m_connection, context, arrived,
                   m_shouldDisconnect, sending, answered, failedWrite>>

\* ConnectToServer's handler, with an error: the connection is refused.
ConnectFails ==
    /\ Handling /\ socket = "opening"
    /\ socket' = "closed"
    /\ UNCHANGED <<poolVars, main, polls, m_connection, context, posted, arrived,
                   m_shouldDisconnect, sending, answered, failedWrite>>

\* The read that is always outstanding fails because the Master has gone.
ReadFails ==
    /\ Handling /\ socket = "open" /\ arrived = "nothing"
    /\ socket' = "closed"
    /\ UNCHANGED <<poolVars, main, polls, m_connection, context, posted, arrived,
                   m_shouldDisconnect, sending, answered, failedWrite>>

\* A posted handler runs: the socket is closed, or a message is queued and goes
\* out whole, unless the connection is broken.  A failed WriteHeader closes the
\* socket, a failed WriteBody does not.  Either leaves its message in
\* m_qMessagesOut, so that later ones are queued behind it and never written.
RunPosted ==
    /\ Handling /\ posted # <<>>
    /\ posted' = Tail(posted)
    /\ \/ /\ Head(posted) = Close
          /\ socket' = "closed" /\ UNCHANGED <<answered, failedWrite>>
       \/ /\ Head(posted) # Close /\ CanWrite
          /\ answered' = Append(answered, Head(posted))
          /\ UNCHANGED <<socket, failedWrite>>
       \/ /\ Head(posted) # Close /\ CanWrite
          /\ failedWrite' = "header" /\ socket' = "closed" /\ UNCHANGED answered
       \/ /\ Head(posted) # Close /\ CanWrite
          /\ failedWrite' = "body" /\ UNCHANGED <<socket, answered>>
       \/ /\ Head(posted) # Close /\ ~CanWrite
          /\ UNCHANGED <<socket, answered, failedWrite>>
    /\ UNCHANGED <<poolVars, main, polls, m_connection, context, arrived,
                   m_shouldDisconnect, sending>>

\* Everything the Worker was sent has been answered.
AllAnswered == \A i \in 1 .. pushed : \E k \in DOMAIN answered : answered[k] = i

\* A message of the Master has been read; its handler is not called yet.
Arrive(msg) ==
    /\ context = "running" /\ socket = "open" /\ arrived = "nothing"
    /\ answered # <<>> /\ ~m_shouldDisconnect
    /\ IF msg = "JobFinished" THEN AllAnswered ELSE pushed < MaxTasks
    /\ arrived' = msg
    /\ UNCHANGED <<poolVars, main, polls, m_connection, socket, context, posted,
                   m_shouldDisconnect, sending, answered, failedWrite>>

\* OnMessage, also when the socket was closed after the message was read.
OnMessage ==
    /\ Handling /\ arrived # "nothing"
    /\ arrived' = "nothing"
    /\ \/ arrived = "SearchTask" /\ Push(Asio) /\ UNCHANGED m_shouldDisconnect
       \/ /\ arrived = "JobFinished"
          /\ m_shouldDisconnect' = TRUE /\ UNCHANGED poolVars
    /\ UNCHANGED <<main, polls, m_connection, socket, context, posted, sending,
                   answered, failedWrite>>

(***************************************************************************)
(* The pool threads.                                                       *)
(***************************************************************************)

\* The search is over and SendTaskDone calls Send, which looks at IsConnected().
CheckConnected(t) ==
    /\ pc[t] = "run" /\ t \notin sending /\ IsConnected
    /\ sending' = sending \cup {t}
    /\ UNCHANGED <<poolVars, main, polls, m_connection, socket, context, posted,
                   arrived, m_shouldDisconnect, answered, failedWrite>>

\* Not connected: the answer is dropped.
DropAnswer(t) ==
    /\ t \notin sending /\ ~IsConnected /\ Finish(t)
    /\ UNCHANGED clientVars

Send_Twice(t) ==
    /\ t \in sending /\ m_connection /\ Finish(t)
    /\ sending' = sending \ {t}
    /\ posted' = posted \o <<task[t], task[t]>>
    /\ UNCHANGED <<main, polls, m_connection, socket, context, arrived,
                   m_shouldDisconnect, answered, failedWrite>>

\* m_connection->Send(): the handler is posted and the task returns.
Send(t) ==
    /\ t \in sending /\ m_connection /\ Finish(t)
    /\ sending' = sending \ {t}
    /\ posted' = Append(posted, task[t])
    /\ UNCHANGED <<main, polls, m_connection, socket, context, arrived,
                   m_shouldDisconnect, answered, failedWrite>>

-----------------------------------------------------------------------------
Main ==
    \/ Connect \/ ResolveFails \/ Poll \/ LeaveLoop
    \/ PostClose \/ StopContext \/ JoinContext \/ DestroyPool
AsioHandlers ==
    Connected \/ RunPosted \/ OnMessage \/ (NotifyOne(Asio) /\ UNCHANGED clientVars)
PoolThread(t) ==
    \/ Loop(t) /\ UNCHANGED clientVars
    \/ CheckConnected(t) \/ DropAnswer(t) \/ Send(t)
Master ==
    \/ ConnectFails \/ ReadFails
    \/ \E msg \in {"SearchTask", "JobFinished"} : Arrive(msg)

WorkerNext ==
    \/ Main \/ AsioHandlers \/ Master
    \/ \E t \in Pool : PoolThread(t) \/ (Wakeup(t) /\ UNCHANGED clientVars)

Spec == WorkerInit /\ [][WorkerNext]_vars

(***************************************************************************)
(* Fairness.  main, thrContext and the pool threads are OS threads; a      *)
(* search is finite.  The Master need do nothing.  When a write fails, the *)
(* connection is gone, and so the read that is outstanding fails as well.  *)
(***************************************************************************)
Fairness ==
    /\ WF_vars(Main) /\ WF_vars(AsioHandlers)
    /\ \A t \in Pool : WF_vars(PoolThread(t))
    /\ WF_vars(failedWrite = "body" /\ ReadFails)

FairSpec == Spec /\ Fairness

-----------------------------------------------------------------------------
(***************************************************************************)
(* Properties.                                                             *)
(***************************************************************************)

\* The variables of the Worker; only a thread that runs a task is sending.
WorkerTypeOK ==
    /\ PoolTypeOK
    /\ main \in {"connect", "poll", "loop", "close", "stop", "join", "destroy",
                 "end"}
    /\ polls \in 0 .. MaxPolls
    /\ m_connection \in BOOLEAN /\ m_shouldDisconnect \in BOOLEAN
    /\ failedWrite \in {"none", "header", "body"}
    /\ socket \in {"none", "opening", "open", "closed"}
    /\ context \in {"idle", "running", "stopped", "joined"}
    /\ posted \in Seq({Close} \cup Nat)
    /\ answered \in Seq(Nat)
    /\ arrived \in {"nothing", "SearchTask", "JobFinished"}
    /\ sending \subseteq At("run")

\* A pool thread that has seen IsConnected() does not find m_connection released
\* when it calls Send, although nothing is locked in between: ~WorkerClient joins
\* the pool before the base releases the connection, and Server_JobFinished
\* comes when no answer is due.
NoNullConnection == \A t \in sending : m_connection

\* OnMessage does not call Enqueue of a pool that is destroyed, and no Enqueue is
\* under way when it is, although thrContext runs until the base is destroyed.
\* A message that was read before a failing WriteHeader closed the socket escapes
\* this.
PoolOutlivesMessages ==
    dtor = "gone" /\ failedWrite # "header" =>
        notifying = {} /\ (context = "running" => arrived # "SearchTask")

\* Worker_TaskDone is sent once for every task that has been searched, as long as
\* the connection is open and no write has failed, and never twice.
Outgoing == answered \o posted
AnswersExact ==
    /\ \A k, l \in DOMAIN Outgoing : Outgoing[k] = Outgoing[l] => k = l
    /\ socket # "closed" /\ failedWrite = "none" =>
          \A i \in finished : \E k \in DOMAIN Outgoing : Outgoing[k] = i

\* A Worker that is not connected, or no longer, ends: the pool is drained, all
\* threads are joined, the process returns.
WorkerEnds ==
    /\ (main # "connect" /\ ~IsConnected) ~> (main = "end")
    /\ m_shouldDisconnect ~> (main = "end")

\* Every task received is answered, unless the connection is lost.
TaskAnswered ==
    \A i \in 1 .. MaxTasks :
        (i <= pushed) ~> (socket = "closed"
                            \/ \E k \in DOMAIN answered : answered[k] = i)
=============================================================================
