----------------------------- MODULE Connection -----------------------------
(***************************************************************************)
(* The two connection objects at the ends of one TCP connection            *)
(* (net_connection.hpp): the handlers that Send and Disconnect post, the   *)
(* chain of asynchronous writes that empties m_qMessagesOut, and the chain *)
(* of asynchronous reads that fills m_msgTemporaryIn, a header and, if it  *)
(* announces one, a body at a time.  All handlers of one end run on one    *)
(* thread; Send may be called by any.                                      *)
(*                                                                         *)
(* async_read and async_write move whole headers and bodies or fail, so    *)
(* the stream between the ends is a sequence of headers and bodies.  The   *)
(* link may break, and either end may be closed: data on the way may then  *)
(* still arrive or not, and a write may fail or vanish.                    *)
(*                                                                         *)
(* The k-th message an end sends is [id |-> k, body |-> k], where the body *)
(* stands for its bytes, or [id |-> k, body |-> Empty].                    *)
(***************************************************************************)
EXTENDS Integers, Sequences, FiniteSets

CONSTANTS
    Server, Client,     \* the ends, by owner type
    Bodyless,           \* the ends that also send messages without a body
    MaxSends            \* MaxSends[p]: bound on the messages end p sends

End == {Server, Client}
Other(p) == IF p = Server THEN Client ELSE Server

ASSUME ConnectionAssumption ==
    /\ Server # Client
    /\ Bodyless \subseteq End
    /\ MaxSends \in [End -> Nat]

Empty == 0
Message == [id : Nat, body : Nat]
Close == [id |-> 0, body |-> Empty]

VARIABLES
    sent,               \* the messages given to Send at each end
    posted,             \* handlers posted to the end's io_context: a message, or Close
    m_qMessagesOut,
    writing,            \* the asynchronous writes under way: the parts they write
    stream,             \* the parts written at each end and not read at the other
    reading,            \* the asynchronous read under way
    m_msgTemporaryIn,
    m_qMessagesIn,      \* the messages handed to the code above
    m_socket,           \* "new", "open" or "closed"
    link                \* is the network between the ends up?

outVars == <<posted, m_qMessagesOut, writing>>
inVars == <<reading, m_msgTemporaryIn, m_qMessagesIn>>
vars == <<sent, outVars, stream, inVars, m_socket, link>>

Part == [kind : {"header", "body"}, of : Message]
Header(m) == [kind |-> "header", of |-> m]
Body(m) == [kind |-> "body", of |-> m]

Init ==
    /\ sent = [p \in End |-> <<>>]
    /\ posted = [p \in End |-> <<>>]
    /\ m_qMessagesOut = [p \in End |-> <<>>]
    /\ writing = [p \in End |-> <<>>]
    /\ stream = [p \in End |-> <<>>]
    /\ reading = [p \in End |-> "none"]
    /\ m_msgTemporaryIn = [p \in End |-> Close]
    /\ m_qMessagesIn = [p \in End |-> <<>>]
    /\ m_socket = [p \in End |-> "new"]
    /\ link = "up"

-----------------------------------------------------------------------------
\* ConnectToClient, and ConnectToServer when it succeeds: the read chain starts.
Connect(p) ==
    /\ m_socket[p] = "new"
    /\ m_socket' = [m_socket EXCEPT ![p] = "open"]
    /\ reading' = [reading EXCEPT ![p] = "header"]
    /\ UNCHANGED <<sent, outVars, stream, m_msgTemporaryIn, m_qMessagesIn, link>>

\* ConnectToServer fails.
ConnectFails ==
    /\ m_socket[Client] = "new"
    /\ m_socket' = [m_socket EXCEPT ![Client] = "closed"]
    /\ UNCHANGED <<sent, outVars, stream, inVars, link>>

\* Send, from any thread: the rest of it is posted.
Send(p) ==
    /\ m_socket[p] # "new"
    /\ Len(sent[p]) < MaxSends[p]
    /\ LET k == Len(sent[p]) + 1
       IN  \E b \in {k} \cup (IF p \in Bodyless THEN {Empty} ELSE {}) :
              /\ sent' = [sent EXCEPT ![p] = Append(@, [id |-> k, body |-> b])]
              /\ posted' =
                   [posted EXCEPT ![p] = Append(@, [id |-> k, body |-> b])]
    /\ UNCHANGED <<m_qMessagesOut, writing, stream, inVars, m_socket, link>>

\* Disconnect, which only the client calls: the close is posted.
Disconnect ==
    /\ m_socket[Client] = "open"
    /\ Close \notin {posted[Client][i] : i \in DOMAIN posted[Client]}
    /\ posted' = [posted EXCEPT ![Client] = Append(@, Close)]
    /\ UNCHANGED <<sent, m_qMessagesOut, writing, stream, inVars, m_socket, link>>

RunClose(p) ==
    /\ posted[p] # <<>> /\ Head(posted[p]) = Close
    /\ posted' = [posted EXCEPT ![p] = Tail(@)]
    /\ m_socket' = [m_socket EXCEPT ![p] = "closed"]
    /\ UNCHANGED <<sent, m_qMessagesOut, writing, stream, inVars, link>>

RunSend_AlwaysStarts(p) ==
    /\ posted[p] # <<>> /\ Head(posted[p]) # Close
    /\ posted' = [posted EXCEPT ![p] = Tail(@)]
    /\ m_qMessagesOut' = [m_qMessagesOut EXCEPT ![p] = Append(@, Head(posted[p]))]
    /\ writing' = [writing EXCEPT ![p] = Append(@, Header(m_qMessagesOut'[p][1]))]
    /\ UNCHANGED <<sent, stream, inVars, m_socket, link>>

\* The posted part of Send: only a message that finds the queue empty starts a
\* chain of writes.
RunSend(p) ==
    /\ posted[p] # <<>> /\ Head(posted[p]) # Close
    /\ posted' = [posted EXCEPT ![p] = Tail(@)]
    /\ m_qMessagesOut' = [m_qMessagesOut EXCEPT ![p] = Append(@, Head(posted[p]))]
    /\ writing' = IF m_qMessagesOut[p] = <<>>
                  THEN [writing EXCEPT ![p] = Append(@, Header(Head(posted[p])))]
                  ELSE writing
    /\ UNCHANGED <<sent, stream, inVars, m_socket, link>>

NextWrite_Stops(p, part) ==
    IF part.kind = "header" /\ Head(m_qMessagesOut[p]).body # Empty
    THEN /\ writing' = [writing EXCEPT ![p] =
                          Append(Tail(@), Body(Head(m_qMessagesOut[p])))]
         /\ UNCHANGED m_qMessagesOut
    ELSE /\ m_qMessagesOut' = [m_qMessagesOut EXCEPT ![p] = Tail(@)]
         /\ writing' = [writing EXCEPT ![p] = Tail(@)]

\* The completion handlers of WriteHeader and WriteBody: the body of the front
\* message, or the header of the next message, if there is one.
NextWrite(p, part) ==
    IF part.kind = "header" /\ Head(m_qMessagesOut[p]).body # Empty
    THEN /\ writing' = [writing EXCEPT ![p] =
                          Append(Tail(@), Body(Head(m_qMessagesOut[p])))]
         /\ UNCHANGED m_qMessagesOut
    ELSE LET rest == Tail(m_qMessagesOut[p])
         IN  /\ m_qMessagesOut' = [m_qMessagesOut EXCEPT ![p] = rest]
             /\ writing' = [writing EXCEPT ![p] =
                              IF rest = <<>> THEN Tail(@)
                              ELSE Append(Tail(@), Header(Head(rest)))]

\* A write completes.  Written to a broken link, it is lost.
Write(p) ==
    /\ writing[p] # <<>> /\ m_socket[p] = "open"
    /\ stream' = IF link = "up"
                 THEN [stream EXCEPT ![p] = Append(@, Head(writing[p]))] ELSE stream
    /\ NextWrite(p, Head(writing[p]))
    /\ UNCHANGED <<sent, posted, inVars, m_socket, link>>

\* A write fails, and the chain ends with its message still in the queue.  A
\* failed WriteHeader closes the socket, a failed WriteBody does not.
WriteFails(p) ==
    /\ writing[p] # <<>>
    /\ m_socket[p] = "closed" \/ m_socket[Other(p)] = "closed" \/ link = "down"
    /\ writing' = [writing EXCEPT ![p] = Tail(@)]
    /\ m_socket' = IF Head(writing[p]).kind = "header"
                   THEN [m_socket EXCEPT ![p] = "closed"] ELSE m_socket
    /\ UNCHANGED <<sent, posted, m_qMessagesOut, stream, inVars, link>>

AddToIncomingMessageQueue_Copies(p, m) ==
    /\ m_qMessagesIn' = [m_qMessagesIn EXCEPT ![p] = Append(@, m)]
    /\ m_msgTemporaryIn' = [m_msgTemporaryIn EXCEPT ![p] = m]
    /\ reading' = [reading EXCEPT ![p] =
                     IF m_socket[p] = "open" THEN "header" ELSE "none"]

AddToIncomingMessageQueue_Twice(p, m) ==
    /\ m_qMessagesIn' = [m_qMessagesIn EXCEPT ![p] = @ \o <<m, m>>]
    /\ m_msgTemporaryIn' = [m_msgTemporaryIn EXCEPT ![p] = m]
    /\ reading' = [reading EXCEPT ![p] =
                     IF m_socket[p] = "open" THEN "header" ELSE "none"]

\* AddToIncomingMessageQueue with m in m_msgTemporaryIn.  The server queues a
\* copy; the client's callback takes the body out of m_msgTemporaryIn itself.
\* Then the next ReadHeader, which on a closed socket comes to nothing.
AddToIncomingMessageQueue(p, m) ==
    /\ m_qMessagesIn' = [m_qMessagesIn EXCEPT ![p] = Append(@, m)]
    /\ m_msgTemporaryIn' =
         [m_msgTemporaryIn EXCEPT ![p] =
            IF p = Server THEN m ELSE [id |-> m.id, body |-> Empty]]
    /\ reading' = [reading EXCEPT ![p] =
                     IF m_socket[p] = "open" THEN "header" ELSE "none"]

\* ReadHeader completes.  A message without a body is complete, with whatever
\* body m_msgTemporaryIn holds.
ReadHeader(p) ==
    /\ reading[p] = "header" /\ stream[Other(p)] # <<>>
    /\ stream' = [stream EXCEPT ![Other(p)] = Tail(@)]
    /\ LET m == Head(stream[Other(p)]).of
           body == m_msgTemporaryIn[p].body
       IN  IF m.body = Empty
           THEN AddToIncomingMessageQueue(p, [id |-> m.id, body |-> body])
           ELSE /\ m_msgTemporaryIn' =
                     [m_msgTemporaryIn EXCEPT ![p] = [id |-> m.id, body |-> body]]
                /\ reading' = [reading EXCEPT ![p] =
                                 IF m_socket[p] = "open" THEN "body" ELSE "none"]
                /\ UNCHANGED m_qMessagesIn
    /\ UNCHANGED <<sent, outVars, m_socket, link>>

\* ReadBody completes.
ReadBody(p) ==
    /\ reading[p] = "body" /\ stream[Other(p)] # <<>>
    /\ stream' = [stream EXCEPT ![Other(p)] = Tail(@)]
    /\ AddToIncomingMessageQueue(p, [id |-> m_msgTemporaryIn[p].id,
                                     body |-> Head(stream[Other(p)]).of.body])
    /\ UNCHANGED <<sent, outVars, m_socket, link>>


\* The read fails: either end is closed or the link is down.
ReadFails(p) ==
    /\ reading[p] # "none"
    /\ m_socket[p] = "closed" \/ m_socket[Other(p)] = "closed" \/ link = "down"
    /\ reading' = [reading EXCEPT ![p] = "none"]
    /\ m_socket' = [m_socket EXCEPT ![p] = "closed"]
    /\ UNCHANGED <<sent, outVars, stream, m_msgTemporaryIn, m_qMessagesIn, link>>

\* The network breaks.
Break ==
    /\ link = "up" /\ link' = "down"
    /\ UNCHANGED <<sent, outVars, stream, inVars, m_socket>>

-----------------------------------------------------------------------------
Handlers(p) ==
    \/ RunClose(p) \/ RunSend(p) \/ Write(p) \/ WriteFails(p)
    \/ ReadHeader(p) \/ ReadBody(p) \/ ReadFails(p)

Next ==
    \/ \E p \in End : Connect(p) \/ Send(p) \/ Handlers(p)
    \/ ConnectFails \/ Disconnect \/ Break

Spec == Init /\ [][Next]_vars

(***************************************************************************)
(* Fairness.  The thread of each end runs every handler that is ready:     *)
(* posted ones, completed writes and completed reads.  Nobody need send,   *)
(* disconnect or break the link.                                           *)
(***************************************************************************)
Fairness ==
    \A p \in End :
        /\ WF_vars(RunClose(p) \/ RunSend(p))
        /\ WF_vars(Write(p) \/ WriteFails(p))
        /\ WF_vars(ReadHeader(p) \/ ReadBody(p) \/ ReadFails(p))
        /\ WF_vars(Connect(p))

FairSpec == Spec /\ Fairness

-----------------------------------------------------------------------------
(***************************************************************************)
(* Properties.                                                             *)
(***************************************************************************)

\* The types of both ends; an open connection always has a read under way, which
\* is how it would notice a loss.
TypeOK ==
    /\ sent \in [End -> Seq(Message)] /\ posted \in [End -> Seq(Message)]
    /\ m_qMessagesOut \in [End -> Seq(Message)]
    /\ writing \in [End -> Seq(Part)] /\ stream \in [End -> Seq(Part)]
    /\ reading \in [End -> {"none", "header", "body"}]
    /\ m_msgTemporaryIn \in [End -> Message]
    /\ m_qMessagesIn \in [End -> Seq(Message)]
    /\ m_socket \in [End -> {"new", "open", "closed"}]
    /\ link \in {"up", "down"}
    /\ \A p \in End : m_socket[p] = "open" => reading[p] # "none"

\* At most one asynchronous write is under way on a socket, and it writes the
\* front of m_qMessagesOut: asio leaves two at once undefined, and a pop would
\* free the buffer of the other.
OneWrite ==
    \A p \in End :
        /\ Len(writing[p]) <= 1
        /\ writing[p] # <<>> => /\ m_qMessagesOut[p] # <<>>
                                /\ Head(writing[p]).of = Head(m_qMessagesOut[p])

\* A message waits in m_qMessagesOut without a write under way only where the
\* connection is lost: no Send finds the chain ended but the queue not empty.
NoStalledQueue ==
    \A p \in End :
        writing[p] = <<>> /\ m_qMessagesOut[p] # <<>> =>
            m_socket[p] = "closed" \/ m_socket[Other(p)] = "closed" \/ link = "down"

\* Each direction is a Channel: messages arrive whole, in order and once.
ToServer == INSTANCE Channel WITH
    sent <- sent[Client], received <- m_qMessagesIn[Server]
ToClient == INSTANCE Channel WITH
    sent <- sent[Server], received <- m_qMessagesIn[Client]
ImplementsToServer == ToServer!Spec
ImplementsToClient == ToClient!Spec

\* What is sent arrives, unless the connection is lost.
Lost == link = "down" \/ \E p \in End : m_socket[p] = "closed"
Delivered ==
    \A p \in End : \A k \in 1 .. MaxSends[p] :
        (Len(sent[p]) >= k) ~> (Lost \/ Len(m_qMessagesIn[Other(p)]) >= k)

=============================================================================
