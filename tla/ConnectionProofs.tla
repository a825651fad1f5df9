-------------------------- MODULE ConnectionProofs --------------------------
(***************************************************************************)
(* Theorems about Connection, for any number of messages in both           *)
(* directions, with or without bodies.                                     *)
(***************************************************************************)
EXTENDS Connection, SequenceTheorems, TLAPS

\* The connection of end p is lost, whether or not p has noticed.
LostAt(p) == m_socket[p] = "closed" \/ m_socket[Other(p)] = "closed" \/ link = "down"

WriteInv == TypeOK /\ OneWrite /\ NoStalledQueue

LEMMA Ends == \A p \in End : Other(p) \in End
  BY DEF End, Other

\* The parts of a message, and what can be told from them.
LEMMA Parts ==
    /\ Close \in Message
    /\ \A m \in Message : /\ Header(m) \in Part /\ Header(m).of = m
                          /\ Body(m) \in Part /\ Body(m).of = m
    /\ \A x \in Part : x.of \in Message
    /\ \A i, b \in Nat : [id |-> i, body |-> b] \in Message
    /\ \A m \in Message : m.id \in Nat /\ m.body \in Nat
  BY DEF Close, Message, Part, Header, Body, Empty

\* Sequences of one element more or less.
LEMMA Appended ==
    ASSUME NEW S, NEW s \in Seq(S), NEW e \in S
    PROVE  /\ Append(s, e) \in Seq(S) /\ Append(s, e) # <<>>
           /\ Len(Append(s, e)) = Len(s) + 1
           /\ Head(Append(s, e)) = IF s = <<>> THEN e ELSE Head(s)
<1>1. /\ Append(s, e) \in Seq(S) /\ Append(s, e) # <<>>
      /\ Len(Append(s, e)) = Len(s) + 1
  BY AppendProperties
<1>2. CASE s = <<>>
  BY <1>1, <1>2
<1>3. CASE s # <<>>
  <2>1. Len(s) \in Nat /\ Len(s) > 0
    BY <1>3, EmptySeq, LenProperties
  <2>2. Append(s, e)[1] = s[1]
    BY <2>1, AppendProperties
  <2> QED
    BY <1>1, <1>3, <2>2
<1> QED
  BY <1>1, <1>2, <1>3

LEMMA Popped ==
    ASSUME NEW S, NEW s \in Seq(S), s # <<>>
    PROVE  /\ Head(s) \in S /\ Tail(s) \in Seq(S)
           /\ Len(Tail(s)) = Len(s) - 1 /\ Len(s) \in Nat
           /\ Len(s) <= 1 => Len(s) = 1 /\ Tail(s) = <<>>
<1>1. Len(s) \in Nat /\ Len(s) # 0
  BY EmptySeq, LenProperties
<1>2. Head(s) \in S /\ Tail(s) \in Seq(S) /\ Len(Tail(s)) = Len(s) - 1
  BY <1>1
<1>3. Len(Tail(s)) = 0 => Tail(s) = <<>>
  BY <1>2, EmptySeq
<1> QED
  BY <1>1, <1>2, <1>3

LEMMA WriteInitInv == Init => WriteInv
<1> SUFFICES ASSUME Init PROVE WriteInv
  OBVIOUS
<1>1. TypeOK
  <2>1. <<>> \in Seq(Message) /\ <<>> \in Seq(Part)
    BY EmptySeq
  <2> QED
    BY <2>1, Parts DEF Init, TypeOK
<1>2. OneWrite /\ NoStalledQueue
  BY EmptySeq DEF Init, OneWrite, NoStalledQueue
<1> QED
  BY <1>1, <1>2 DEF WriteInv

-----------------------------------------------------------------------------
\* A step that leaves the queue and the writes alone, and repairs nothing.
LEMMA WritesUntouched ==
    ASSUME WriteInv, UNCHANGED <<m_qMessagesOut, writing>>,
           \A p \in End : LostAt(p) => LostAt(p)'
    PROVE  OneWrite' /\ NoStalledQueue'
  BY Ends DEF WriteInv, OneWrite, NoStalledQueue, LostAt

\* A step that concerns the writes of one end only.
LEMMA OneWriteAt ==
    ASSUME OneWrite, NEW p \in End,
           \A r \in End \ {p} : /\ writing'[r] = writing[r]
                                 /\ m_qMessagesOut'[r] = m_qMessagesOut[r],
           Len(writing'[p]) <= 1,
           writing'[p] # <<>> => /\ m_qMessagesOut'[p] # <<>>
                                 /\ Head(writing'[p]).of = Head(m_qMessagesOut'[p])
    PROVE  OneWrite'
<1> SUFFICES ASSUME NEW r \in End
             PROVE  /\ Len(writing'[r]) <= 1
                    /\ writing'[r] # <<>> =>
                          /\ m_qMessagesOut'[r] # <<>>
                          /\ Head(writing'[r]).of = Head(m_qMessagesOut'[r])
  BY DEF OneWrite
<1>1. CASE r = p
  BY <1>1
<1>2. CASE r # p
  BY <1>2 DEF OneWrite
<1> QED
  BY <1>1, <1>2

LEMMA ConnectPreserves ==
    ASSUME WriteInv, ConnectFails \/ Disconnect \/ Break \/ \E p \in End : Connect(p)
    PROVE  WriteInv'
<1>1. TypeOK'
  <2> USE DEF WriteInv
  <2>1. CASE ConnectFails
    BY <2>1 DEF ConnectFails, TypeOK, outVars, inVars, End
  <2>2. CASE Disconnect
    <3>1. Append(posted[Client], Close) \in Seq(Message) /\ Client \in End
      BY Appended, Parts DEF TypeOK, End
    <3> QED
      BY <2>2, <3>1 DEF Disconnect, TypeOK, outVars, inVars
  <2>3. CASE Break
    BY <2>3 DEF Break, TypeOK, outVars, inVars
  <2>4. ASSUME NEW p \in End, Connect(p) PROVE TypeOK'
    BY <2>4 DEF Connect, TypeOK, outVars, inVars
  <2> QED
    BY <2>1, <2>2, <2>3, <2>4
<1>2. UNCHANGED <<m_qMessagesOut, writing>>
  BY DEF ConnectFails, Disconnect, Break, Connect, outVars
<1>3. \A p \in End : LostAt(p) => LostAt(p)'
  BY Ends DEF ConnectFails, Disconnect, Break, Connect, LostAt, WriteInv, TypeOK, End
<1> QED
  BY <1>1, <1>2, <1>3, WritesUntouched DEF WriteInv

LEMMA SendPreserves ==
    ASSUME WriteInv, NEW p \in End, Send(p)
    PROVE  WriteInv'
<1>1. TypeOK'
  <2>1. PICK m \in Message : /\ sent' = [sent EXCEPT ![p] = Append(@, m)]
                             /\ posted' = [posted EXCEPT ![p] = Append(@, m)]
    <3>1. Len(sent[p]) + 1 \in Nat
      BY LenProperties DEF WriteInv, TypeOK
    <3> QED
      BY <3>1, Parts DEF Send, Empty
  <2>2. sent' \in [End -> Seq(Message)] /\ posted' \in [End -> Seq(Message)]
    BY <2>1, Appended DEF WriteInv, TypeOK
  <2> QED
    BY <2>2 DEF Send, WriteInv, TypeOK, inVars
<1>2. UNCHANGED <<m_qMessagesOut, writing, m_socket, link>>
  BY DEF Send
<1> QED
  BY <1>1, <1>2, WritesUntouched DEF WriteInv, LostAt

LEMMA RunClosePreserves ==
    ASSUME WriteInv, NEW p \in End, RunClose(p)
    PROVE  WriteInv'
<1>1. TypeOK'
  <2>1. Tail(posted[p]) \in Seq(Message)
    BY Popped DEF RunClose, WriteInv, TypeOK
  <2> QED
    BY <2>1 DEF RunClose, WriteInv, TypeOK, inVars
<1>2. UNCHANGED <<m_qMessagesOut, writing>> /\ \A q \in End : LostAt(q) => LostAt(q)'
  BY Ends DEF RunClose, LostAt, WriteInv, TypeOK
<1> QED
  BY <1>1, <1>2, WritesUntouched DEF WriteInv

\* A posted message starts a write only when there is none.
LEMMA RunSendPreserves ==
    ASSUME WriteInv, NEW p \in End, RunSend(p)
    PROVE  WriteInv'
<1> DEFINE m == Head(posted[p])
           q == m_qMessagesOut[p]
           w == writing[p]
<1> USE DEF WriteInv
<1>0. posted[p] # <<>> /\ posted[p] \in Seq(Message) /\ q \in Seq(Message) /\ w \in Seq(Part)
  BY DEF RunSend, TypeOK
<1>1. m \in Message /\ Tail(posted[p]) \in Seq(Message) /\ Header(m) \in Part
      /\ Header(m).of = m
  BY <1>0, Popped, Parts
<1>2. /\ m_qMessagesOut' = [m_qMessagesOut EXCEPT ![p] = Append(q, m)]
      /\ writing' = IF q = <<>> THEN [writing EXCEPT ![p] = Append(w, Header(m))]
                    ELSE writing
      /\ UNCHANGED <<m_socket, link>>
  BY DEF RunSend
<1>3. /\ Append(q, m) \in Seq(Message) /\ Append(q, m) # <<>>
      /\ Head(Append(q, m)) = IF q = <<>> THEN m ELSE Head(q)
      /\ Append(w, Header(m)) \in Seq(Part) /\ Append(w, Header(m)) # <<>>
      /\ Len(Append(w, Header(m))) = Len(w) + 1
      /\ Head(Append(w, Header(m))) = IF w = <<>> THEN Header(m) ELSE Head(w)
  <2> HIDE DEF m, q, w
  <2> QED
    BY <1>0, <1>1, Appended
<1> HIDE DEF m
<1>4. TypeOK'
  <2>1. /\ posted' = [posted EXCEPT ![p] = Tail(posted[p])]
        /\ UNCHANGED <<sent, stream, inVars, m_socket, link>>
    BY DEF RunSend
  <2>2. posted' \in [End -> Seq(Message)]
    BY <1>1, <2>1 DEF TypeOK
  <2>3. m_qMessagesOut' \in [End -> Seq(Message)]
    BY <1>2, <1>3 DEF TypeOK
  <2>4. writing' \in [End -> Seq(Part)]
    BY <1>2, <1>3 DEF TypeOK
  <2> QED
    BY <2>1, <2>2, <2>3, <2>4 DEF TypeOK, inVars
<1>5. q = <<>> => w = <<>>
  BY DEF OneWrite
<1>6. OneWrite'
  <2>1. \A r \in End \ {p} : writing'[r] = writing[r]
                              /\ m_qMessagesOut'[r] = m_qMessagesOut[r]
    BY <1>2 DEF TypeOK
  <2>2. m_qMessagesOut'[p] = Append(q, m)
    BY <1>2 DEF TypeOK
  <2>3. CASE q = <<>>
    <3>1. writing'[p] = Append(w, Header(m)) /\ w = <<>>
      BY <1>2, <1>5, <2>3 DEF TypeOK
    <3>2. Len(writing'[p]) <= 1 /\ Head(writing'[p]).of = m
      BY <1>1, <1>3, <3>1, EmptySeq
    <3>3. m_qMessagesOut'[p] # <<>> /\ Head(m_qMessagesOut'[p]) = m
      BY <1>3, <2>2, <2>3
    <3>4. OneWrite
      OBVIOUS
    <3> QED
      BY <2>1, <3>2, <3>3, <3>4, OneWriteAt
  <2>4. CASE q # <<>>
    <3>1. writing' = writing /\ m_qMessagesOut'[p] # <<>>
          /\ Head(m_qMessagesOut'[p]) = Head(q)
      BY <1>2, <1>3, <2>2, <2>4
    <3> QED
      BY <2>1, <3>1, OneWriteAt DEF OneWrite
  <2> QED
    BY <2>3, <2>4
<1>7. NoStalledQueue'
  <2>1. CASE q = <<>>
    BY <1>2, <1>3, <2>1 DEF NoStalledQueue, TypeOK
  <2>2. CASE q # <<>>
    BY <1>2, <2>2 DEF NoStalledQueue, TypeOK
  <2> QED
    BY <2>1, <2>2
<1> QED
  BY <1>4, <1>6, <1>7

\* A completed write goes on with the body or the next message.
LEMMA WritePreserves ==
    ASSUME WriteInv, NEW p \in End, Write(p)
    PROVE  WriteInv'
<1> DEFINE q == m_qMessagesOut[p]
           w == writing[p]
<1> USE DEF WriteInv
<1>0. q \in Seq(Message) /\ w \in Seq(Part) /\ w # <<>> /\ q # <<>> /\ Len(w) <= 1
  <2>1. w # <<>> /\ w \in Seq(Part) /\ q \in Seq(Message)
    BY DEF Write, TypeOK
  <2>2. q # <<>> /\ Len(w) <= 1
    BY <2>1 DEF OneWrite
  <2> HIDE DEF q, w
  <2> QED
    BY <2>1, <2>2, Popped
<1>1. /\ Head(q) \in Message /\ Tail(q) \in Seq(Message) /\ Head(w) \in Part
      /\ Tail(w) = <<>>
  <2> HIDE DEF q, w
  <2> QED
    BY <1>0, Popped
<1>2. ASSUME NEW x \in Part
      PROVE  Append(<<>>, x) \in Seq(Part) /\ Append(<<>>, x) # <<>>
             /\ Len(Append(<<>>, x)) = 1 /\ Head(Append(<<>>, x)) = x
  BY Appended, EmptySeq
<1>3. stream' \in [End -> Seq(Part)]
  <2>1. Append(stream[p], Head(w)) \in Seq(Part)
    <3> HIDE DEF w
    <3> QED
      BY <1>1, Appended DEF TypeOK
  <2> QED
    BY <2>1 DEF Write, TypeOK
<1>4. \/ /\ m_qMessagesOut' = m_qMessagesOut
         /\ writing' = [writing EXCEPT ![p] = Append(Tail(w), Body(Head(q)))]
      \/ /\ m_qMessagesOut' = [m_qMessagesOut EXCEPT ![p] = Tail(q)]
         /\ writing' = [writing EXCEPT ![p] = IF Tail(q) = <<>> THEN Tail(w)
                                              ELSE Append(Tail(w), Header(Head(Tail(q))))]
  BY DEF Write, NextWrite
<1>5. UNCHANGED <<sent, posted, inVars, m_socket, link>>
  BY DEF Write
<1>6. Tail(q) # <<>> => Head(Tail(q)) \in Message
  <2> HIDE DEF q
  <2> QED
    BY <1>1, Popped
<1> DEFINE y == m_qMessagesOut'[p]
           v == writing'[p]
<1>7. /\ y \in Seq(Message) /\ v \in Seq(Part) /\ Len(v) <= 1
      /\ y = <<>> <=> v = <<>>
      /\ v # <<>> => Head(v).of = Head(y)
  <2>1. CASE m_qMessagesOut' = m_qMessagesOut
             /\ writing' = [writing EXCEPT ![p] = Append(Tail(w), Body(Head(q)))]
    <3>1. y = q /\ v = Append(<<>>, Body(Head(q)))
      BY <1>1, <2>1 DEF TypeOK
    <3>2. Body(Head(q)) \in Part /\ Body(Head(q)).of = Head(q)
      BY <1>1, Parts
    <3> HIDE DEF y, v, q, w
    <3> QED
      BY <1>0, <1>1, <1>2, <3>1, <3>2
  <2>2. CASE /\ m_qMessagesOut' = [m_qMessagesOut EXCEPT ![p] = Tail(q)]
             /\ writing' = [writing EXCEPT ![p] = IF Tail(q) = <<>> THEN Tail(w)
                                ELSE Append(Tail(w), Header(Head(Tail(q))))]
    <3>1. /\ y = Tail(q)
          /\ v = IF Tail(q) = <<>> THEN <<>> ELSE Append(<<>>, Header(Head(Tail(q))))
      BY <1>1, <2>2 DEF TypeOK
    <3>2. Tail(q) # <<>> => /\ Header(Head(Tail(q))) \in Part
                            /\ Header(Head(Tail(q))).of = Head(Tail(q))
      BY <1>6, Parts
    <3> HIDE DEF y, v, q, w
    <3> QED
      BY <1>1, <1>2, <3>1, <3>2, EmptySeq
  <2> QED
    BY <1>4, <2>1, <2>2
<1>8. /\ m_qMessagesOut' = [m_qMessagesOut EXCEPT ![p] = y]
      /\ writing' = [writing EXCEPT ![p] = v]
  BY <1>4 DEF TypeOK
<1>9. TypeOK'
  BY <1>3, <1>5, <1>7, <1>8 DEF TypeOK, inVars
<1>10. \A r \in End \ {p} : /\ writing'[r] = writing[r]
                            /\ m_qMessagesOut'[r] = m_qMessagesOut[r]
  BY <1>8 DEF TypeOK
<1>11. OneWrite'
  BY <1>7, <1>10, OneWriteAt
<1>12. NoStalledQueue'
  BY <1>5, <1>7, <1>10 DEF NoStalledQueue
<1> QED
  BY <1>9, <1>11, <1>12

LEMMA WriteFailsPreserves ==
    ASSUME WriteInv, NEW p \in End, WriteFails(p)
    PROVE  WriteInv'
<1> USE DEF WriteInv
<1>1. /\ writing[p] # <<>> /\ LostAt(p)
      /\ writing' = [writing EXCEPT ![p] = Tail(writing[p])]
      /\ m_socket' = [m_socket EXCEPT ![p] = "closed"] \/ m_socket' = m_socket
      /\ UNCHANGED <<sent, posted, m_qMessagesOut, stream, inVars, link>>
  BY DEF WriteFails, LostAt
<1>2. Tail(writing[p]) \in Seq(Part) /\ Tail(writing[p]) = <<>>
  BY <1>1, Popped, LenProperties, EmptySeq DEF TypeOK, OneWrite
<1>3. TypeOK'
  BY <1>1, <1>2 DEF TypeOK, inVars
<1>4. OneWrite'
  BY <1>1, <1>2, EmptySeq DEF OneWrite, TypeOK
<1>5. \A r \in End : LostAt(r) => LostAt(r)'
  BY <1>1, Ends DEF LostAt, TypeOK
<1>6. NoStalledQueue'
  <2>1. \A r \in End \ {p} : writing'[r] = writing[r]
    BY <1>1 DEF TypeOK
  <2>2. \A r \in End : writing'[r] = <<>> /\ m_qMessagesOut[r] # <<>> => LostAt(r)
    BY <1>1, <2>1 DEF NoStalledQueue, LostAt
  <2> QED
    BY <1>1, <1>5, <2>2 DEF NoStalledQueue, LostAt
<1> QED
  BY <1>3, <1>4, <1>6

-----------------------------------------------------------------------------
\* A message is complete and handed on.
LEMMA AddPreserves ==
    ASSUME WriteInv, NEW p \in End, NEW m \in Message, AddToIncomingMessageQueue(p, m)
    PROVE  /\ m_qMessagesIn' \in [End -> Seq(Message)]
           /\ m_msgTemporaryIn' \in [End -> Message]
           /\ reading' \in [End -> {"none", "header", "body"}]
           /\ \A q \in End : m_socket[q] = "open" => reading'[q] # "none"
<1> USE DEF WriteInv
<1>1. Append(m_qMessagesIn[p], m) \in Seq(Message)
  BY Appended DEF TypeOK
<1>2. m \in Message /\ [id |-> m.id, body |-> Empty] \in Message
  BY Parts DEF Empty
<1>3. /\ m_qMessagesIn' \in [End -> Seq(Message)]
      /\ m_msgTemporaryIn' \in [End -> Message]
  BY <1>1, <1>2 DEF AddToIncomingMessageQueue, TypeOK
<1>4. /\ reading' \in [End -> {"none", "header", "body"}]
      /\ \A q \in End : m_socket[q] = "open" => reading'[q] # "none"
  BY DEF AddToIncomingMessageQueue, TypeOK
<1> QED
  BY <1>3, <1>4

LEMMA ReadPreserves ==
    ASSUME WriteInv, NEW p \in End, ReadHeader(p) \/ ReadBody(p)
    PROVE  WriteInv'
<1> USE DEF WriteInv
<1> DEFINE from == Other(p)
           x == Head(stream[from])
<1>1. /\ from \in End /\ stream[from] # <<>>
      /\ stream' = [stream EXCEPT ![from] = Tail(stream[from])]
      /\ UNCHANGED <<sent, outVars, m_socket, link>>
  BY Ends DEF ReadHeader, ReadBody
<1>2. x \in Part /\ Tail(stream[from]) \in Seq(Part)
  BY <1>1, Popped DEF TypeOK
<1>3. /\ x.of \in Message /\ x.of.id \in Nat /\ x.of.body \in Nat
      /\ m_msgTemporaryIn[p].id \in Nat /\ m_msgTemporaryIn[p].body \in Nat
  <2>1. m_msgTemporaryIn[p] \in Message
    BY DEF TypeOK
  <2> HIDE DEF x
  <2> QED
    BY <1>2, <2>1, Parts
<1>4. stream' \in [End -> Seq(Part)]
  BY <1>1, <1>2 DEF TypeOK
<1>5. /\ m_qMessagesIn' \in [End -> Seq(Message)]
      /\ m_msgTemporaryIn' \in [End -> Message]
      /\ reading' \in [End -> {"none", "header", "body"}]
      /\ \A q \in End : m_socket[q] = "open" => reading'[q] # "none"
  <2> DEFINE temp == m_msgTemporaryIn[p]
             h == [id |-> x.of.id, body |-> temp.body]
             b == [id |-> temp.id, body |-> x.of.body]
  <2>1. h \in Message /\ b \in Message
    BY <1>3, Parts
  <2>2. CASE AddToIncomingMessageQueue(p, h) \/ AddToIncomingMessageQueue(p, b)
    <3> HIDE DEF h, b
    <3> QED
      BY <2>1, <2>2, AddPreserves
  <2>3. CASE /\ m_msgTemporaryIn' = [m_msgTemporaryIn EXCEPT ![p] = h]
             /\ reading' = [reading EXCEPT ![p] =
                              IF m_socket[p] = "open" THEN "body" ELSE "none"]
             /\ UNCHANGED m_qMessagesIn
    <3> HIDE DEF h
    <3> QED
      BY <2>1, <2>3 DEF TypeOK
  <2> QED
    BY <2>2, <2>3 DEF ReadHeader, ReadBody
<1>6. TypeOK'
  BY <1>1, <1>4, <1>5 DEF TypeOK, outVars
<1> QED
  BY <1>1, <1>6, WritesUntouched DEF outVars, LostAt

LEMMA ReadFailsPreserves ==
    ASSUME WriteInv, NEW p \in End, ReadFails(p)
    PROVE  WriteInv'
<1> USE DEF WriteInv
<1>1. TypeOK'
  BY DEF ReadFails, TypeOK, outVars
<1>2. UNCHANGED <<m_qMessagesOut, writing>> /\ \A q \in End : LostAt(q) => LostAt(q)'
  BY Ends DEF ReadFails, LostAt, TypeOK, outVars
<1> QED
  BY <1>1, <1>2, WritesUntouched

LEMMA ConnectionStep == WriteInv /\ [Next]_vars => WriteInv'
<1> SUFFICES ASSUME WriteInv, [Next]_vars PROVE WriteInv'
  OBVIOUS
<1>1. ASSUME NEW p \in End, Handlers(p) PROVE WriteInv'
  BY <1>1, RunClosePreserves, RunSendPreserves, WritePreserves, WriteFailsPreserves,
     ReadPreserves, ReadFailsPreserves DEF Handlers
<1>2. CASE UNCHANGED vars
  <2>1. TypeOK'
    BY <1>2 DEF vars, outVars, inVars, WriteInv, TypeOK
  <2> QED
    BY <1>2, <2>1, WritesUntouched DEF vars, outVars, LostAt, WriteInv
<1> QED
  BY <1>1, <1>2, ConnectPreserves, SendPreserves DEF Next

LEMMA ConnectionInvariant == Spec => []WriteInv
  BY WriteInitInv, ConnectionStep, PTL DEF Spec

-----------------------------------------------------------------------------
\* The members of both connection objects keep their types, and an open connection
\* always has a read under way.
THEOREM ConnectionTypeCorrect == Spec => []TypeOK
  BY ConnectionInvariant, PTL DEF WriteInv

\* However Send calls and completion handlers interleave, at most one asynchronous
\* write is under way on a socket, and its buffer is the front of m_qMessagesOut.
THEOREM OneWriteAtATime == Spec => []OneWrite
  BY ConnectionInvariant, PTL DEF WriteInv

\* The write chain stops with messages queued only where the connection is lost.
THEOREM QueueNotStalled == Spec => []NoStalledQueue
  BY ConnectionInvariant, PTL DEF WriteInv


-----------------------------------------------------------------------------
(***************************************************************************)
(* Each direction is a Channel.  The argument follows the messages of end  *)
(* p from Send to the other end: Q of them have been queued, the ones      *)
(* posted come next, the ones in m_qMessagesOut are the last of the Q, and *)
(* the stream between the ends is, without a gap, what the reader expects  *)
(* next up to what the writer writes next.  A position in the stream is a  *)
(* message's number and the part of it.                                    *)
(***************************************************************************)

\* m is the message that was sent under its number.
Genuine(p, m) == m.id \in DOMAIN sent[p] /\ m = sent[p][m.id]

\* The position of a part, and the position that follows it.
At(x) == <<x.of.id, x.kind>>
After(x) ==
    IF x.kind = "header" /\ x.of.body # Empty THEN <<x.of.id, "body">>
    ELSE <<x.of.id + 1, "header">>

\* The reads of end q have not ended, and the position of the next one.
Alive(q) == m_socket[q] = "new" \/ reading[q] # "none"
Reader(q) ==
    <<Len(m_qMessagesIn[q]) + 1, IF reading[q] = "body" THEN "body" ELSE "header">>

\* The writes of end p may still reach the stream, and the position of the next one.
CanWrite(p) ==
    /\ link = "up" /\ m_socket[p] # "closed"
    /\ writing[p] # <<>> \/ m_qMessagesOut[p] = <<>>
Writer(p, Q) ==
    IF writing[p] = <<>> THEN <<Q + 1, "header">> ELSE At(Head(writing[p]))

\* The messages that are posted and not queued yet, in the order they were sent.
PostedInv(p, Q) ==
    /\ \A i \in DOMAIN posted[p] :
          \/ posted[p][i] = Close
          \/ posted[p][i].id > Q /\ Genuine(p, posted[p][i])
    /\ \A i, j \in DOMAIN posted[p] :
          i < j /\ posted[p][i] # Close /\ posted[p][j] # Close
            => posted[p][i].id < posted[p][j].id
    /\ \A k \in Q + 1 .. Len(sent[p]) : \E i \in DOMAIN posted[p] : posted[p][i].id = k

\* The queue holds the last of the messages queued.
OutInv(p, Q) ==
    /\ Len(m_qMessagesOut[p]) <= Q /\ Q <= Len(sent[p])
    /\ \A i \in DOMAIN m_qMessagesOut[p] :
          /\ m_qMessagesOut[p][i].id = Q - Len(m_qMessagesOut[p]) + i
          /\ Genuine(p, m_qMessagesOut[p][i])

\* The stream has no gap.
StreamInv(p) ==
    \A i \in DOMAIN stream[p] :
        /\ Genuine(p, stream[p][i].of)
        /\ i + 1 \in DOMAIN stream[p] => At(stream[p][i + 1]) = After(stream[p][i])

\* It begins where the reader is and ends where the writer is.
EndsInv(p, q, Q) ==
    /\ stream[p] # <<>> /\ Alive(q) => At(stream[p][1]) = Reader(q)
    /\ CanWrite(p) =>
          IF stream[p] = <<>> THEN Alive(q) => Writer(p, Q) = Reader(q)
          ELSE Writer(p, Q) = After(stream[p][Len(stream[p])])

\* A header that was read is the one of the message expected; the client keeps no
\* body in m_msgTemporaryIn.
TempInv(q) ==
    /\ reading[q] = "body" => m_msgTemporaryIn[q].id = Len(m_qMessagesIn[q]) + 1
    /\ q = Client => m_msgTemporaryIn[q].body = Empty
    /\ m_socket[q] = "new" => reading[q] = "none"

\* Only messages of Bodyless are without a body.
BodyInv(p) == \A k \in DOMAIN sent[p] : sent[p][k].body = Empty => p \in Bodyless

DirectionInv(p, q, Q) ==
    /\ PostedInv(p, Q) /\ OutInv(p, Q) /\ StreamInv(p) /\ EndsInv(p, q, Q)
    /\ TempInv(q) /\ BodyInv(p)

\* What a Channel may do in one step.
ChannelStep(p, q) ==
    \/ sent'[p] = sent[p] /\ m_qMessagesIn'[q] = m_qMessagesIn[q]
    \/ /\ Len(sent'[p]) = Len(sent[p]) + 1
       /\ \A i \in 1 .. Len(sent[p]) : sent'[p][i] = sent[p][i]
       /\ m_qMessagesIn'[q] = m_qMessagesIn[q]
    \/ /\ Len(m_qMessagesIn[q]) < Len(sent[p])
       /\ m_qMessagesIn'[q] = Append(m_qMessagesIn[q], sent[p][Len(m_qMessagesIn[q]) + 1])
       /\ sent'[p] = sent[p]

\* The two ends.
LEMMA BothEnds ==
    ASSUME NEW p \in End
    PROVE  /\ Other(p) \in End /\ Other(p) # p /\ Other(Other(p)) = p
           /\ \A e \in End : e = p \/ e = Other(p)
  BY ConnectionAssumption DEF End, Other

\* The elements of a sequence after Append and after Tail.
LEMMA AppendAt ==
    ASSUME NEW S, NEW s \in Seq(S), NEW e \in S
    PROVE  /\ Len(s) \in Nat /\ DOMAIN s = 1 .. Len(s)
           /\ Append(s, e) \in Seq(S) /\ Len(Append(s, e)) = Len(s) + 1
           /\ DOMAIN Append(s, e) = 1 .. Len(s) + 1
           /\ \A i \in 1 .. Len(s) : Append(s, e)[i] = s[i]
           /\ Append(s, e)[Len(s) + 1] = e
  BY AppendProperties, LenProperties

LEMMA TailAt ==
    ASSUME NEW S, NEW s \in Seq(S), s # <<>>
    PROVE  /\ Len(s) \in Nat /\ Len(s) >= 1 /\ DOMAIN s = 1 .. Len(s)
           /\ Tail(s) \in Seq(S) /\ Len(Tail(s)) = Len(s) - 1
           /\ DOMAIN Tail(s) = 1 .. Len(s) - 1
           /\ \A i \in 1 .. Len(s) - 1 : Tail(s)[i] = s[i + 1]
           /\ Head(s) = s[1] /\ s[1] \in S
           /\ Tail(s) = <<>> <=> Len(s) = 1
<1>1. Len(s) \in Nat /\ Len(s) # 0
  BY EmptySeq, LenProperties
<1>2. /\ Tail(s) \in Seq(S) /\ Len(Tail(s)) = Len(s) - 1
      /\ \A i \in 1 .. Len(s) - 1 : Tail(s)[i] = s[i + 1]
  BY <1>1, HeadTailProperties
<1>3. Tail(s) = <<>> <=> Len(Tail(s)) = 0
  BY <1>2, EmptySeq
<1> QED
  BY <1>1, <1>2, <1>3, LenProperties

\* A step that leaves a direction alone, and repairs nothing.
LEMMA DirectionUnchanged ==
    ASSUME NEW p \in End, NEW q \in End, NEW Q \in Nat, DirectionInv(p, q, Q),
           sent'[p] = sent[p], posted'[p] = posted[p],
           m_qMessagesOut'[p] = m_qMessagesOut[p], writing'[p] = writing[p],
           stream'[p] = stream[p], m_qMessagesIn'[q] = m_qMessagesIn[q],
           m_msgTemporaryIn'[q] = m_msgTemporaryIn[q],
           reading'[q] = "body" => reading[q] = "body",
           m_socket'[q] = "new" => m_socket[q] = "new" /\ reading'[q] = reading[q],
           Alive(q)' => Alive(q) /\ Reader(q)' = Reader(q),
           CanWrite(p)' => CanWrite(p)
    PROVE  DirectionInv(p, q, Q)' /\ ChannelStep(p, q)
<1>1. PostedInv(p, Q)' /\ OutInv(p, Q)' /\ BodyInv(p)'
  BY DEF DirectionInv, PostedInv, OutInv, BodyInv, Genuine
<1>2. StreamInv(p)'
  BY DEF DirectionInv, StreamInv, Genuine, At, After
<1>3. Writer(p, Q)' = Writer(p, Q)
  BY DEF Writer, At
<1>4. EndsInv(p, q, Q)'
  BY <1>3 DEF DirectionInv, EndsInv, At, After
<1>5. TempInv(q)'
  BY DEF DirectionInv, TempInv
<1> QED
  BY <1>1, <1>2, <1>4, <1>5 DEF DirectionInv, ChannelStep

\* A step that only posts or runs a Close at the sender.
LEMMA CloseDirection ==
    ASSUME NEW p \in End, NEW q \in End, NEW Q \in Nat, DirectionInv(p, q, Q), TypeOK,
           UNCHANGED <<sent, m_qMessagesOut, writing, stream, inVars, link>>,
           m_socket' = m_socket \/ m_socket' = [m_socket EXCEPT ![p] = "closed"],
           p # q,
           \/ posted'[p] = Append(posted[p], Close)
           \/ posted[p] # <<>> /\ Head(posted[p]) = Close /\ posted'[p] = Tail(posted[p])
    PROVE  DirectionInv(p, q, Q)' /\ ChannelStep(p, q)
<1>0. posted[p] \in Seq(Message) /\ sent[p] \in Seq(Message) /\ Len(sent[p]) \in Nat
      /\ Close \in Message
  BY Parts, LenProperties DEF TypeOK
<1>1. PostedInv(p, Q)
  BY DEF DirectionInv
<1>2. PostedInv(p, Q)'
  <2>1. CASE posted'[p] = Append(posted[p], Close)
    <3>1. /\ DOMAIN posted[p] = 1 .. Len(posted[p]) /\ Len(posted[p]) \in Nat
          /\ DOMAIN posted'[p] = 1 .. Len(posted[p]) + 1
          /\ \A i \in 1 .. Len(posted[p]) : posted'[p][i] = posted[p][i]
          /\ posted'[p][Len(posted[p]) + 1] = Close
      BY <1>0, <2>1, AppendAt
    <3>2. \A i \in DOMAIN posted'[p] :
             \/ i \in DOMAIN posted[p] /\ posted'[p][i] = posted[p][i]
             \/ posted'[p][i] = Close
      BY <3>1
    <3>3. DOMAIN posted[p] \subseteq DOMAIN posted'[p]
          /\ \A i \in DOMAIN posted[p] : posted'[p][i] = posted[p][i]
      BY <3>1
    <3>4. ASSUME NEW i \in DOMAIN posted'[p], NEW j \in DOMAIN posted'[p], i < j,
                 posted'[p][i] # Close, posted'[p][j] # Close
          PROVE  posted'[p][i].id < posted'[p][j].id
      BY <1>1, <3>2, <3>4 DEF PostedInv
    <3>5. \A i \in DOMAIN posted'[p] :
             \/ posted'[p][i] = Close
             \/ posted'[p][i].id > Q /\ posted'[p][i].id \in DOMAIN sent[p]
                  /\ posted'[p][i] = sent[p][posted'[p][i].id]
      BY <1>1, <3>2 DEF PostedInv, Genuine
    <3>6. ASSUME NEW k \in Q + 1 .. Len(sent[p])
          PROVE  \E i \in DOMAIN posted'[p] : posted'[p][i].id = k
      BY <1>1, <3>3 DEF PostedInv
    <3> QED
      BY <3>4, <3>5, <3>6 DEF PostedInv, Genuine
  <2>2. CASE posted[p] # <<>> /\ Head(posted[p]) = Close /\ posted'[p] = Tail(posted[p])
    <3>1. /\ DOMAIN posted[p] = 1 .. Len(posted[p]) /\ Len(posted[p]) \in Nat
          /\ DOMAIN posted'[p] = 1 .. Len(posted[p]) - 1
          /\ \A i \in 1 .. Len(posted[p]) - 1 : posted'[p][i] = posted[p][i + 1]
          /\ posted[p][1] = Close
      BY <1>0, <2>2, TailAt
    <3>2. Close.id = 0
      BY DEF Close
    <3>3. ASSUME NEW i \in DOMAIN posted'[p]
          PROVE  \/ posted'[p][i] = Close
                 \/ posted'[p][i].id > Q /\ posted'[p][i].id \in DOMAIN sent[p]
                      /\ posted'[p][i] = sent[p][posted'[p][i].id]
      <4>1. i + 1 \in DOMAIN posted[p] /\ posted'[p][i] = posted[p][i + 1]
        BY <3>1
      <4> QED
        BY <1>1, <4>1 DEF PostedInv, Genuine
    <3>4. ASSUME NEW i \in DOMAIN posted'[p], NEW j \in DOMAIN posted'[p], i < j,
                 posted'[p][i] # Close, posted'[p][j] # Close
          PROVE  posted'[p][i].id < posted'[p][j].id
      <4>1. i + 1 \in DOMAIN posted[p] /\ j + 1 \in DOMAIN posted[p] /\ i + 1 < j + 1
        BY <3>1, <3>4
      <4>2. posted[p][i + 1].id < posted[p][j + 1].id
        BY <1>1, <3>1, <3>4, <4>1 DEF PostedInv
      <4> QED
        BY <3>1, <4>2
    <3>5. ASSUME NEW k \in Q + 1 .. Len(sent[p])
          PROVE  \E i \in DOMAIN posted'[p] : posted'[p][i].id = k
      <4>1. PICK i \in DOMAIN posted[p] : posted[p][i].id = k
        BY <1>1 DEF PostedInv
      <4>2. i # 1
        BY <1>0, <3>1, <3>2, <4>1
      <4>3. i - 1 \in DOMAIN posted'[p] /\ posted'[p][i - 1].id = k
        BY <3>1, <4>1, <4>2
      <4> QED
        BY <4>3
    <3> QED
      BY <3>3, <3>4, <3>5 DEF PostedInv, Genuine
  <2> QED
    BY <2>1, <2>2
<1>3. OutInv(p, Q)' /\ BodyInv(p)'
  BY DEF DirectionInv, OutInv, BodyInv, Genuine
<1>4. StreamInv(p)'
  BY DEF DirectionInv, StreamInv, Genuine, At, After
<1>5. Reader(q)' = Reader(q) /\ Writer(p, Q)' = Writer(p, Q)
  BY DEF Reader, Writer, At, inVars
<1>6. (Alive(q)' => Alive(q)) /\ (CanWrite(p)' => CanWrite(p))
  BY DEF Alive, CanWrite, inVars, TypeOK
<1>7. EndsInv(p, q, Q)'
  BY <1>5, <1>6 DEF DirectionInv, EndsInv, At, After
<1>8. TempInv(q)'
  BY DEF DirectionInv, TempInv, inVars, TypeOK
<1> QED
  BY <1>2, <1>3, <1>4, <1>7, <1>8 DEF DirectionInv, ChannelStep, inVars

\* Send: a message more is sent and posted.
LEMMA SendDirection ==
    ASSUME NEW p \in End, NEW q \in End, NEW Q \in Nat, DirectionInv(p, q, Q), TypeOK,
           Send(p)
    PROVE  DirectionInv(p, q, Q)' /\ ChannelStep(p, q)
<1>0. /\ posted[p] \in Seq(Message) /\ sent[p] \in Seq(Message) /\ Len(sent[p]) \in Nat
      /\ DOMAIN sent[p] = 1 .. Len(sent[p])
      /\ m_qMessagesOut[p] \in Seq(Message)
      /\ \A i \in DOMAIN posted[p] : posted[p][i] \in Message
  BY Parts, LenProperties DEF TypeOK
<1>1. PICK m : /\ m.id = Len(sent[p]) + 1 /\ m \in Message
               /\ m.body = Empty => p \in Bodyless
               /\ sent'[p] = Append(sent[p], m) /\ posted'[p] = Append(posted[p], m)
  <2>1. PICK b \in Nat :
          /\ sent'[p] = Append(sent[p], [id |-> Len(sent[p]) + 1, body |-> b])
          /\ posted'[p] = Append(posted[p], [id |-> Len(sent[p]) + 1, body |-> b])
          /\ b = Empty => p \in Bodyless
    <3>1. PICK b : /\ b \in {Len(sent[p]) + 1} \cup (IF p \in Bodyless THEN {Empty} ELSE {})
                   /\ sent' = [sent EXCEPT ![p] =
                                Append(@, [id |-> Len(sent[p]) + 1, body |-> b])]
                   /\ posted' = [posted EXCEPT ![p] =
                                  Append(@, [id |-> Len(sent[p]) + 1, body |-> b])]
      BY DEF Send
    <3>2. b \in Nat /\ (b = Empty => p \in Bodyless)
      BY <1>0, <3>1 DEF Empty
    <3> QED
      BY <3>1, <3>2 DEF TypeOK
  <2>2. PICK m : m = [id |-> Len(sent[p]) + 1, body |-> b]
    OBVIOUS
  <2>3. m \in Message /\ m.id = Len(sent[p]) + 1 /\ m.body = b
    BY <1>0, <2>2, Parts
  <2> QED
    BY <2>1, <2>2, <2>3
<1>2. /\ UNCHANGED <<m_qMessagesOut, writing, stream, m_socket, link>>
      /\ UNCHANGED <<reading, m_msgTemporaryIn, m_qMessagesIn>>
  BY DEF Send, inVars
<1>3. /\ Len(sent'[p]) = Len(sent[p]) + 1 /\ DOMAIN sent'[p] = 1 .. Len(sent[p]) + 1
      /\ \A i \in 1 .. Len(sent[p]) : sent'[p][i] = sent[p][i]
      /\ sent'[p][Len(sent[p]) + 1] = m
  BY <1>0, <1>1, AppendAt
<1>4. \A n : n.id \in DOMAIN sent[p] /\ n = sent[p][n.id]
               => n.id \in DOMAIN sent'[p] /\ n = sent'[p][n.id]
  BY <1>0, <1>3
<1>5. PostedInv(p, Q)'
  <2>1. /\ DOMAIN posted[p] = 1 .. Len(posted[p]) /\ Len(posted[p]) \in Nat
        /\ DOMAIN posted'[p] = 1 .. Len(posted[p]) + 1
        /\ \A i \in 1 .. Len(posted[p]) : posted'[p][i] = posted[p][i]
        /\ posted'[p][Len(posted[p]) + 1] = m
    BY <1>0, <1>1, AppendAt
  <2>2. PostedInv(p, Q) /\ Q <= Len(sent[p])
    BY DEF DirectionInv, OutInv
  <2>3. ASSUME NEW i \in DOMAIN posted'[p]
        PROVE  \/ posted'[p][i] = Close
               \/ posted'[p][i].id > Q /\ posted'[p][i].id \in DOMAIN sent'[p]
                    /\ posted'[p][i] = sent'[p][posted'[p][i].id]
    <3>1. CASE i = Len(posted[p]) + 1
      BY <1>0, <1>1, <1>3, <2>1, <2>2, <3>1
    <3>2. CASE i \in DOMAIN posted[p] /\ posted'[p][i] = posted[p][i]
      BY <1>4, <2>2, <3>2 DEF PostedInv, Genuine
    <3> QED
      BY <2>1, <3>1, <3>2
  <2>4. ASSUME NEW i \in DOMAIN posted'[p], NEW j \in DOMAIN posted'[p], i < j,
               posted'[p][i] # Close, posted'[p][j] # Close
        PROVE  posted'[p][i].id < posted'[p][j].id
    <3>1. i \in DOMAIN posted[p] /\ posted'[p][i] = posted[p][i]
      BY <2>1, <2>4
    <3>2. posted[p][i].id \in 1 .. Len(sent[p])
      BY <1>0, <2>2, <2>4, <3>1 DEF PostedInv, Genuine
    <3>3. CASE j = Len(posted[p]) + 1
      BY <1>0, <1>1, <2>1, <3>1, <3>2, <3>3
    <3>4. CASE j \in DOMAIN posted[p] /\ posted'[p][j] = posted[p][j]
      BY <2>2, <2>4, <3>1, <3>4 DEF PostedInv
    <3> QED
      BY <2>1, <3>3, <3>4
  <2>5. ASSUME NEW k \in Q + 1 .. Len(sent[p]) + 1
        PROVE  \E i \in DOMAIN posted'[p] : posted'[p][i].id = k
    <3>1. CASE k = Len(sent[p]) + 1
      <4>1. Len(posted[p]) + 1 \in DOMAIN posted'[p]
            /\ posted'[p][Len(posted[p]) + 1].id = k
        BY <1>1, <2>1, <3>1
      <4> QED
        BY <4>1
    <3>2. CASE k \in Q + 1 .. Len(sent[p])
      <4>1. PICK i \in DOMAIN posted[p] : posted[p][i].id = k
        BY <2>2, <3>2 DEF PostedInv
      <4> QED
        BY <2>1, <4>1
    <3> QED
      BY <1>0, <3>1, <3>2
  <2> QED
    BY <1>3, <2>3, <2>4, <2>5 DEF PostedInv, Genuine
<1>6. OutInv(p, Q)'
  <2>1. OutInv(p, Q)
    BY DEF DirectionInv
  <2>2. Q <= Len(sent'[p])
    BY <1>0, <1>3, <2>1 DEF OutInv
  <2> QED
    BY <1>2, <1>4, <2>1, <2>2 DEF OutInv, Genuine
<1>7. StreamInv(p)'
  BY <1>2, <1>4 DEF DirectionInv, StreamInv, Genuine, At, After
<1>8. Reader(q)' = Reader(q) /\ Writer(p, Q)' = Writer(p, Q)
  BY <1>2 DEF Reader, Writer, At
<1>9. EndsInv(p, q, Q)'
  BY <1>2, <1>8 DEF DirectionInv, EndsInv, At, After, Alive, CanWrite
<1>10. TempInv(q)'
  BY <1>2 DEF DirectionInv, TempInv
<1>11. BodyInv(p)'
  BY <1>0, <1>1, <1>3 DEF DirectionInv, BodyInv
<1> QED
  BY <1>2, <1>3, <1>5, <1>6, <1>7, <1>9, <1>10, <1>11 DEF DirectionInv, ChannelStep

\* The posted part of Send: the first message posted is the next one to be queued.
LEMMA RunSendDirection ==
    ASSUME NEW p \in End, NEW q \in End, NEW Q \in Nat, DirectionInv(p, q, Q), WriteInv,
           RunSend(p)
    PROVE  DirectionInv(p, q, Q + 1)' /\ ChannelStep(p, q)
<1>0. /\ posted[p] \in Seq(Message) /\ sent[p] \in Seq(Message) /\ Len(sent[p]) \in Nat
      /\ DOMAIN sent[p] = 1 .. Len(sent[p])
      /\ m_qMessagesOut[p] \in Seq(Message) /\ writing[p] \in Seq(Part)
      /\ \A i \in DOMAIN posted[p] : posted[p][i] \in Message
  BY Parts, LenProperties DEF TypeOK, WriteInv
<1>1. /\ posted[p] # <<>> /\ Head(posted[p]) # Close
      /\ posted'[p] = Tail(posted[p])
      /\ m_qMessagesOut'[p] = Append(m_qMessagesOut[p], Head(posted[p]))
      /\ writing'[p] = IF m_qMessagesOut[p] = <<>>
                       THEN Append(writing[p], Header(Head(posted[p]))) ELSE writing[p]
      /\ UNCHANGED <<sent, stream, m_socket, link, reading, m_msgTemporaryIn,
                     m_qMessagesIn>>
  BY DEF RunSend, WriteInv, TypeOK, inVars
<1>2. /\ DOMAIN posted[p] = 1 .. Len(posted[p]) /\ Len(posted[p]) \in Nat
      /\ Len(posted[p]) >= 1
      /\ DOMAIN posted'[p] = 1 .. Len(posted[p]) - 1
      /\ \A i \in 1 .. Len(posted[p]) - 1 : posted'[p][i] = posted[p][i + 1]
      /\ Head(posted[p]) = posted[p][1]
  BY <1>0, <1>1, TailAt
<1>3. PICK m \in Message : m = posted[p][1] /\ m # Close /\ m.id \in Nat
  BY <1>0, <1>1, <1>2, Parts
<1>4. /\ PostedInv(p, Q) /\ Q <= Len(sent[p])
      /\ \A k \in Q + 1 .. Len(sent[p]) : \E i \in DOMAIN posted[p] : posted[p][i].id = k
  BY DEF DirectionInv, OutInv, PostedInv
<1>12. \A i \in DOMAIN posted[p] : i # 1 /\ posted[p][i] # Close => m.id < posted[p][i].id
  <2>1. \A i \in DOMAIN posted[p] : i # 1 => 1 < i /\ 1 \in DOMAIN posted[p]
    BY <1>2
  <2> QED
    BY <1>3, <1>4, <2>1 DEF PostedInv
<1>5. m.id = Q + 1 /\ Genuine(p, m)
  <2>1. m.id > Q /\ Genuine(p, m) /\ m.id \in 1 .. Len(sent[p])
    BY <1>0, <1>2, <1>3, <1>4 DEF PostedInv, Genuine
  <2>2. Q + 1 \in Q + 1 .. Len(sent[p])
    BY <1>0, <1>3, <2>1
  <2>3. PICK i \in DOMAIN posted[p] : posted[p][i].id = Q + 1
    BY <1>4, <2>2
  <2>4. posted[p][i] # Close
    BY <2>3 DEF Close
  <2>5. i # 1 => m.id < Q + 1
    BY <1>12, <2>3, <2>4
  <2> QED
    BY <1>3, <2>1, <2>3, <2>5
<1>6. PostedInv(p, Q + 1)'
  <2>1. \A i \in DOMAIN posted'[p] : /\ i + 1 \in DOMAIN posted[p] /\ 1 < i + 1
                                     /\ posted'[p][i] = posted[p][i + 1]
    BY <1>2
  <2>2. ASSUME NEW i \in DOMAIN posted'[p]
        PROVE  \/ posted'[p][i] = Close
               \/ posted'[p][i].id > Q + 1 /\ posted'[p][i].id \in DOMAIN sent[p]
                    /\ posted'[p][i] = sent[p][posted'[p][i].id]
    <3>1. posted[p][i + 1] # Close => m.id < posted[p][i + 1].id
      BY <1>2, <1>12, <2>1
    <3> QED
      BY <1>4, <1>5, <2>1, <3>1 DEF PostedInv, Genuine
  <2>3. ASSUME NEW i \in DOMAIN posted'[p], NEW j \in DOMAIN posted'[p], i < j,
               posted'[p][i] # Close, posted'[p][j] # Close
        PROVE  posted'[p][i].id < posted'[p][j].id
    <3>1. i + 1 < j + 1
      BY <1>2, <2>3
    <3>2. posted[p][i + 1].id < posted[p][j + 1].id
      BY <1>4, <2>1, <2>3, <3>1 DEF PostedInv
    <3> QED
      BY <2>1, <3>2
  <2>4. ASSUME NEW k \in Q + 1 + 1 .. Len(sent[p])
        PROVE  \E i \in DOMAIN posted'[p] : posted'[p][i].id = k
    <3>1. k \in Q + 1 .. Len(sent[p]) /\ k # Q + 1
      BY <1>0
    <3>2. PICK i \in DOMAIN posted[p] : posted[p][i].id = k
      BY <1>4, <3>1 DEF PostedInv
    <3>3. i # 1
      BY <1>3, <1>5, <3>1, <3>2
    <3>4. i - 1 \in DOMAIN posted'[p] /\ posted'[p][i - 1].id = k
      BY <1>2, <3>2, <3>3
    <3> QED
      BY <3>4
  <2> QED
    BY <1>1, <2>2, <2>3, <2>4 DEF PostedInv, Genuine
<1>7. /\ Len(m_qMessagesOut[p]) \in Nat
      /\ DOMAIN m_qMessagesOut[p] = 1 .. Len(m_qMessagesOut[p])
      /\ Len(m_qMessagesOut'[p]) = Len(m_qMessagesOut[p]) + 1
      /\ DOMAIN m_qMessagesOut'[p] = 1 .. Len(m_qMessagesOut[p]) + 1
      /\ \A i \in 1 .. Len(m_qMessagesOut[p]) :
            m_qMessagesOut'[p][i] = m_qMessagesOut[p][i]
      /\ m_qMessagesOut'[p][Len(m_qMessagesOut[p]) + 1] = m
  BY <1>0, <1>1, <1>2, <1>3, AppendAt
<1>8. OutInv(p, Q + 1)'
  <2>1. OutInv(p, Q)
    BY DEF DirectionInv
  <2>2. Q + 1 <= Len(sent[p])
    BY <1>0, <1>5 DEF Genuine
  <2>3. ASSUME NEW i \in DOMAIN m_qMessagesOut'[p]
        PROVE  /\ m_qMessagesOut'[p][i].id = Q + 1 - (Len(m_qMessagesOut[p]) + 1) + i
               /\ m_qMessagesOut'[p][i].id \in DOMAIN sent[p]
               /\ m_qMessagesOut'[p][i] = sent[p][m_qMessagesOut'[p][i].id]
    <3>1. CASE i = Len(m_qMessagesOut[p]) + 1
      BY <1>5, <1>7, <3>1 DEF Genuine
    <3>2. CASE i \in DOMAIN m_qMessagesOut[p]
               /\ m_qMessagesOut'[p][i] = m_qMessagesOut[p][i]
      BY <1>7, <2>1, <3>2 DEF OutInv, Genuine
    <3> QED
      BY <1>7, <3>1, <3>2
  <2>4. Len(m_qMessagesOut[p]) + 1 <= Q + 1
    BY <1>7, <2>1 DEF OutInv
  <2>5. Len(m_qMessagesOut'[p]) = Len(m_qMessagesOut[p]) + 1 /\ sent'[p] = sent[p]
    BY <1>1, <1>7
  <2>6. \A i \in DOMAIN m_qMessagesOut'[p] :
           /\ m_qMessagesOut'[p][i].id = (Q + 1) - Len(m_qMessagesOut'[p]) + i
           /\ m_qMessagesOut'[p][i].id \in DOMAIN sent'[p]
           /\ m_qMessagesOut'[p][i] = sent'[p][m_qMessagesOut'[p][i].id]
    <3> TAKE i \in DOMAIN m_qMessagesOut'[p]
    <3>1. i \in Nat /\ Len(m_qMessagesOut[p]) \in Nat
      BY <1>7
    <3>2. (Q + 1) - Len(m_qMessagesOut'[p]) + i = Q + 1 - (Len(m_qMessagesOut[p]) + 1) + i
      BY <2>5, <3>1
    <3> QED
      BY <2>3, <2>5, <3>2
  <2>7. Len(m_qMessagesOut'[p]) <= Q + 1 /\ Q + 1 <= Len(sent'[p])
    BY <2>2, <2>4, <2>5
  <2> QED
    BY <2>6, <2>7 DEF OutInv, Genuine
<1>9. StreamInv(p)' /\ BodyInv(p)' /\ TempInv(q)' /\ Reader(q)' = Reader(q)
      /\ (Alive(q)' <=> Alive(q))
  BY <1>1
  DEF DirectionInv, StreamInv, Genuine, At, After, BodyInv, TempInv, Reader, Alive
<1>10. CanWrite(p)' => CanWrite(p) /\ Writer(p, Q + 1)' = Writer(p, Q)
  <2>1. CASE m_qMessagesOut[p] = <<>>
    <3>1. writing[p] = <<>>
      BY <2>1 DEF WriteInv, OneWrite
    <3>2. Header(m) \in Part /\ Header(m).of = m /\ Header(m).kind = "header"
      BY <1>3, Parts DEF Header
    <3>3. writing'[p] # <<>> /\ Head(writing'[p]) = Header(m)
      BY <1>0, <1>1, <1>2, <1>3, <2>1, <3>1, <3>2, Appended
    <3> QED
      BY <1>1, <1>5, <2>1, <3>1, <3>2, <3>3 DEF CanWrite, Writer, At
  <2>2. CASE m_qMessagesOut[p] # <<>>
    <3>1. writing'[p] = writing[p]
      BY <1>1, <2>2
    <3>2. m_qMessagesOut'[p] # <<>>
      BY <1>7, EmptySeq
    <3> QED
      BY <1>1, <3>1, <3>2 DEF CanWrite, Writer, At
  <2> QED
    BY <2>1, <2>2
<1>11. EndsInv(p, q, Q + 1)'
  BY <1>1, <1>9, <1>10 DEF DirectionInv, EndsInv, At, After
<1> QED
  BY <1>1, <1>6, <1>8, <1>9, <1>11 DEF DirectionInv, ChannelStep

\* A write completes: the writer moves to the position after the part written.
LEMMA WriteDirection ==
    ASSUME NEW p \in End, NEW q \in End, NEW Q \in Nat, DirectionInv(p, q, Q), WriteInv,
           Write(p)
    PROVE  DirectionInv(p, q, Q)' /\ ChannelStep(p, q)
<1>0. /\ m_qMessagesOut[p] \in Seq(Message) /\ writing[p] \in Seq(Part)
      /\ stream[p] \in Seq(Part) /\ sent[p] \in Seq(Message)
      /\ writing[p] # <<>> /\ m_qMessagesOut[p] # <<>> /\ Len(writing[p]) <= 1
      /\ Head(writing[p]).of = Head(m_qMessagesOut[p])
      /\ UNCHANGED <<sent, posted, m_socket, link, reading, m_msgTemporaryIn,
                     m_qMessagesIn>>
  BY DEF WriteInv, OneWrite, TypeOK, Write, inVars
<1>1. PICK x : x = Head(writing[p])
  OBVIOUS
<1>2. x \in Part /\ Tail(writing[p]) = <<>> /\ x.of \in Message
  BY <1>0, <1>1, Popped, Parts
<1>3. /\ Len(m_qMessagesOut[p]) \in Nat /\ Len(m_qMessagesOut[p]) >= 1
      /\ DOMAIN m_qMessagesOut[p] = 1 .. Len(m_qMessagesOut[p])
      /\ Tail(m_qMessagesOut[p]) \in Seq(Message)
      /\ Len(Tail(m_qMessagesOut[p])) = Len(m_qMessagesOut[p]) - 1
      /\ DOMAIN Tail(m_qMessagesOut[p]) = 1 .. Len(m_qMessagesOut[p]) - 1
      /\ \A i \in 1 .. Len(m_qMessagesOut[p]) - 1 :
            Tail(m_qMessagesOut[p])[i] = m_qMessagesOut[p][i + 1]
      /\ x.of = m_qMessagesOut[p][1]
      /\ Tail(m_qMessagesOut[p]) = <<>> <=> Len(m_qMessagesOut[p]) = 1
  BY <1>0, <1>1, TailAt
<1>4. OutInv(p, Q) /\ StreamInv(p) /\ EndsInv(p, q, Q) /\ x.of.id \in Nat
      /\ Genuine(p, x.of) /\ x.of.id = Q - Len(m_qMessagesOut[p]) + 1
  <2>1. OutInv(p, Q) /\ StreamInv(p) /\ EndsInv(p, q, Q) /\ x.of.id \in Nat
    BY <1>2, Parts DEF DirectionInv
  <2>2. 1 \in DOMAIN m_qMessagesOut[p]
    BY <1>3
  <2> QED
    BY <1>3, <2>1, <2>2 DEF OutInv
<1>5. Writer(p, Q) = At(x)
  BY <1>0, <1>1 DEF Writer
<1>6. /\ OutInv(p, Q)' /\ Writer(p, Q)' = After(x)
  <2>1. CASE x.kind = "header" /\ x.of.body # Empty
    <3>1. /\ m_qMessagesOut' = m_qMessagesOut
          /\ writing'[p] = Append(<<>>, Body(x.of))
      BY <1>0, <1>1, <1>2, <2>1 DEF Write, NextWrite, WriteInv, TypeOK
    <3>2. x.of \in Message /\ Body(x.of) \in Part /\ Body(x.of).of = x.of
          /\ Body(x.of).kind = "body"
      BY <1>2, Parts DEF Body
    <3>3. writing'[p] # <<>> /\ Head(writing'[p]) = Body(x.of)
      BY <3>1, <3>2, Appended, EmptySeq
    <3>4. OutInv(p, Q)'
      BY <1>0, <1>4, <3>1 DEF OutInv, Genuine
    <3>5. Writer(p, Q)' = After(x)
      BY <2>1, <3>2, <3>3 DEF Writer, At, After
    <3> QED
      BY <3>4, <3>5
  <2>2. CASE ~(x.kind = "header" /\ x.of.body # Empty)
    <3>1. PICK rest : rest = Tail(m_qMessagesOut[p])
      OBVIOUS
    <3>2. /\ m_qMessagesOut'[p] = rest
          /\ writing'[p] = IF rest = <<>> THEN <<>> ELSE Append(<<>>, Header(Head(rest)))
      <4>1. ~(x.kind = "header" /\ Head(m_qMessagesOut[p]).body # Empty)
        BY <1>0, <1>1, <2>2
      <4>2. /\ m_qMessagesOut' = [m_qMessagesOut EXCEPT ![p] = rest]
            /\ writing' = [writing EXCEPT ![p] =
                             IF rest = <<>> THEN Tail(@)
                             ELSE Append(Tail(@), Header(Head(rest)))]
        BY <1>1, <3>1, <4>1 DEF Write, NextWrite
      <4> QED
        BY <1>2, <4>2 DEF WriteInv, TypeOK
    <3>3. \A i \in DOMAIN rest :
             /\ rest[i].id = Q - Len(rest) + i /\ rest[i].id \in DOMAIN sent[p]
             /\ rest[i] = sent[p][rest[i].id]
      <4> TAKE i \in DOMAIN rest
      <4>1. /\ i + 1 \in DOMAIN m_qMessagesOut[p] /\ i \in Nat
            /\ rest[i] = m_qMessagesOut[p][i + 1]
            /\ Len(rest) = Len(m_qMessagesOut[p]) - 1
        BY <1>3, <3>1
      <4>2. /\ rest[i].id = Q - Len(m_qMessagesOut[p]) + (i + 1)
            /\ rest[i].id \in DOMAIN sent[p] /\ rest[i] = sent[p][rest[i].id]
        BY <1>4, <4>1 DEF OutInv, Genuine
      <4> QED
        BY <1>3, <4>1, <4>2
    <3>4. Len(rest) <= Q /\ Q <= Len(sent[p])
      BY <1>3, <1>4, <3>1 DEF OutInv
    <3>5. OutInv(p, Q)'
      BY <1>0, <3>2, <3>3, <3>4 DEF OutInv, Genuine
    <3>6. After(x) = <<x.of.id + 1, "header">>
      BY <2>2 DEF After
    <3>7. CASE rest = <<>>
      <4>1. Len(m_qMessagesOut[p]) = 1 /\ writing'[p] = <<>>
        BY <1>3, <3>1, <3>2, <3>7
      <4>2. x.of.id + 1 = Q + 1
        BY <1>4, <4>1
      <4> QED
        BY <3>5, <3>6, <4>1, <4>2 DEF Writer
    <3>8. CASE rest # <<>>
      <4>1. /\ Head(rest) \in Message /\ Head(rest) = rest[1] /\ 1 \in DOMAIN rest
            /\ Len(rest) = Len(m_qMessagesOut[p]) - 1
        <5>1. rest \in Seq(Message) /\ Len(rest) = Len(m_qMessagesOut[p]) - 1
          BY <1>3, <3>1
        <5>2. /\ Head(rest) = rest[1] /\ rest[1] \in Message /\ Len(rest) \in Nat
              /\ Len(rest) >= 1 /\ DOMAIN rest = 1 .. Len(rest)
          BY <3>8, <5>1, TailAt
        <5> QED
          BY <5>1, <5>2
      <4>2. Head(rest).id = x.of.id + 1
        <5>1. Head(rest).id = Q - Len(rest) + 1
          BY <3>3, <4>1
        <5>2. Len(m_qMessagesOut[p]) \in Nat
          BY <1>3
        <5>3. x.of.id = Q - Len(m_qMessagesOut[p]) + 1
          BY <1>4
        <5>4. PICK a \in Nat : a = Len(m_qMessagesOut[p])
          BY <5>2
        <5>5. Head(rest).id = Q - (a - 1) + 1
          BY <4>1, <5>1, <5>4
        <5>6. x.of.id = Q - a + 1
          BY <5>3, <5>4
        <5>7. Q - (a - 1) + 1 = (Q - a + 1) + 1
          OBVIOUS
        <5> QED
          BY <5>5, <5>6, <5>7
      <4>3. /\ Header(Head(rest)) \in Part /\ Header(Head(rest)).of = Head(rest)
            /\ Header(Head(rest)).kind = "header"
        BY <4>1, Parts DEF Header
      <4>4. writing'[p] # <<>> /\ Head(writing'[p]) = Header(Head(rest))
        <5>1. writing'[p] = Append(<<>>, Header(Head(rest))) /\ <<>> \in Seq(Part)
          BY <3>2, <3>8, EmptySeq
        <5> QED
          BY <4>3, <5>1, Appended
      <4> QED
        BY <3>5, <3>6, <4>2, <4>3, <4>4 DEF Writer, At
    <3> QED
      BY <3>5, <3>6, <3>7, <3>8
  <2> QED
    BY <2>1, <2>2
<1>7. /\ PostedInv(p, Q)' /\ BodyInv(p)' /\ TempInv(q)' /\ Reader(q)' = Reader(q)
      /\ (Alive(q)' <=> Alive(q))
  BY <1>0 DEF DirectionInv, PostedInv, Genuine, BodyInv, TempInv, Reader, Alive
<1>8. CASE link = "up"
  <2>1. stream'[p] = Append(stream[p], x) /\ CanWrite(p)
    BY <1>0, <1>1, <1>8 DEF Write, CanWrite, WriteInv, TypeOK
  <2>2. /\ Len(stream[p]) \in Nat /\ DOMAIN stream[p] = 1 .. Len(stream[p])
        /\ stream'[p] # <<>> /\ Len(stream'[p]) = Len(stream[p]) + 1
        /\ DOMAIN stream'[p] = 1 .. Len(stream[p]) + 1
        /\ \A i \in 1 .. Len(stream[p]) : stream'[p][i] = stream[p][i]
        /\ stream'[p][Len(stream[p]) + 1] = x
        /\ stream[p] = <<>> <=> Len(stream[p]) = 0
    BY <1>0, <1>2, <2>1, AppendAt, Appended, EmptySeq
  <2>3. stream[p] # <<>> => At(x) = After(stream[p][Len(stream[p])])
    BY <1>4, <1>5, <2>1 DEF EndsInv
  <2>4. ASSUME NEW i \in DOMAIN stream'[p]
        PROVE  /\ stream'[p][i].of.id \in DOMAIN sent[p]
               /\ stream'[p][i].of = sent[p][stream'[p][i].of.id]
               /\ i + 1 \in DOMAIN stream'[p] => At(stream'[p][i + 1]) = After(stream'[p][i])
    <3>1. CASE i = Len(stream[p]) + 1
      <4>1. i + 1 \notin DOMAIN stream'[p] /\ stream'[p][i] = x
        BY <2>2, <3>1
      <4> QED
        BY <1>4, <4>1 DEF Genuine
    <3>2. CASE i = Len(stream[p]) /\ i \in DOMAIN stream[p]
      BY <1>4, <2>2, <2>3, <3>2 DEF StreamInv, Genuine
    <3>3. CASE i + 1 \in DOMAIN stream[p] /\ i \in DOMAIN stream[p]
      <4>1. stream'[p][i] = stream[p][i] /\ stream'[p][i + 1] = stream[p][i + 1]
        BY <2>2, <3>3
      <4> QED
        BY <1>4, <3>3, <4>1 DEF StreamInv, Genuine
    <3> QED
      BY <2>2, <3>1, <3>2, <3>3
  <2>5. StreamInv(p)'
    BY <1>0, <2>4 DEF StreamInv, Genuine, At, After
  <2>6. Alive(q) => At(stream'[p][1]) = Reader(q)
    <3>1. CASE stream[p] = <<>>
      BY <1>4, <1>5, <2>1, <2>2, <3>1 DEF EndsInv
    <3>2. CASE stream[p] # <<>>
      <4>1. stream'[p][1] = stream[p][1]
        BY <2>2, <3>2
      <4> QED
        BY <1>4, <3>2, <4>1 DEF EndsInv
    <3> QED
      BY <3>1, <3>2
  <2>7. stream'[p][Len(stream'[p])] = x
    BY <2>2
  <2>8. EndsInv(p, q, Q)'
    BY <1>6, <1>7, <2>2, <2>6, <2>7 DEF EndsInv, At, After
  <2> QED
    BY <1>0, <1>6, <1>7, <2>5, <2>8 DEF DirectionInv, ChannelStep
<1>9. CASE link # "up"
  <2>1. stream' = stream /\ ~CanWrite(p)'
    BY <1>0, <1>9 DEF Write, CanWrite
  <2>2. StreamInv(p)'
    BY <1>0, <1>4, <2>1 DEF StreamInv, Genuine, At, After
  <2>3. EndsInv(p, q, Q)'
    BY <1>4, <1>7, <2>1 DEF EndsInv, At
  <2> QED
    BY <1>0, <1>6, <1>7, <2>2, <2>3 DEF DirectionInv, ChannelStep
<1> QED
  BY <1>8, <1>9

\* A write fails: nothing of this end reaches the stream any more.
LEMMA WriteFailsDirection ==
    ASSUME NEW p \in End, NEW q \in End, p # q, NEW Q \in Nat, DirectionInv(p, q, Q),
           WriteInv, WriteFails(p)
    PROVE  DirectionInv(p, q, Q)' /\ ChannelStep(p, q)
<1>1. /\ writing[p] # <<>> /\ writing[p] \in Seq(Part) /\ Len(writing[p]) <= 1
      /\ m_qMessagesOut[p] # <<>> /\ writing'[p] = Tail(writing[p])
      /\ \A r \in End \ {p} : m_socket'[r] = m_socket[r]
      /\ UNCHANGED <<sent, posted, m_qMessagesOut, stream, link, reading,
                     m_msgTemporaryIn, m_qMessagesIn>>
  BY DEF WriteFails, WriteInv, OneWrite, TypeOK, inVars
<1>2. writing'[p] = <<>>
  BY <1>1, Popped
<1>3. ~CanWrite(p)' /\ Reader(q)' = Reader(q) /\ (Alive(q)' <=> Alive(q))
  BY <1>1, <1>2 DEF CanWrite, Reader, Alive
<1>4. PostedInv(p, Q)' /\ OutInv(p, Q)' /\ BodyInv(p)' /\ TempInv(q)'
  BY <1>1 DEF DirectionInv, PostedInv, OutInv, BodyInv, TempInv, Genuine
<1>5. StreamInv(p)'
  BY <1>1 DEF DirectionInv, StreamInv, Genuine, At, After
<1>6. EndsInv(p, q, Q)'
  BY <1>1, <1>3 DEF DirectionInv, EndsInv, At
<1> QED
  BY <1>1, <1>4, <1>5, <1>6 DEF DirectionInv, ChannelStep

\* A read completes: the part at the front of the stream is the one expected, and
\* the reader moves to the position after it.
LEMMA ReadDirection ==
    ASSUME NEW p \in End, NEW q \in End, p # q, Other(q) = p, NEW Q \in Nat,
           DirectionInv(p, q, Q), TypeOK, ReadHeader(q) \/ ReadBody(q)
    PROVE  /\ DirectionInv(p, q, Q)'
           /\ q = Client \/ p \notin Bodyless => ChannelStep(p, q)
<1>0. /\ stream[p] \in Seq(Part) /\ stream[p] # <<>> /\ stream'[p] = Tail(stream[p])
      /\ reading[q] \in {"header", "body"} /\ m_qMessagesIn[q] \in Seq(Message)
      /\ m_msgTemporaryIn[q] \in Message /\ sent[p] \in Seq(Message)
      /\ UNCHANGED <<sent, posted, m_qMessagesOut, writing, m_socket, link>>
  BY DEF ReadHeader, ReadBody, TypeOK, outVars
<1>1. PICK x : x = stream[p][1]
  OBVIOUS
<1>2. /\ Len(stream[p]) \in Nat /\ Len(stream[p]) >= 1
      /\ DOMAIN stream[p] = 1 .. Len(stream[p])
      /\ Len(stream'[p]) = Len(stream[p]) - 1
      /\ DOMAIN stream'[p] = 1 .. Len(stream[p]) - 1
      /\ \A i \in 1 .. Len(stream[p]) - 1 : stream'[p][i] = stream[p][i + 1]
      /\ Head(stream[p]) = x /\ x \in Part
      /\ stream'[p] = <<>> <=> Len(stream[p]) = 1
  BY <1>0, <1>1, TailAt
<1>3. PICK n \in Nat : n = Len(m_qMessagesIn[q])
  BY <1>0, LenProperties
<1>4. /\ StreamInv(p) /\ EndsInv(p, q, Q) /\ TempInv(q) /\ BodyInv(p)
      /\ Alive(q) /\ m_socket[q] # "new"
  BY <1>0 DEF DirectionInv, Alive, TempInv
<1>5. /\ x.of.id = n + 1
      /\ reading[q] = "header" <=> x.kind = "header"
      /\ Genuine(p, x.of) /\ x.of \in Message
  <2>1. At(x) = Reader(q)
    BY <1>0, <1>1, <1>4 DEF EndsInv
  <2>2. 1 \in DOMAIN stream[p]
    BY <1>2
  <2>3. Genuine(p, x.of) /\ x.of \in Message
    BY <1>1, <1>2, <1>4, <2>2, Parts DEF StreamInv
  <2> QED
    BY <1>0, <1>3, <2>1, <2>3 DEF At, Reader
<1>6. PICK m : m = [id |-> n + 1, body |-> IF reading[q] = "body" THEN x.of.body
                                                      ELSE m_msgTemporaryIn[q].body]
  OBVIOUS
<1>7. m \in Message /\ m.id = n + 1
  BY <1>0, <1>5, <1>6, Parts
<1>8. \/ /\ reading[q] = "header" /\ x.of.body # Empty
         /\ m_msgTemporaryIn'[q] = m
         /\ reading'[q] = IF m_socket[q] = "open" THEN "body" ELSE "none"
         /\ m_qMessagesIn'[q] = m_qMessagesIn[q]
      \/ /\ reading[q] = "body" \/ x.of.body = Empty
         /\ m_qMessagesIn'[q] = Append(m_qMessagesIn[q], m)
         /\ m_msgTemporaryIn'[q] =
              IF q = Server THEN m ELSE [id |-> m.id, body |-> Empty]
         /\ reading'[q] = IF m_socket[q] = "open" THEN "header" ELSE "none"
  <2>1. CASE ReadHeader(q)
    <3>1. /\ reading[q] = "header"
          /\ m = [id |-> x.of.id, body |-> m_msgTemporaryIn[q].body]
      BY <1>5, <1>6, <2>1 DEF ReadHeader
    <3>2. CASE x.of.body = Empty
      <4>1. AddToIncomingMessageQueue(q, m)
        BY <1>2, <2>1, <3>1, <3>2 DEF ReadHeader
      <4> QED
        BY <3>2, <4>1 DEF AddToIncomingMessageQueue, TypeOK
    <3>3. CASE x.of.body # Empty
      <4>1. /\ m_msgTemporaryIn' = [m_msgTemporaryIn EXCEPT ![q] = m]
            /\ reading' = [reading EXCEPT ![q] =
                             IF m_socket[q] = "open" THEN "body" ELSE "none"]
            /\ UNCHANGED m_qMessagesIn
        BY <1>2, <2>1, <3>1, <3>3 DEF ReadHeader
      <4> QED
        BY <3>1, <3>3, <4>1 DEF TypeOK
    <3> QED
      BY <3>2, <3>3
  <2>2. CASE ReadBody(q)
    <3>1. m = [id |-> m_msgTemporaryIn[q].id, body |-> x.of.body]
      BY <1>3, <1>4, <1>6, <2>2 DEF ReadBody, TempInv
    <3> QED
      BY <1>2, <2>2, <3>1 DEF ReadBody, AddToIncomingMessageQueue, TypeOK
  <2> QED
    BY <2>1, <2>2
<1>9. Len(Append(m_qMessagesIn[q], m)) = n + 1
  BY <1>0, <1>3, <1>7, AppendAt
<1>10. Alive(q)' => Reader(q)' = After(x)
  BY <1>0, <1>3, <1>4, <1>5, <1>8, <1>9 DEF Alive, Reader, After
<1>11. TempInv(q)'
  <2>1. reading'[q] = "body" => m_msgTemporaryIn'[q].id = Len(m_qMessagesIn'[q]) + 1
    BY <1>3, <1>7, <1>8
  <2>2. q = Client => m_msgTemporaryIn'[q].body = Empty
    BY <1>4, <1>6, <1>8, ConnectionAssumption DEF TempInv
  <2> QED
    BY <1>0, <1>4, <2>1, <2>2 DEF TempInv
<1>12. StreamInv(p)'
  <2>1. ASSUME NEW i \in DOMAIN stream'[p]
        PROVE  /\ stream'[p][i].of.id \in DOMAIN sent[p]
               /\ stream'[p][i].of = sent[p][stream'[p][i].of.id]
               /\ i + 1 \in DOMAIN stream'[p] => At(stream'[p][i + 1]) = After(stream'[p][i])
    <3>1. i + 1 \in DOMAIN stream[p] /\ stream'[p][i] = stream[p][i + 1]
      BY <1>2
    <3>2. i + 1 \in DOMAIN stream'[p] =>
            (i + 1) + 1 \in DOMAIN stream[p] /\ stream'[p][i + 1] = stream[p][(i + 1) + 1]
      BY <1>2
    <3> QED
      BY <1>4, <3>1, <3>2 DEF StreamInv, Genuine
  <2> QED
    BY <1>0, <2>1 DEF StreamInv, Genuine, At, After
<1>13. EndsInv(p, q, Q)'
  <2>1. /\ CanWrite(p)' <=> CanWrite(p)
        /\ Writer(p, Q)' = Writer(p, Q)
    BY <1>0 DEF CanWrite, Writer, At
  <2>2. CASE Len(stream[p]) = 1
    <3>1. stream'[p] = <<>> /\ (CanWrite(p) => Writer(p, Q) = After(x))
      BY <1>0, <1>1, <1>2, <1>4, <2>2 DEF EndsInv
    <3> QED
      BY <1>10, <2>1, <3>1 DEF EndsInv
  <2>3. CASE Len(stream[p]) # 1
    <3>1. /\ stream'[p] # <<>> /\ 1 \in DOMAIN stream[p] /\ 1 + 1 \in DOMAIN stream[p]
          /\ stream'[p][1] = stream[p][1 + 1]
          /\ stream'[p][Len(stream'[p])] = stream[p][Len(stream[p])]
      BY <1>2, <2>3
    <3>2. At(stream'[p][1]) = After(x)
      BY <1>1, <1>4, <3>1 DEF StreamInv
    <3>3. CanWrite(p) => Writer(p, Q) = After(stream'[p][Len(stream'[p])])
      BY <1>0, <1>4, <3>1 DEF EndsInv
    <3> QED
      BY <1>10, <2>1, <3>1, <3>2, <3>3 DEF EndsInv, At, After
  <2> QED
    BY <2>2, <2>3
<1>14. PostedInv(p, Q)' /\ OutInv(p, Q)' /\ BodyInv(p)'
  BY <1>0 DEF DirectionInv, PostedInv, OutInv, BodyInv, Genuine
<1>15. ASSUME q = Client \/ p \notin Bodyless PROVE ChannelStep(p, q)
  <2>1. CASE m_qMessagesIn'[q] = m_qMessagesIn[q]
    BY <1>0, <2>1 DEF ChannelStep
  <2>2. CASE /\ reading[q] = "body" \/ x.of.body = Empty
             /\ m_qMessagesIn'[q] = Append(m_qMessagesIn[q], m)
    <3>1. n + 1 \in DOMAIN sent[p] /\ x.of = sent[p][n + 1]
      BY <1>5 DEF Genuine
    <3>2. m.body = x.of.body
      BY <1>4, <1>6, <1>15, <2>2, <3>1 DEF TempInv, BodyInv
    <3>3. m = x.of
      BY <1>5, <1>7, <3>2 DEF Message
    <3>4. n < Len(sent[p])
      BY <1>0, <3>1, LenProperties
    <3> QED
      BY <1>0, <1>3, <2>2, <3>1, <3>3, <3>4 DEF ChannelStep
  <2> QED
    BY <1>8, <2>1, <2>2
<1> QED
  BY <1>11, <1>12, <1>13, <1>14, <1>15 DEF DirectionInv

\* Every step keeps the invariant of each direction, and is a step of its Channel
\* where m_msgTemporaryIn holds no stale body.
LEMMA DirectionStep ==
    ASSUME WriteInv, NEW p \in End, NEW q \in End, q = Other(p), NEW Q \in Nat,
           DirectionInv(p, q, Q), [Next]_vars
    PROVE  /\ \E R \in Nat : DirectionInv(p, q, R)'
           /\ q = Client \/ p \notin Bodyless => ChannelStep(p, q)
<1>0. /\ p # q /\ Other(q) = p /\ Q + 1 \in Nat /\ TypeOK
      /\ \A e \in End : e = p \/ e = q
      /\ Client \in End
      /\ m_socket[q] = "new" => reading[q] = "none"
  BY BothEnds DEF WriteInv, DirectionInv, TempInv, End
<1>1. ASSUME NEW e \in End, Connect(e) \/ ReadFails(e)
      PROVE  DirectionInv(p, q, Q)' /\ ChannelStep(p, q)
  <2>1. /\ UNCHANGED <<sent, posted, m_qMessagesOut, writing, stream, m_msgTemporaryIn,
                       m_qMessagesIn, link>>
        /\ reading'[q] = "body" => reading[q] = "body"
        /\ m_socket'[q] = "new" => m_socket[q] = "new" /\ reading'[q] = reading[q]
        /\ CanWrite(p)' => CanWrite(p)
    BY <1>0, <1>1 DEF Connect, ReadFails, outVars, CanWrite, TypeOK
  <2>2. Alive(q)' => Alive(q) /\ Reader(q)' = Reader(q)
    BY <1>0, <1>1, <2>1 DEF Connect, ReadFails, Alive, Reader, TypeOK
  <2> QED
    BY <2>1, <2>2, DirectionUnchanged
<1>2. CASE ConnectFails \/ Break \/ UNCHANGED vars
  <2>1. /\ UNCHANGED <<sent, posted, m_qMessagesOut, writing, stream, m_msgTemporaryIn,
                       m_qMessagesIn, reading>>
        /\ m_socket'[q] = "new" => m_socket[q] = "new"
        /\ CanWrite(p)' => CanWrite(p)
        /\ Alive(q)' => Alive(q)
    BY <1>0, <1>2 DEF ConnectFails, Break, vars, outVars, inVars, CanWrite, Alive, TypeOK
  <2>2. Reader(q)' = Reader(q)
    BY <2>1 DEF Reader
  <2> QED
    BY <2>1, <2>2, DirectionUnchanged
<1>3. ASSUME Send(q) \/ RunClose(q) \/ RunSend(q) \/ Write(q) \/ WriteFails(q)
             \/ (Disconnect /\ q = Client)
      PROVE  DirectionInv(p, q, Q)' /\ ChannelStep(p, q)
  <2>1. /\ sent'[p] = sent[p] /\ posted'[p] = posted[p]
        /\ m_qMessagesOut'[p] = m_qMessagesOut[p] /\ writing'[p] = writing[p]
        /\ stream'[p] = stream[p] /\ m_socket'[p] = m_socket[p]
        /\ UNCHANGED <<m_msgTemporaryIn, m_qMessagesIn, reading, link>>
        /\ m_socket'[q] = "new" => m_socket[q] = "new"
    BY <1>0, <1>3
    DEF Send, RunClose, RunSend, Write, NextWrite, WriteFails, Disconnect, outVars,
        inVars, TypeOK
  <2>2. /\ Reader(q)' = Reader(q) /\ (Alive(q)' => Alive(q))
        /\ CanWrite(p)' => CanWrite(p)
    BY <2>1 DEF Reader, Alive, CanWrite
  <2> QED
    BY <2>1, <2>2, DirectionUnchanged
<1>4. ASSUME RunClose(p) \/ (Disconnect /\ p = Client)
      PROVE  DirectionInv(p, q, Q)' /\ ChannelStep(p, q)
  <2>1. /\ UNCHANGED <<sent, m_qMessagesOut, writing, stream, inVars, link>>
        /\ m_socket' = m_socket \/ m_socket' = [m_socket EXCEPT ![p] = "closed"]
        /\ \/ posted'[p] = Append(posted[p], Close)
           \/ posted[p] # <<>> /\ Head(posted[p]) = Close /\ posted'[p] = Tail(posted[p])
    <3>1. CASE RunClose(p)
      BY <1>0, <3>1 DEF RunClose, TypeOK
    <3>2. CASE Disconnect /\ p = Client
      BY <1>0, <3>2 DEF Disconnect, TypeOK
    <3> QED
      BY <1>4, <3>1, <3>2
  <2> QED
    BY <1>0, <2>1, CloseDirection
<1>5. ASSUME Send(p) \/ Write(p) \/ WriteFails(p)
      PROVE  DirectionInv(p, q, Q)' /\ ChannelStep(p, q)
  BY <1>0, <1>5, SendDirection, WriteDirection, WriteFailsDirection
<1>6. ASSUME RunSend(p)
      PROVE  DirectionInv(p, q, Q + 1)' /\ ChannelStep(p, q)
  BY <1>6, RunSendDirection
<1>7. ASSUME ReadHeader(p) \/ ReadBody(p)
      PROVE  DirectionInv(p, q, Q)' /\ ChannelStep(p, q)
  <2>1. /\ stream'[p] = stream[p] /\ reading'[q] = reading[q]
        /\ m_msgTemporaryIn'[q] = m_msgTemporaryIn[q]
        /\ m_qMessagesIn'[q] = m_qMessagesIn[q]
        /\ UNCHANGED <<sent, posted, m_qMessagesOut, writing, m_socket, link>>
    BY <1>0, <1>7 DEF ReadHeader, ReadBody, AddToIncomingMessageQueue, outVars, TypeOK
  <2>2. /\ Reader(q)' = Reader(q) /\ (Alive(q)' => Alive(q))
        /\ CanWrite(p)' => CanWrite(p)
    BY <2>1 DEF Reader, Alive, CanWrite
  <2> QED
    BY <2>1, <2>2, DirectionUnchanged
<1>8. ASSUME ReadHeader(q) \/ ReadBody(q)
      PROVE  /\ DirectionInv(p, q, Q)'
             /\ q = Client \/ p \notin Bodyless => ChannelStep(p, q)
  BY <1>0, <1>8, ReadDirection
<1> QED
  BY <1>0, <1>1, <1>2, <1>3, <1>4, <1>5, <1>6, <1>7, <1>8 DEF Next, Handlers

\* Both directions, in every reachable state.
DirectionsInv ==
    \A p \in End : \E Q \in Nat : DirectionInv(p, Other(p), Q)

LEMMA DirectionsInit == Init => DirectionsInv
<1> SUFFICES ASSUME Init, NEW p \in End PROVE DirectionInv(p, Other(p), 0)
  BY DEF DirectionsInv
<1>1. PICK q \in End : q = Other(p)
  BY Ends
<1>2. /\ sent[p] = <<>> /\ posted[p] = <<>> /\ m_qMessagesOut[p] = <<>>
      /\ writing[p] = <<>> /\ stream[p] = <<>> /\ reading[q] = "none"
      /\ m_msgTemporaryIn[q] = Close /\ m_qMessagesIn[q] = <<>>
  BY DEF Init
<1>3. Len(<<>>) = 0 /\ DOMAIN <<>> = {} /\ 0 + 1 .. 0 = {}
  OBVIOUS
<1>4. PostedInv(p, 0) /\ OutInv(p, 0) /\ StreamInv(p) /\ BodyInv(p)
  BY <1>2, <1>3 DEF PostedInv, OutInv, StreamInv, BodyInv
<1>5. EndsInv(p, q, 0) /\ TempInv(q)
  BY <1>2, <1>3 DEF EndsInv, Writer, Reader, TempInv, Close
<1> QED
  BY <1>1, <1>4, <1>5 DEF DirectionInv

LEMMA DirectionsStep == WriteInv /\ DirectionsInv /\ [Next]_vars => DirectionsInv'
<1> SUFFICES ASSUME WriteInv, DirectionsInv, [Next]_vars, NEW p \in End
             PROVE  \E R \in Nat : DirectionInv(p, Other(p), R)'
  BY DEF DirectionsInv
<1>1. PICK q \in End : q = Other(p)
  BY Ends
<1>2. PICK Q \in Nat : DirectionInv(p, q, Q)
  BY <1>1 DEF DirectionsInv
<1>3. \E R \in Nat : DirectionInv(p, q, R)'
  BY <1>1, <1>2, DirectionStep
<1> QED
  BY <1>1, <1>3

LEMMA DirectionsInvariant == Spec => [](WriteInv /\ DirectionsInv)
  BY DirectionsInit, DirectionsStep, ConnectionInvariant, PTL DEF Spec

\* What the Master sends a Worker arrives whole, in order and once, up to where the
\* connection is lost, whatever the interleaving of Send calls and handlers: also the
\* messages without a body, since the client keeps none in m_msgTemporaryIn.
THEOREM ToClientIsChannel == Spec => ImplementsToClient
<1>1. Init => ToClient!Init
  BY DEF Init, ToClient!Init, End
<1>2. WriteInv /\ DirectionsInv /\ [Next]_vars
        => [ToClient!Next]_<<sent[Server], m_qMessagesIn[Client]>>
  <2> SUFFICES ASSUME WriteInv, DirectionsInv, [Next]_vars
               PROVE  [ToClient!Next]_<<sent[Server], m_qMessagesIn[Client]>>
    OBVIOUS
  <2>1. Server \in End /\ Client \in End /\ Client = Other(Server)
    BY DEF End, Other
  <2>2. PICK Q \in Nat : DirectionInv(Server, Client, Q)
    BY <2>1 DEF DirectionsInv
  <2>3. ChannelStep(Server, Client)
    BY <2>1, <2>2, DirectionStep
  <2> QED
    BY <2>3 DEF ChannelStep, ToClient!Next, ToClient!Send, ToClient!Receive
<1> QED
  BY <1>1, <1>2, DirectionsInvariant, PTL DEF Spec, ImplementsToClient, ToClient!Spec

\* What a Worker sends the Master does, too, as long as all of it has a body, as it
\* has in this program: the server does not clear m_msgTemporaryIn, and would give a
\* message without a body the one of the message before.
THEOREM ToServerIsChannel ==
    ASSUME Client \notin Bodyless PROVE Spec => ImplementsToServer
<1>1. Init => ToServer!Init
  BY DEF Init, ToServer!Init, End
<1>2. WriteInv /\ DirectionsInv /\ [Next]_vars
        => [ToServer!Next]_<<sent[Client], m_qMessagesIn[Server]>>
  <2> SUFFICES ASSUME WriteInv, DirectionsInv, [Next]_vars
               PROVE  [ToServer!Next]_<<sent[Client], m_qMessagesIn[Server]>>
    OBVIOUS
  <2>1. Server \in End /\ Client \in End /\ Server = Other(Client)
    BY ConnectionAssumption DEF End, Other
  <2>2. PICK Q \in Nat : DirectionInv(Client, Server, Q)
    BY <2>1 DEF DirectionsInv
  <2>3. ChannelStep(Client, Server)
    BY <2>1, <2>2, DirectionStep
  <2> QED
    BY <2>3 DEF ChannelStep, ToServer!Next, ToServer!Send, ToServer!Receive
<1> QED
  BY <1>1, <1>2, DirectionsInvariant, PTL DEF Spec, ImplementsToServer, ToServer!Spec

=============================================================================
