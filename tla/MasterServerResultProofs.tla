---------------------- MODULE MasterServerResultProofs ----------------------
(***************************************************************************)
(* What becomes of chunks and their results, for every value of the        *)
(* constants.  No chunk is lost, duplicated or counted twice               *)
(* (NoDuplicates, ChunkAccounting), and what a client reads is right       *)
(* (LinesExact, DoneIsFinal, the refinement of SearchService).             *)
(***************************************************************************)
EXTENDS MasterServerProofs

-----------------------------------------------------------------------------
\* StartSearch creates n different tasks, all of the same search.
LEMMA NewTasksFacts ==
    ASSUME NEW s, NEW n \in Nat, NEW limit
    PROVE  /\ IsInjective(NewTasks(s, n, limit))
           /\ \A task \in Range(NewTasks(s, n, limit)) : task.search_id = s
           /\ Cardinality(Range(NewTasks(s, n, limit))) = n
<1> DEFINE q == NewTasks(s, n, limit)
<1>1. /\ DOMAIN q = 1 .. n
      /\ \A i \in 1 .. n :
            q[i] = [search_id |-> s, chunk |-> i, max_results |-> limit]
      /\ q \in [1 .. n -> Range(q)]
  BY DEF NewTasks, Range
<1> HIDE DEF q
<1>2. IsInjective(q)
  BY <1>1 DEF IsInjective
<1>3. \A task \in Range(q) : task.search_id = s
  BY <1>1 DEF Range
<1>4. q \in Bijection(1 .. n, Range(q))
  BY <1>1, <1>2 DEF Bijection, Injection, Surjection, Range
<1>5. Cardinality(Range(q)) = n
  BY <1>4, FS_CountingElements DEF ExistsBijection
<1> QED
  BY <1>2, <1>3, <1>5 DEF q

-----------------------------------------------------------------------------
(***************************************************************************)
(* The inductive invariant.  NoDuplicates is needed for ChunkAccounting    *)
(* (taking a chunk out of one place must not leave a copy in another one,  *)
(* or the set of outstanding chunks would not shrink), ChunkAccounting for *)
(* NoDuplicates (the chunks of a new search are new because every          *)
(* outstanding chunk belongs to a published session), and FreshIds for     *)
(* both (the id of the new search is not published).                       *)
(***************************************************************************)
ChunkInv == TypeOK /\ FreshIds /\ NoDuplicates /\ ChunkAccounting

\* Initially there is no chunk and no session.
LEMMA ChunkInit == Init => ChunkInv
<1> SUFFICES ASSUME Init PROVE ChunkInv
  OBVIOUS
<1>1. TypeOK
  BY TypeInit
<1>2. Live = {} /\ Waiting = {} /\ AtWorkers = {} /\ InHand = {}
  BY ThreadsDistinct
  DEF Init, Live, Waiting, AtWorkers, InHand, Range, Rest
<1>3. FreshIds
  BY DEF Init, FreshIds
<1>4. NoDuplicates
  BY <1>2 DEF Init, NoDuplicates, IsInjective
<1>5. ChunkAccounting
  BY <1>2 DEF Init, ChunkAccounting
<1> QED
  BY <1>1, <1>3, <1>4, <1>5 DEF ChunkInv

\* The outstanding chunks are finitely many.
LEMMA LiveFinite ==
    ASSUME TypeOK
    PROVE  IsFiniteSet(Live) /\ \A s : IsFiniteSet(Outstanding(s))
<1>1. IsFiniteSet(Waiting)
  BY RangeFinite DEF TypeOK, SchedulerTypeOK, Waiting
<1>2. IsFiniteSet(AtWorkers)
  <2>1. [f \in m_inFlightTasks |-> f.task]
          \in Surjection(m_inFlightTasks, AtWorkers)
    BY DEF Surjection, AtWorkers
  <2> QED
    BY <2>1, FS_Surjection DEF TypeOK, SchedulerTypeOK
<1>3. IsFiniteSet(InHand)
  BY FS_EmptySet, FS_Singleton DEF InHand
<1>4. IsFiniteSet(Live)
  BY <1>1, <1>2, <1>3, FS_Union DEF Live
<1>5. ASSUME NEW s PROVE IsFiniteSet(Outstanding(s))
  BY <1>4, FS_Subset DEF Outstanding
<1> QED
  BY <1>4, <1>5

\* Moving chunks between places leaves the accounts balanced.
LEMMA LiveUnchanged ==
    ASSUME ChunkAccounting, Live' = Live,
           DOMAIN m_sessions' = DOMAIN m_sessions,
           \A s \in DOMAIN m_sessions :
              /\ m_sessions'[s].chunks_done = m_sessions[s].chunks_done
              /\ m_sessions'[s].chunks_total = m_sessions[s].chunks_total
    PROVE  ChunkAccounting'
<1>1. \A s : Outstanding(s)' = Outstanding(s)
  BY DEF Outstanding
<1> QED
  BY <1>1 DEF ChunkAccounting

\* A step that leaves the three places alone keeps the chunk invariants.
LEMMA PlacesUnchanged ==
    ASSUME NoDuplicates, ChunkAccounting,
           UNCHANGED <<m_pendingTasks, m_inFlightTasks>>, InHand' = InHand,
           DOMAIN m_sessions' = DOMAIN m_sessions,
           \A s \in DOMAIN m_sessions :
              /\ m_sessions'[s].chunks_done = m_sessions[s].chunks_done
              /\ m_sessions'[s].chunks_total = m_sessions[s].chunks_total
    PROVE  NoDuplicates' /\ ChunkAccounting'
<1>1. Waiting' = Waiting /\ AtWorkers' = AtWorkers /\ Live' = Live
  BY DEF Waiting, AtWorkers, Live
<1>2. NoDuplicates'
  BY <1>1 DEF NoDuplicates
<1> QED
  BY <1>1, <1>2, LiveUnchanged

\* StartSearch: the chunks of the new session are new.
LEMMA StartSearchChunks ==
    ASSUME ChunkInv, NEW t \in Http, StartSearch(t)
    PROVE  FreshIds' /\ NoDuplicates' /\ ChunkAccounting'
<1> USE DEF ChunkInv
<1>0. t \in Thread /\ t # Main
  BY ThreadsDistinct
<1>1. CASE AllocateSearchId(t)
  <2>1. FreshIds'
    BY <1>1, ConstantsAssumption
    DEF AllocateSearchId, FreshIds, TypeOK, ThreadsTypeOK, SessionsTypeOK,
        SearchId
  <2>2. InHand' = InHand
    BY <1>0, <1>1, ThreadsDistinct
    DEF AllocateSearchId, InHand, TypeOK, ThreadsTypeOK
  <2> QED
    BY <1>1, <2>1, <2>2, PlacesUnchanged DEF AllocateSearchId, scheduler
<1>2. CASE StartSearchThrows(t)
  <2>1. FreshIds'
    BY <1>2 DEF StartSearchThrows, FreshIds, TypeOK, ThreadsTypeOK
  <2>2. InHand' = InHand
    BY <1>0, <1>2, ThreadsDistinct
    DEF StartSearchThrows, InHand, TypeOK, ThreadsTypeOK
  <2> QED
    BY <1>2, <2>1, <2>2, PlacesUnchanged DEF StartSearchThrows, scheduler
<1>3. ASSUME NEW n \in 0 .. MaxChunks, NEW e \in 0 .. MaxScanErrors,
             NEW limit \in Limits, AddPendingTasks(t, n, e, limit)
      PROVE  FreshIds' /\ NoDuplicates' /\ ChunkAccounting'
  <2>0. PICK s0 : s0 = sid[t]
    OBVIOUS
  <2> DEFINE new == NewTasks(s0, n, limit)
  <2>1. /\ s0 \in SearchId /\ s0 # None /\ n \in Nat /\ limit \in Nat
        /\ s0 \notin DOMAIN m_sessions
    BY <1>3, <2>0, ConstantsAssumption
    DEF AddPendingTasks, TypeOK, ThreadsTypeOK, FreshIds
  <2>2. /\ new \in Seq(Task) /\ IsInjective(new)
        /\ \A task \in Range(new) : task.search_id = s0
        /\ Cardinality(Range(new)) = n
    BY <2>1, NewTasksType, NewTasksFacts
  <2>3. Range(new) \cap Live = {}
    BY <2>1, <2>2 DEF ChunkAccounting
  <2>4. m_pendingTasks' = m_pendingTasks \o new
    BY <1>3, <2>0 DEF AddPendingTasks, BuildSession
  <2>5. /\ Waiting' = Waiting \cup Range(new)
        /\ AtWorkers' = AtWorkers /\ InHand' = InHand
        /\ Live' = Live \cup Range(new)
    <3>1. Waiting' = Waiting \cup Range(new)
      BY <2>2, <2>4, RangeConcatenation
      DEF TypeOK, SchedulerTypeOK, Waiting
    <3>2. AtWorkers' = AtWorkers
      BY <1>3 DEF AddPendingTasks, AtWorkers
    <3>3. InHand' = InHand
      BY <1>0, <1>3, ThreadsDistinct
      DEF AddPendingTasks, InHand, TypeOK, ThreadsTypeOK
    <3> QED
      BY <3>1, <3>2, <3>3 DEF Live
  <2> HIDE DEF new
  <2>6. FreshIds'
    <3>1. DOMAIN m_sessions' = DOMAIN m_sessions \cup {s0}
      BY <1>3, <2>0 DEF AddPendingTasks, BuildSession
    <3> QED
      BY <1>3, <2>0, <2>1, <3>1
      DEF AddPendingTasks, FreshIds, TypeOK, ThreadsTypeOK, SessionsTypeOK,
          SearchId
  <2>7. NoDuplicates'
    <3>1. IsInjective(m_pendingTasks')
      BY <2>2, <2>3, <2>4, JoinDisjoint
      DEF NoDuplicates, TypeOK, SchedulerTypeOK, Live, Waiting
    <3>2. m_inFlightTasks' = m_inFlightTasks
      BY <1>3 DEF AddPendingTasks
    <3> QED
      BY <2>3, <2>5, <3>1, <3>2 DEF NoDuplicates, Live
  <2>8. ChunkAccounting'
    <3>1. /\ DOMAIN m_sessions' = DOMAIN m_sessions \cup {s0}
          /\ m_sessions'[s0].chunks_done = 0 /\ m_sessions'[s0].chunks_total = n
          /\ \A s \in DOMAIN m_sessions : m_sessions'[s] = m_sessions[s]
      BY <1>3, <2>0, <2>1 DEF AddPendingTasks, BuildSession
    <3>2. Outstanding(s0)' = Range(new)
      BY <2>1, <2>2, <2>5 DEF Outstanding, ChunkAccounting
    <3>3. \A s \in DOMAIN m_sessions : Outstanding(s)' = Outstanding(s)
      BY <2>1, <2>2, <2>5 DEF Outstanding
    <3>4. \A task \in Live' : task.search_id \in DOMAIN m_sessions'
      BY <2>2, <2>5, <3>1 DEF ChunkAccounting
    <3>5. \A s \in DOMAIN m_sessions' :
             m_sessions'[s].chunks_done + Cardinality(Outstanding(s)')
               = m_sessions'[s].chunks_total
      BY <2>1, <2>2, <3>1, <3>2, <3>3 DEF ChunkAccounting
    <3> QED
      BY <3>4, <3>5 DEF ChunkAccounting
  <2> QED
    BY <2>6, <2>7, <2>8
<1> QED
  BY <1>1, <1>2, <1>3 DEF StartSearch

\* AssignIdleWorkers moves no chunk.
LEMMA AssignIdleWorkersChunks ==
    ASSUME ChunkInv, NEW t \in Http \cup {Watcher}, AssignIdleWorkers(t)
    PROVE  FreshIds' /\ NoDuplicates' /\ ChunkAccounting'
<1>1. UNCHANGED <<m_pendingTasks, m_inFlightTasks, m_sessions, m_nextSearchId,
                  sid, job>>
  BY DEF AssignIdleWorkers, AssignDone, AssignSkip, AssignWake, scheduler
<1>2. pc'[Main] = pc[Main]
  BY ThreadsDistinct
  DEF AssignIdleWorkers, AssignDone, AssignSkip, AssignWake, ChunkInv, TypeOK,
      ThreadsTypeOK
<1>3. InHand' = InHand
  BY <1>1, <1>2 DEF InHand
<1>4. FreshIds'
  BY <1>1 DEF ChunkInv, FreshIds
<1> QED
  BY <1>1, <1>3, <1>4, PlacesUnchanged DEF ChunkInv

\* The loop of DispatchNextTask calls does not change what Main has in hand.
LEMMA RepeatInHand ==
    ASSUME TypeOK, NEW t \in Thread, NEW d, Dispatching(t), Repeat(t, d),
           UNCHANGED job
    PROVE  InHand' = InHand
<1>1. pc' = pc \/ pc' = [pc EXCEPT ![t] = AfterLoop[pc[t]]]
  BY DEF Repeat
<1>2. \/ pc'[Main] = pc[Main]
      \/ pc[Main] = "hello" /\ pc'[Main] = "update"
      \/ pc[Main] = "next" /\ pc'[Main] = "aggregate"
  BY <1>1, AfterLoopValues, ThreadsDistinct
  DEF TypeOK, ThreadsTypeOK, Dispatching
<1> QED
  BY <1>2 DEF InHand

\* DispatchNextTask moves at most one chunk, from the deque to a Worker.
LEMMA DispatchNextTaskChunks ==
    ASSUME ChunkInv, NEW t \in Thread, DispatchNextTask(t)
    PROVE  FreshIds' /\ NoDuplicates' /\ ChunkAccounting'
<1> USE DEF ChunkInv
<1>1. FreshIds' /\ UNCHANGED m_sessions
  BY DEF FreshIds, DispatchNextTask, DispatchTask, DispatchParks,
         DispatchRefused, scheduler
<1>2. InHand' = InHand
  BY RepeatInHand
  DEF DispatchNextTask, DispatchTask, DispatchParks, DispatchRefused
<1>3. CASE DispatchTask(t)
  <2>1. PICK task, flight :
          /\ task = Head(m_pendingTasks)
          /\ flight.task = task
          /\ m_pendingTasks' = Tail(m_pendingTasks)
          /\ m_inFlightTasks' = m_inFlightTasks \cup {flight}
    BY <1>3 DEF DispatchTask, NextFlight
  <2>2. /\ task \in Waiting /\ task \notin AtWorkers /\ task \notin InHand
        /\ Waiting' = Waiting \ {task}
        /\ IsInjective(m_pendingTasks')
    BY <1>3, <2>1, TakeHead
    DEF DispatchTask, NoDuplicates, Waiting, TypeOK, SchedulerTypeOK
  <2>3. AtWorkers' = AtWorkers \cup {task}
    BY <2>1 DEF AtWorkers
  <2>4. Live' = Live
    BY <1>2, <2>2, <2>3 DEF Live
  <2>5. NoDuplicates'
    <3>1. \A f, g \in m_inFlightTasks' : f.task = g.task => f = g
      BY <2>1, <2>2 DEF NoDuplicates, AtWorkers
    <3> QED
      BY <1>2, <2>2, <2>3, <3>1 DEF NoDuplicates
  <2> QED
    BY <1>1, <2>4, <2>5, LiveUnchanged
<1>4. CASE DispatchParks(t) \/ DispatchRefused(t)
  <2>1. UNCHANGED <<m_pendingTasks, m_inFlightTasks>>
    BY <1>4 DEF DispatchParks, DispatchRefused, scheduler
  <2> QED
    BY <1>1, <1>2, <2>1, PlacesUnchanged
<1> QED
  BY <1>3, <1>4 DEF DispatchNextTask

\* OnMessage takes a chunk from a Worker into the hands of Main and counts it.
LEMMA OnMessageChunks ==
    ASSUME ChunkInv, OnMessage
    PROVE  FreshIds' /\ NoDuplicates' /\ ChunkAccounting'
<1> USE DEF ChunkInv
<1>1. CASE OnHello
  <2>1. InHand' = InHand
    BY <1>1, ThreadsDistinct
    DEF OnHello, Update, InHand, TypeOK, ThreadsTypeOK, loops
  <2>2. FreshIds'
    BY <1>1 DEF OnHello, FreshIds
  <2> QED
    BY <1>1, <2>1, <2>2, PlacesUnchanged DEF OnHello
<1>2. CASE OnTaskDone
  <2>1. PICK f \in m_inFlightTasks :
          /\ m_inFlightTasks' = m_inFlightTasks \ {f}
          /\ job'.task = f.task
          /\ pc' = [pc EXCEPT ![Main] = "next"]
    BY <1>2 DEF OnTaskDone, Answered
  <2>2. InHand = {} /\ InHand' = {f.task} /\ f.task \in AtWorkers
    BY <1>2, <2>1, ThreadsDistinct
    DEF OnTaskDone, Update, InHand, AtWorkers, TypeOK, ThreadsTypeOK
  <2>3. AtWorkers' = AtWorkers \ {f.task}
    BY <2>1 DEF AtWorkers, NoDuplicates
  <2>4. Waiting' = Waiting /\ m_pendingTasks' = m_pendingTasks
    BY <1>2 DEF OnTaskDone, Waiting
  <2>5. Live' = Live
    BY <2>2, <2>3, <2>4 DEF Live
  <2>6. NoDuplicates'
    BY <2>1, <2>2, <2>3, <2>4 DEF NoDuplicates
  <2>7. FreshIds' /\ UNCHANGED m_sessions
    BY <1>2 DEF OnTaskDone, FreshIds
  <2> QED
    BY <2>5, <2>6, <2>7, LiveUnchanged
<1>3. CASE OnUnknownTaskDone
  <2>1. InHand' = InHand /\ FreshIds'
    BY <1>3 DEF OnUnknownTaskDone, InHand, FreshIds
  <2> QED
    BY <1>3, <2>1, PlacesUnchanged DEF OnUnknownTaskDone, scheduler
<1>4. CASE AggregateTaskResult \/ WriteResults \/ OpenResultFileFails
  <2>1. /\ pc[Main] \in {"aggregate", "write"}
        /\ pc'[Main] \in {"write", "count"}
        /\ \E out : job' = [job EXCEPT !.out = out]
        /\ UNCHANGED <<m_pendingTasks, m_inFlightTasks, m_nextSearchId, sid>>
    BY <1>4, ThreadsDistinct
    DEF AggregateTaskResult, WriteResults, OpenResultFileFails, TypeOK,
        ThreadsTypeOK, scheduler
  <2>2. InHand' = InHand
    <3>1. job \in Job
      BY <2>1 DEF TypeOK, ThreadsTypeOK
    <3>2. job'.task = job.task
      BY <2>1, <3>1 DEF Job
    <3> QED
      BY <2>1, <3>2 DEF InHand
  <2>3. /\ DOMAIN m_sessions' = DOMAIN m_sessions
        /\ \A s \in DOMAIN m_sessions :
              /\ m_sessions'[s].chunks_done = m_sessions[s].chunks_done
              /\ m_sessions'[s].chunks_total = m_sessions[s].chunks_total
    BY <1>4
    DEF AggregateTaskResult, WriteResults, OpenResultFileFails, TypeOK,
        SessionsTypeOK, SearchSession
  <2>4. FreshIds'
    BY <2>1, <2>3 DEF FreshIds
  <2> QED
    BY <2>1, <2>2, <2>3, <2>4, PlacesUnchanged
<1>5. CASE CountChunk
  <2>1. PICK task, s0 : task = job.task /\ s0 = task.search_id
    OBVIOUS
  <2>2. /\ InHand = {task} /\ InHand' = {}
        /\ Waiting' = Waiting /\ AtWorkers' = AtWorkers
        /\ UNCHANGED <<m_pendingTasks, m_inFlightTasks, m_nextSearchId, sid>>
    BY <1>5, <2>1, ThreadsDistinct
    DEF CountChunk, InHand, Waiting, AtWorkers, TypeOK, ThreadsTypeOK, scheduler
  <2>3. Live' = Live \ {task} /\ task \in Live
    BY <2>2 DEF NoDuplicates, Live
  <2>4. s0 \in DOMAIN m_sessions
    BY <2>1, <2>3 DEF ChunkAccounting
  <2>5. /\ DOMAIN m_sessions' = DOMAIN m_sessions
        /\ m_sessions'[s0].chunks_done = m_sessions[s0].chunks_done + 1
        /\ m_sessions'[s0].chunks_total = m_sessions[s0].chunks_total
        /\ \A s \in DOMAIN m_sessions \ {s0} : m_sessions'[s] = m_sessions[s]
    BY <1>5, <2>1, <2>4
    DEF CountChunk, TypeOK, SessionsTypeOK, SearchSession
  <2>6. /\ Outstanding(s0)' = Outstanding(s0) \ {task}
        /\ \A s \in DOMAIN m_sessions \ {s0} : Outstanding(s)' = Outstanding(s)
        /\ task \in Outstanding(s0)
    BY <2>1, <2>3 DEF Outstanding
  <2>7. /\ Cardinality(Outstanding(s0)') = Cardinality(Outstanding(s0)) - 1
        /\ Cardinality(Outstanding(s0)) \in Nat
    BY <2>6, LiveFinite, FS_RemoveElement, FS_CardinalityType
  <2>8. ChunkAccounting'
    <3>1. \A x \in Live' : x.search_id \in DOMAIN m_sessions'
      BY <2>3, <2>5 DEF ChunkAccounting
    <3>2. m_sessions[s0].chunks_done \in Nat /\ m_sessions[s0].chunks_total \in Nat
      BY <2>4 DEF TypeOK, SessionsTypeOK, SearchSession
    <3>3. m_sessions'[s0].chunks_done + Cardinality(Outstanding(s0)')
            = m_sessions'[s0].chunks_total
      BY <2>4, <2>5, <2>7, <3>2 DEF ChunkAccounting
    <3>4. \A s \in DOMAIN m_sessions \ {s0} :
             m_sessions'[s].chunks_done + Cardinality(Outstanding(s)')
               = m_sessions'[s].chunks_total
      BY <2>5, <2>6 DEF ChunkAccounting
    <3> QED
      BY <2>5, <3>1, <3>3, <3>4 DEF ChunkAccounting
  <2>9. NoDuplicates' /\ FreshIds'
    BY <2>2, <2>5 DEF NoDuplicates, FreshIds
  <2> QED
    BY <2>8, <2>9
<1> QED
  BY <1>1, <1>2, <1>3, <1>4, <1>5 DEF OnMessage

\* OnClientDisconnect puts exactly the chunks of the lost Worker back, each once.
LEMMA OnClientDisconnectChunks ==
    ASSUME ChunkInv, NEW c \in Client, OnClientDisconnect(c)
    PROVE  FreshIds' /\ NoDuplicates' /\ ChunkAccounting'
<1> USE DEF ChunkInv
<1>0. PICK lost : lost = InFlightAt(c)
  OBVIOUS
<1>1. PICK q \in Orders(lost) :
        /\ m_pendingTasks' = [i \in DOMAIN q |-> q[i].task] \o m_pendingTasks
        /\ m_inFlightTasks' = m_inFlightTasks \ lost
  BY <1>0 DEF OnClientDisconnect, Reclaim
<1> DEFINE front == [i \in DOMAIN q |-> q[i].task]
<1>2. lost \subseteq m_inFlightTasks /\ IsFiniteSet(lost)
  BY <1>0, FS_Subset DEF InFlightAt, TypeOK, SchedulerTypeOK
<1>3. IsInjective(q) /\ Range(q) = lost
  <2>1. Cardinality(lost) \in Nat
    BY <1>2, FS_CardinalityType
  <2>2. /\ q \in Surjection(1 .. Cardinality(lost), lost)
        /\ Range(q) = lost
    BY DEF Orders, Surjection, Range
  <2>3. /\ IsFiniteSet(1 .. Cardinality(lost))
        /\ Cardinality(1 .. Cardinality(lost)) = Cardinality(lost)
    BY <2>1, FS_Interval
  <2>4. q \in Injection(1 .. Cardinality(lost), lost)
    BY <2>2, <2>3, FS_SurjSameCardinalityImpliesInj
  <2> QED
    BY <2>2, <2>4 DEF Injection
<1>4. /\ front \in Seq(Task) /\ IsInjective(front)
      /\ Range(front) = {f.task : f \in lost}
  <2>1. front \in Seq(Task)
    BY <1>0, ReclaimedType DEF TypeOK
  <2>2. \A i \in DOMAIN q : q[i] \in lost
    BY <1>3 DEF Range
  <2>3. IsInjective(front)
    BY <1>2, <1>3, <2>2 DEF IsInjective, NoDuplicates
  <2>4. Range(front) = {f.task : f \in lost}
    BY <1>3 DEF Range
  <2> QED
    BY <2>1, <2>3, <2>4
<1> HIDE DEF front
<1>5. /\ Range(front) \subseteq AtWorkers
      /\ AtWorkers' = AtWorkers \ Range(front)
  <2>1. Range(front) \subseteq AtWorkers
    BY <1>2, <1>4 DEF AtWorkers
  <2>2. \A f \in m_inFlightTasks : f.task \in Range(front) <=> f \in lost
    BY <1>2, <1>4 DEF NoDuplicates
  <2>3. AtWorkers' = {f.task : f \in m_inFlightTasks \ lost}
    BY <1>1 DEF AtWorkers
  <2> QED
    BY <2>1, <2>2, <2>3 DEF AtWorkers
<1>6. Waiting' = Range(front) \cup Waiting
  <2>1. m_pendingTasks' = front \o m_pendingTasks
    BY <1>1 DEF front
  <2>2. m_pendingTasks \in Seq(Task)
    BY DEF TypeOK, SchedulerTypeOK
  <2> QED
    BY <1>4, <2>1, <2>2, RangeConcatenation DEF Waiting
<1>7. InHand' = InHand
  BY ThreadsDistinct DEF OnClientDisconnect, InHand, TypeOK, ThreadsTypeOK
<1>8. Live' = Live
  BY <1>5, <1>6, <1>7 DEF Live
<1>9. NoDuplicates'
  <2>1. IsInjective(m_pendingTasks')
    BY <1>1, <1>4, <1>5, JoinDisjoint
    DEF NoDuplicates, TypeOK, SchedulerTypeOK, Waiting, front
  <2>2. \A f, g \in m_inFlightTasks' : f.task = g.task => f = g
    BY <1>1 DEF NoDuplicates
  <2> QED
    BY <1>5, <1>6, <1>7, <2>1, <2>2 DEF NoDuplicates
<1>10. FreshIds' /\ UNCHANGED m_sessions
  BY DEF OnClientDisconnect, FreshIds
<1> QED
  BY <1>8, <1>9, <1>10, LiveUnchanged

\* What the Workers do, and stuttering, moves no chunk.
LEMMA WorkerChunks ==
    ASSUME ChunkInv, (\E c \in Client : Worker(c)) \/ UNCHANGED vars
    PROVE  FreshIds' /\ NoDuplicates' /\ ChunkAccounting'
<1>1. UNCHANGED <<m_pendingTasks, m_inFlightTasks, m_sessions, m_nextSearchId,
                  sid, job, pc>>
  BY DEF Worker, Connect, SendTaskDone, Close, vars, scheduler
<1>2. InHand' = InHand
  BY <1>1 DEF InHand
<1>3. FreshIds'
  BY <1>1 DEF ChunkInv, FreshIds
<1> QED
  BY <1>1, <1>2, <1>3, PlacesUnchanged DEF ChunkInv

\* One step keeps the chunk invariant.
LEMMA ChunkStep ==
    ASSUME ChunkInv, [Next]_vars
    PROVE  ChunkInv'
<1>1. TypeOK'
  BY StartSearchType, AssignIdleWorkersType, DispatchNextTaskType,
     OnMessageType, OnClientDisconnectType, WorkerType, StutterType
  DEF Next, ChunkInv
<1>2. FreshIds' /\ NoDuplicates' /\ ChunkAccounting'
  BY StartSearchChunks, AssignIdleWorkersChunks, DispatchNextTaskChunks,
     OnMessageChunks, OnClientDisconnectChunks, WorkerChunks
  DEF Next
<1> QED
  BY <1>1, <1>2 DEF ChunkInv

\* The chunk invariant holds in every reachable state.
THEOREM ChunkInvariance == Spec => []ChunkInv
  BY ChunkStep, ChunkInit, PTL DEF Spec

\* Two searches never share an id, for any number of HTTP threads.
THEOREM SearchIdsFresh == Spec => []FreshIds
  BY ChunkInvariance, PTL DEF ChunkInv

\* No chunk is ever in two places or twice in one, with or without disconnects.
THEOREM ChunksNotDuplicated == Spec => []NoDuplicates
  BY ChunkInvariance, PTL DEF ChunkInv

\* No chunk is lost and none is counted twice: the count of done chunks and the
\* outstanding chunks of a session always add up to its total.
THEOREM ChunksAccounted == Spec => []ChunkAccounting
  BY ChunkInvariance, PTL DEF ChunkInv

-----------------------------------------------------------------------------
(***************************************************************************)
(* The inductive invariant.  LinesExact needs AnswersMatch: the session's  *)
(* line count is the minimum of matches and maxResults only because every  *)
(* batch was cut by the same maxResults, and that is known only for a      *)
(* batch that is matched to the task it answers.                           *)
(***************************************************************************)
ResultInv == ChunkInv /\ AnswersMatch /\ LinesExact

\* Initially there are no messages and no sessions.
LEMMA ResultInit == Init => ResultInv
<1> SUFFICES ASSUME Init PROVE ResultInv
  OBVIOUS
<1>1. ChunkInv
  BY ChunkInit
<1>2. Live = {} /\ pc[Main] = "update" /\ DOMAIN m_sessions = {}
  BY ThreadsDistinct
  DEF Init, Live, Waiting, AtWorkers, InHand, Range, Rest
<1>3. AnswersMatch
  BY <1>2 DEF Init, AnswersMatch, Range
<1>4. LinesExact
  BY <1>2 DEF LinesExact
<1> QED
  BY <1>1, <1>3, <1>4 DEF ResultInv

\* A step that leaves tasks, messages and the chunks in hand alone, and of the
\* sessions at most creates one, keeps AnswersMatch.
LEMMA AnswersUnchanged ==
    ASSUME ChunkInv, AnswersMatch,
           UNCHANGED <<m_pendingTasks, m_inFlightTasks, m_nextTaskId, m_sessions,
                       sent, m_qMessagesIn, job>>,
           InHand' = InHand,
           pc'[Main] \in {"next", "aggregate"} =>
              pc[Main] \in {"next", "aggregate"}
    PROVE  AnswersMatch'
<1>1. Live' = Live
  BY DEF Live, Waiting, AtWorkers
<1>2. \A msg : Answered(msg)' = Answered(msg)
  BY DEF Answered
<1> QED
  BY <1>1, <1>2 DEF AnswersMatch

\* StartSearch.
LEMMA StartSearchResults ==
    ASSUME ResultInv, NEW t \in Http, StartSearch(t)
    PROVE  AnswersMatch' /\ LinesExact'
<1> USE DEF ResultInv
<1>0. pc'[Main] = pc[Main] /\ UNCHANGED job
  BY ThreadsDistinct
  DEF StartSearch, AllocateSearchId, StartSearchThrows, AddPendingTasks, ChunkInv,
      TypeOK, ThreadsTypeOK
<1>1. CASE AllocateSearchId(t) \/ StartSearchThrows(t)
  <2>1. InHand' = InHand
    BY <1>0 DEF InHand
  <2>2. UNCHANGED <<m_pendingTasks, m_inFlightTasks, m_nextTaskId, m_sessions,
                    sent, m_qMessagesIn>>
    BY <1>1 DEF AllocateSearchId, StartSearchThrows, scheduler, environment
  <2>3. LinesExact'
    BY <2>2 DEF LinesExact
  <2> QED
    BY <1>0, <2>1, <2>2, <2>3, AnswersUnchanged
<1>2. ASSUME NEW n \in 0 .. MaxChunks, NEW e \in 0 .. MaxScanErrors,
             NEW limit \in Limits, AddPendingTasks(t, n, e, limit)
      PROVE  AnswersMatch' /\ LinesExact'
  <2>0. PICK s0 : s0 = sid[t]
    OBVIOUS
  <2>1. /\ s0 \in SearchId /\ n \in Nat /\ limit \in Nat
        /\ s0 \notin DOMAIN m_sessions
    BY <1>2, <2>0, ConstantsAssumption
    DEF AddPendingTasks, ChunkInv, TypeOK, ThreadsTypeOK, FreshIds
  <2>2. /\ DOMAIN m_sessions' = DOMAIN m_sessions \cup {s0}
        /\ m_sessions'[s0].max_results = limit
        /\ m_sessions'[s0].total_matches = 0 /\ m_sessions'[s0].line_count = 0
        /\ \A s \in DOMAIN m_sessions : m_sessions'[s] = m_sessions[s]
        /\ UNCHANGED <<m_inFlightTasks, m_nextTaskId, sent, m_qMessagesIn>>
        /\ m_pendingTasks' = m_pendingTasks \o NewTasks(s0, n, limit)
    BY <1>2, <2>0, <2>1 DEF AddPendingTasks, BuildSession, environment
  <2>3. LinesExact'
    BY <2>1, <2>2 DEF LinesExact, Min2
  <2>4. Live' = Live \cup Range(NewTasks(s0, n, limit))
    <3>1. Waiting' = Waiting \cup Range(NewTasks(s0, n, limit))
      BY <2>1, <2>2, NewTasksType, RangeConcatenation
      DEF ChunkInv, TypeOK, SchedulerTypeOK, Waiting
    <3> QED
      BY <1>0, <2>2, <3>1 DEF Live, AtWorkers, InHand
  <2>5. \A task \in Range(NewTasks(s0, n, limit)) :
           task.search_id = s0 /\ task.max_results = limit
    BY DEF NewTasks, Range
  <2>6. \A task \in Live' :
           task.max_results = m_sessions'[task.search_id].max_results
    BY <2>2, <2>4, <2>5 DEF ChunkInv, ChunkAccounting, AnswersMatch
  <2>7. \A msg : Answered(msg)' = Answered(msg)
    BY <2>2 DEF Answered
  <2> QED
    BY <1>0, <2>2, <2>3, <2>6, <2>7 DEF AnswersMatch
<1> QED
  BY <1>1, <1>2 DEF StartSearch

\* AssignIdleWorkers.
LEMMA AssignIdleWorkersResults ==
    ASSUME ResultInv, NEW t \in Http \cup {Watcher}, AssignIdleWorkers(t)
    PROVE  AnswersMatch' /\ LinesExact'
<1>1. UNCHANGED <<m_pendingTasks, m_inFlightTasks, m_nextTaskId, m_sessions,
                  sent, m_qMessagesIn, job>>
  BY DEF AssignIdleWorkers, AssignDone, AssignSkip, AssignWake, scheduler,
         environment
<1>2. pc'[Main] = pc[Main]
  BY ThreadsDistinct
  DEF AssignIdleWorkers, AssignDone, AssignSkip, AssignWake, ResultInv, ChunkInv,
      TypeOK, ThreadsTypeOK
<1>3. InHand' = InHand
  BY <1>1, <1>2 DEF InHand
<1>4. LinesExact'
  BY <1>1 DEF ResultInv, LinesExact
<1> QED
  BY <1>1, <1>2, <1>3, <1>4, AnswersUnchanged DEF ResultInv

\* DispatchNextTask gives the task an id that no answer can carry yet.
LEMMA DispatchNextTaskResults ==
    ASSUME ResultInv, NEW t \in Thread, DispatchNextTask(t)
    PROVE  AnswersMatch' /\ LinesExact'
<1> USE DEF ResultInv
<1>0. /\ Dispatching(t) /\ cur[t] \in Client
      /\ UNCHANGED <<m_sessions, m_qMessagesIn, job>>
  BY DEF DispatchNextTask, DispatchTask, DispatchParks, DispatchRefused,
         environment, ChunkInv, TypeOK, ThreadsTypeOK
<1>1. InHand' = InHand
  BY RepeatInHand
  DEF DispatchNextTask, DispatchTask, DispatchParks, DispatchRefused, ChunkInv
<1>2. pc'[Main] \in {"next", "aggregate"} => pc[Main] \in {"next", "aggregate"}
  <2>1. pc' = pc \/ pc' = [pc EXCEPT ![t] = AfterLoop[pc[t]]]
    BY DEF DispatchNextTask, DispatchTask, DispatchParks, DispatchRefused, Repeat
  <2> QED
    BY <1>0, <2>1, AfterLoopValues, ThreadsDistinct
    DEF ChunkInv, TypeOK, ThreadsTypeOK, Dispatching
<1>3. LinesExact'
  BY <1>0 DEF LinesExact
<1>4. CASE DispatchTask(t)
  <2>1. PICK c, flight :
          /\ c = cur[t] /\ flight = NextFlight(c)
          /\ m_pendingTasks' = Tail(m_pendingTasks)
          /\ m_inFlightTasks' = m_inFlightTasks \cup {flight}
          /\ m_nextTaskId' = m_nextTaskId + 1
          /\ sent' = sent \/ sent' = [sent EXCEPT ![c] = Append(@, flight)]
    BY <1>4 DEF DispatchTask
  <2>2. /\ flight \in Flight /\ c \in Client /\ m_nextTaskId \in Nat
        /\ flight.task_id = m_nextTaskId + 1
        /\ flight.task = Head(m_pendingTasks)
    BY <1>0, <1>4, <2>1, HeadTailProperties
    DEF DispatchTask, NextFlight, Flight, ChunkInv, TypeOK, SchedulerTypeOK
  <2>3. Live' = Live
    <3>1. Head(m_pendingTasks) \in Waiting
          /\ Waiting' = Waiting \ {Head(m_pendingTasks)}
      BY <1>4, <2>1, TakeHead
      DEF DispatchTask, Waiting, ChunkInv, NoDuplicates, TypeOK, SchedulerTypeOK
    <3>2. AtWorkers' = AtWorkers \cup {Head(m_pendingTasks)}
      BY <2>1, <2>2 DEF AtWorkers
    <3> QED
      BY <1>1, <3>1, <3>2 DEF Live
  <2>4. \A d \in Client : \A g \in Range(sent'[d]) :
           g = flight \/ g \in Range(sent[d])
    <3>1. \A d \in Client : sent[d] \in Seq(Flight)
      BY DEF ChunkInv, TypeOK, EnvironmentTypeOK
    <3>2. Range(Append(sent[c], flight)) = Range(sent[c]) \cup {flight}
      BY <2>2, <3>1, RangeAppend
    <3> QED
      BY <2>1, <2>2, <3>2 DEF ChunkInv, TypeOK, EnvironmentTypeOK
  <2>5. \A f \in m_inFlightTasks : f.task_id \in Nat /\ f.task_id <= m_nextTaskId
    BY DEF AnswersMatch, ChunkInv, TypeOK, SchedulerTypeOK, Flight
  <2>6. \A d \in Client : \A g \in Range(sent[d]) :
           g.task_id \in Nat /\ g.task_id <= m_nextTaskId
    <3>1. \A d \in Client : Range(sent[d]) \subseteq Flight
      BY RangeOfSeq DEF ChunkInv, TypeOK, EnvironmentTypeOK
    <3> QED
      BY <3>1 DEF AnswersMatch, Flight
  <2>7. \A f \in m_inFlightTasks' : f.task_id <= m_nextTaskId'
    BY <2>1, <2>2, <2>5
  <2>8. \A d \in Client : \A g \in Range(sent'[d]) :
           /\ g.task_id <= m_nextTaskId'
           /\ \A f \in m_inFlightTasks' : f.task_id = g.task_id => f.task = g.task
    BY <2>1, <2>2, <2>4, <2>5, <2>6 DEF AnswersMatch
  <2>9. \A msg \in Range(m_qMessagesIn') : msg.id = "Worker_TaskDone" =>
           /\ msg.task_id <= m_nextTaskId'
           /\ \A f \in Answered(msg)' :
                 msg.lines = Min2(msg.total_matches, f.task.max_results)
    <3>1. Range(m_qMessagesIn) \subseteq Hello \cup TaskDone
      BY RangeOfSeq DEF ChunkInv, TypeOK, EnvironmentTypeOK
    <3>2. \A msg \in Range(m_qMessagesIn) : msg.id = "Worker_TaskDone" =>
             msg.task_id \in Nat /\ msg.task_id <= m_nextTaskId
      BY <3>1 DEF AnswersMatch, Hello, TaskDone
    <3>3. \A msg \in Range(m_qMessagesIn) : msg.id = "Worker_TaskDone" =>
             Answered(msg)' = Answered(msg)
      BY <2>1, <2>2, <3>2 DEF Answered
    <3> QED
      BY <1>0, <2>1, <2>2, <3>2, <3>3 DEF AnswersMatch
  <2> QED
    BY <1>0, <1>2, <1>3, <2>3, <2>7, <2>8, <2>9 DEF AnswersMatch
<1>5. CASE DispatchParks(t) \/ DispatchRefused(t)
  <2>1. UNCHANGED <<m_pendingTasks, m_inFlightTasks, m_nextTaskId, sent>>
    BY <1>5 DEF DispatchParks, DispatchRefused, scheduler, environment
  <2> QED
    BY <1>0, <1>1, <1>2, <1>3, <2>1, AnswersUnchanged
<1> QED
  BY <1>4, <1>5 DEF DispatchNextTask

\* OnMessage: the answer is matched to its task and cut to the session's limit.
LEMMA OnMessageResults ==
    ASSUME ResultInv, OnMessage
    PROVE  AnswersMatch' /\ LinesExact'
<1> USE DEF ResultInv
<1>0. m_qMessagesIn \in Seq(Hello \cup TaskDone) /\ Main \in DOMAIN pc
  BY ThreadsDistinct DEF ChunkInv, TypeOK, EnvironmentTypeOK, ThreadsTypeOK
<1>1. CASE OnHello \/ OnUnknownTaskDone
  <2>1. /\ m_qMessagesIn # <<>> /\ m_qMessagesIn' = Tail(m_qMessagesIn)
        /\ pc[Main] = "update" /\ pc'[Main] \in {"update", "hello"}
        /\ UNCHANGED <<m_pendingTasks, m_inFlightTasks, m_nextTaskId, m_sessions,
                       sent>>
    BY <1>0, <1>1 DEF OnHello, OnUnknownTaskDone, Update, scheduler
  <2>2. Range(m_qMessagesIn') \subseteq Range(m_qMessagesIn)
    BY <1>0, <2>1, RangeTail
  <2>3. Live' = Live
    BY <2>1 DEF Live, Waiting, AtWorkers, InHand
  <2>4. \A msg : Answered(msg)' = Answered(msg)
    BY <2>1 DEF Answered
  <2> QED
    BY <2>1, <2>2, <2>3, <2>4 DEF AnswersMatch, LinesExact
<1>2. CASE OnTaskDone
  <2>1. PICK msg : msg = Head(m_qMessagesIn)
    OBVIOUS
  <2>2. /\ m_qMessagesIn # <<>> /\ m_qMessagesIn' = Tail(m_qMessagesIn)
        /\ msg.id = "Worker_TaskDone" /\ pc[Main] = "update"
        /\ UNCHANGED <<m_pendingTasks, m_nextTaskId, m_sessions, sent>>
    BY <1>2, <2>1 DEF OnTaskDone, Update
  <2>3. PICK f \in Answered(msg) :
          /\ m_inFlightTasks' = m_inFlightTasks \ {f}
          /\ job' = [task |-> f.task, total_matches |-> msg.total_matches,
                     lines |-> msg.lines, out |-> 0]
          /\ pc' = [pc EXCEPT ![Main] = "next"]
    BY <1>2, <2>1 DEF OnTaskDone
  <2>4. /\ Range(m_qMessagesIn') \subseteq Range(m_qMessagesIn)
        /\ msg \in Range(m_qMessagesIn)
    BY <1>0, <2>1, <2>2, RangeTail
  <2>5. job'.lines = Min2(job'.total_matches, job'.task.max_results)
    BY <2>2, <2>3, <2>4 DEF AnswersMatch
  <2>6. Live' \subseteq Live
    <3>1. f \in m_inFlightTasks
      BY DEF Answered
    <3>2. InHand' = {f.task}
      BY <1>0, <2>3 DEF InHand
    <3> QED
      BY <2>2, <2>3, <3>1, <3>2 DEF Live, Waiting, AtWorkers
  <2>7. \A m : Answered(m)' \subseteq Answered(m)
    BY <2>3 DEF Answered
  <2> QED
    BY <2>2, <2>3, <2>4, <2>5, <2>6, <2>7 DEF AnswersMatch, LinesExact
<1>3. CASE AggregateTaskResult
  <2>1. /\ pc[Main] = "aggregate" /\ pc'[Main] \in {"write", "count"}
        /\ UNCHANGED <<m_pendingTasks, m_inFlightTasks, m_nextTaskId, sent,
                       m_qMessagesIn>>
        /\ job \in Job /\ job'.task = job.task
    BY <1>0, <1>3
    DEF AggregateTaskResult, ChunkInv, TypeOK, ThreadsTypeOK, Job, scheduler,
        environment
  <2>2. PICK s0 : s0 = job.task.search_id
    OBVIOUS
  <2>3. /\ job.task \in Live /\ s0 \in DOMAIN m_sessions
        /\ job.task.max_results = m_sessions[s0].max_results
        /\ job.lines = Min2(job.total_matches, m_sessions[s0].max_results)
    BY <2>1, <2>2
    DEF Live, InHand, ChunkInv, ChunkAccounting, AnswersMatch
  <2>4. PICK out : out = LinesToWrite(m_sessions[s0], job.lines)
    OBVIOUS
  <2>5. /\ m_sessions[s0] \in SearchSession
        /\ m_sessions[s0].total_matches \in Nat /\ m_sessions[s0].line_count \in Nat
        /\ m_sessions[s0].max_results \in Nat /\ job.total_matches \in Nat
    BY <2>1, <2>3 DEF ChunkInv, TypeOK, SessionsTypeOK, SearchSession, Job
  <2>6. m_sessions' = [m_sessions EXCEPT
                         ![s0].total_matches = @ + job.total_matches,
                         ![s0].line_count = @ + out]
    BY <1>3, <2>2, <2>3, <2>4 DEF AggregateTaskResult
  <2>7. /\ DOMAIN m_sessions' = DOMAIN m_sessions
        /\ m_sessions'[s0].total_matches
             = m_sessions[s0].total_matches + job.total_matches
        /\ m_sessions'[s0].line_count = m_sessions[s0].line_count + out
        /\ m_sessions'[s0].max_results = m_sessions[s0].max_results
        /\ \A s \in DOMAIN m_sessions \ {s0} : m_sessions'[s] = m_sessions[s]
    BY <2>3, <2>5, <2>6 DEF SearchSession
  <2>8. m_sessions'[s0].line_count
          = Min2(m_sessions'[s0].total_matches, m_sessions'[s0].max_results)
    <3>1. m_sessions[s0].line_count
            = Min2(m_sessions[s0].total_matches, m_sessions[s0].max_results)
      BY <2>3 DEF LinesExact
    <3>2. out = IF m_sessions[s0].line_count < m_sessions[s0].max_results
                THEN Min2(Min2(job.total_matches, m_sessions[s0].max_results),
                          m_sessions[s0].max_results - m_sessions[s0].line_count)
                ELSE 0
      BY <2>3, <2>4 DEF LinesToWrite
    <3>3. PICK total \in Nat, max \in Nat, m \in Nat, count \in Nat :
             /\ total = m_sessions[s0].total_matches /\ m = job.total_matches
             /\ max = m_sessions[s0].max_results /\ count = m_sessions[s0].line_count
      BY <2>5
    <3>4. /\ count = Min2(total, max)
          /\ out = IF count < max THEN Min2(Min2(m, max), max - count) ELSE 0
      BY <3>1, <3>2, <3>3
    <3>5. count + out = Min2(total + m, max)
      BY <3>4 DEF Min2
    <3> QED
      BY <2>7, <3>3, <3>5
  <2>9. LinesExact'
    BY <2>7, <2>8 DEF LinesExact
  <2>10. Live' = Live
    BY <2>1 DEF Live, Waiting, AtWorkers, InHand
  <2>11. \A msg : Answered(msg)' = Answered(msg)
    BY <2>1 DEF Answered
  <2>12. \A task \in Live :
            m_sessions'[task.search_id].max_results
              = m_sessions[task.search_id].max_results
    BY <2>7 DEF ChunkInv, ChunkAccounting
  <2> QED
    BY <2>1, <2>9, <2>10, <2>11, <2>12 DEF AnswersMatch
<1>4. CASE WriteResults \/ OpenResultFileFails
  <2>1. /\ pc[Main] = "write" /\ pc'[Main] = "count"
        /\ UNCHANGED <<m_pendingTasks, m_inFlightTasks, m_nextTaskId, m_sessions,
                       sent, m_qMessagesIn>>
        /\ job'.task = job.task
    BY <1>0, <1>4
    DEF WriteResults, OpenResultFileFails, ChunkInv, TypeOK, ThreadsTypeOK, Job,
        scheduler, environment
  <2>2. Live' = Live
    BY <2>1 DEF Live, Waiting, AtWorkers, InHand
  <2>3. \A msg : Answered(msg)' = Answered(msg)
    BY <2>1 DEF Answered
  <2> QED
    BY <2>1, <2>2, <2>3 DEF AnswersMatch, LinesExact
<1>5. CASE CountChunk
  <2>1. /\ pc[Main] = "count" /\ pc'[Main] = "update"
        /\ UNCHANGED <<m_pendingTasks, m_inFlightTasks, m_nextTaskId, sent,
                       m_qMessagesIn>>
    BY <1>0, <1>5 DEF CountChunk, scheduler, environment
  <2>2. Live' \subseteq Live
    BY <2>1 DEF Live, Waiting, AtWorkers, InHand
  <2>3. /\ DOMAIN m_sessions' = DOMAIN m_sessions
        /\ \A s \in DOMAIN m_sessions :
              /\ m_sessions'[s].max_results = m_sessions[s].max_results
              /\ m_sessions'[s].total_matches = m_sessions[s].total_matches
              /\ m_sessions'[s].line_count = m_sessions[s].line_count
    BY <1>5 DEF CountChunk, ChunkInv, TypeOK, SessionsTypeOK, SearchSession
  <2>4. \A msg : Answered(msg)' = Answered(msg)
    BY <2>1 DEF Answered
  <2>5. \A task \in Live' :
           task.max_results = m_sessions'[task.search_id].max_results
    BY <2>2, <2>3 DEF ChunkInv, ChunkAccounting, AnswersMatch
  <2> QED
    BY <2>1, <2>3, <2>4, <2>5 DEF AnswersMatch, LinesExact
<1> QED
  BY <1>1, <1>2, <1>3, <1>4, <1>5 DEF OnMessage

\* OnClientDisconnect only takes tasks out of the map; the late answers to them
\* will match nothing.
LEMMA OnClientDisconnectResults ==
    ASSUME ResultInv, NEW c \in Client, OnClientDisconnect(c)
    PROVE  AnswersMatch' /\ LinesExact'
<1>1. /\ m_inFlightTasks' = m_inFlightTasks \ InFlightAt(c)
      /\ pc'[Main] = pc[Main]
      /\ UNCHANGED <<m_nextTaskId, m_sessions, sent, m_qMessagesIn, job>>
  BY ThreadsDistinct
  DEF OnClientDisconnect, Reclaim, environment, ResultInv, ChunkInv, TypeOK,
      ThreadsTypeOK
<1>2. Live' \subseteq Live
  <2>1. PICK q \in Orders(InFlightAt(c)) :
          m_pendingTasks' = [i \in DOMAIN q |-> q[i].task] \o m_pendingTasks
    BY DEF OnClientDisconnect, Reclaim
  <2>2. Waiting' = Range([i \in DOMAIN q |-> q[i].task]) \cup Waiting
    <3>1. [i \in DOMAIN q |-> q[i].task] \in Seq(Task)
      BY ReclaimedType DEF ResultInv, ChunkInv, TypeOK
    <3>2. m_pendingTasks \in Seq(Task)
      BY DEF ResultInv, ChunkInv, TypeOK, SchedulerTypeOK
    <3>3. PICK front \in Seq(Task) : front = [i \in DOMAIN q |-> q[i].task]
      BY <3>1
    <3>4. Range(front \o m_pendingTasks) = Range(front) \cup Range(m_pendingTasks)
      BY <3>2, RangeConcatenation
    <3> QED
      BY <2>1, <3>3, <3>4 DEF Waiting
  <2>3. Range([i \in DOMAIN q |-> q[i].task]) \subseteq AtWorkers
    <3>1. \A i \in DOMAIN q : q[i] \in m_inFlightTasks
      BY DEF Orders, InFlightAt, Range
    <3> QED
      BY <3>1 DEF Range, AtWorkers
  <2>4. AtWorkers' \subseteq AtWorkers /\ InHand' = InHand
    BY <1>1 DEF AtWorkers, InHand
  <2> QED
    BY <2>2, <2>3, <2>4 DEF Live
<1>3. \A msg : Answered(msg)' \subseteq Answered(msg)
  BY <1>1 DEF Answered
<1> QED
  BY <1>1, <1>2, <1>3 DEF ResultInv, AnswersMatch, LinesExact

\* The Workers answer what they were sent with what the task's limit allows.
LEMMA WorkerResults ==
    ASSUME ResultInv, NEW c \in Client, Worker(c)
    PROVE  AnswersMatch' /\ LinesExact'
<1> USE DEF ResultInv
<1>0. /\ m_qMessagesIn \in Seq(Hello \cup TaskDone)
      /\ UNCHANGED <<m_pendingTasks, m_inFlightTasks, m_nextTaskId, m_sessions,
                     pc, job>>
  BY DEF Worker, Connect, SendTaskDone, Close, scheduler, ChunkInv, TypeOK,
         EnvironmentTypeOK
<1>1. Live' = Live /\ \A msg : Answered(msg)' = Answered(msg)
  BY <1>0 DEF Live, Waiting, AtWorkers, InHand, Answered
<1>2. LinesExact'
  BY <1>0 DEF LinesExact
<1>3. CASE Connect(c)
  <2>1. PICK hello : /\ hello = [id |-> "Worker_Hello", client |-> c,
                                 threads_available |-> Threads[c]]
                     /\ m_qMessagesIn' = Append(m_qMessagesIn, hello)
    BY <1>3 DEF Connect, SendHello
  <2>2. Range(m_qMessagesIn') = Range(m_qMessagesIn) \cup {hello}
    <3>1. hello \in Hello \cup TaskDone
      BY <2>1, ConstantsAssumption DEF Hello
    <3> QED
      BY <1>0, <2>1, <3>1, RangeAppend
  <2>3. hello.id # "Worker_TaskDone" /\ sent' = sent
    BY <1>3, <2>1 DEF Connect
  <2> QED
    BY <1>0, <1>1, <1>2, <2>2, <2>3 DEF AnswersMatch
<1>4. ASSUME NEW i \in 1 .. Threads[c], NEW m \in 0 .. MaxMatches,
             SendTaskDone(c, i, m)
      PROVE  AnswersMatch'
  <2>1. PICK g : g = sent[c][i]
    OBVIOUS
  <2>2. sent[c] \in Seq(Flight) /\ i \in 1 .. Len(sent[c])
    <3>1. sent[c] \in Seq(Flight)
      BY DEF ChunkInv, TypeOK, EnvironmentTypeOK
    <3>2. Len(sent[c]) \in Nat /\ Threads[c] \in Nat
      BY <3>1, LenProperties, ConstantsAssumption
    <3> QED
      BY <1>4, <3>1, <3>2 DEF SendTaskDone, Min2
  <2>3. g \in Flight /\ g \in Range(sent[c])
    BY <2>1, <2>2, ElementOfSeq, LenProperties DEF Range
  <2>4. PICK done :
          /\ done = [id |-> "Worker_TaskDone", client |-> c,
                     task_id |-> g.task_id, total_matches |-> m,
                     lines |-> Min2(m, g.task.max_results)]
          /\ m_qMessagesIn' = Append(m_qMessagesIn, done)
          /\ sent' = [sent EXCEPT ![c] = RemoveAt(@, i)]
    BY <1>4, <2>1 DEF SendTaskDone, SerializeBatch
  <2>5. Range(m_qMessagesIn') = Range(m_qMessagesIn) \cup {done}
    <3>1. Min2(m, g.task.max_results) \in Nat /\ g.task_id \in Nat
      BY <2>3, ConstantsAssumption DEF Min2, Flight, Task
    <3>2. done \in Hello \cup TaskDone
      BY <2>4, <3>1 DEF TaskDone
    <3> QED
      BY <1>0, <2>4, <3>2, RangeAppend
  <2>6. \A d \in Client : Range(sent'[d]) \subseteq Range(sent[d])
    <3>1. Range(RemoveAt(sent[c], i)) \subseteq Range(sent[c])
      BY <2>2, RangeRemoveAt
    <3> QED
      BY <2>4, <3>1 DEF ChunkInv, TypeOK, EnvironmentTypeOK
  <2>7. /\ done.task_id <= m_nextTaskId
        /\ \A f \in Answered(done) :
              done.lines = Min2(done.total_matches, f.task.max_results)
    BY <2>3, <2>4 DEF AnswersMatch, Answered
  <2> QED
    BY <1>0, <1>1, <2>5, <2>6, <2>7 DEF AnswersMatch
<1>5. CASE Close(c)
  <2>1. m_qMessagesIn' = m_qMessagesIn
    BY <1>5 DEF Close
  <2>2. \A d \in Client : Range(sent'[d]) \subseteq Range(sent[d])
    BY <1>5 DEF Close, Range, ChunkInv, TypeOK, EnvironmentTypeOK
  <2> QED
    BY <1>0, <1>1, <1>2, <2>1, <2>2 DEF AnswersMatch
<1> QED
  BY <1>2, <1>3, <1>4, <1>5 DEF Worker

\* Stuttering.
LEMMA StutterResults ==
    ASSUME ResultInv, UNCHANGED vars
    PROVE  AnswersMatch' /\ LinesExact'
<1>1. InHand' = InHand
  BY DEF InHand, vars
<1>2. LinesExact'
  BY DEF LinesExact, ResultInv, vars
<1> QED
  BY <1>1, <1>2, AnswersUnchanged
  DEF ResultInv, vars, scheduler, environment

\* The result invariant holds in every reachable state.
THEOREM ResultInvariance == Spec => []ResultInv
<1>1. ResultInv /\ [Next]_vars => ResultInv'
  <2> SUFFICES ASSUME ResultInv, [Next]_vars PROVE ResultInv'
    OBVIOUS
  <2>1. ChunkInv'
    BY ChunkStep DEF ResultInv
  <2>2. AnswersMatch' /\ LinesExact'
    BY StartSearchResults, AssignIdleWorkersResults, DispatchNextTaskResults,
       OnMessageResults, OnClientDisconnectResults, WorkerResults,
       StutterResults
    DEF Next
  <2> QED
    BY <2>1, <2>2 DEF ResultInv
<1> QED
  BY <1>1, ResultInit, PTL DEF Spec

\* Every answer of a Worker is taken for the task it answers.
THEOREM AnswersMatched == Spec => []AnswersMatch
  BY ResultInvariance, PTL DEF ResultInv

\* The lines a session has accepted are its matches, up to maxResults, however
\* the batches of its chunks were cut and in whatever order they came.
THEOREM LineCountExact == Spec => []LinesExact
  BY ResultInvariance, PTL DEF ResultInv

-----------------------------------------------------------------------------
(***************************************************************************)
(* The Master implements SearchService.                                    *)
(***************************************************************************)

\* The result taken in and not yet counted, as SearchService sees it.
Counting == IF pc[Main] \in {"write", "count"} THEN job.task.search_id ELSE None

\* A step of the Master is a step of SearchService or changes nothing it sees.
LEMMA RefinementStep ==
    ASSUME ResultInv, [Next]_vars
    PROVE  [Service!Next]_(Service!service)
<1> USE DEF ResultInv
<1>1. ASSUME UNCHANGED m_sessions, Counting' = Counting
      PROVE  UNCHANGED Service!service
  BY <1>1 DEF Service!service, Counting
<1>2. ASSUME UNCHANGED <<m_sessions, job>>, pc'[Main] = pc[Main]
      PROVE  UNCHANGED Service!service
  BY <1>1, <1>2 DEF Counting
<1>3. ASSUME UNCHANGED m_sessions, pc[Main] \notin {"write", "count"},
             pc'[Main] \notin {"write", "count"}
      PROVE  UNCHANGED Service!service
  BY <1>1, <1>3 DEF Counting
<1>4. pc \in [Thread -> Place] /\ Main \in Thread
  BY ThreadsDistinct DEF ChunkInv, TypeOK, ThreadsTypeOK
<1>5. ASSUME NEW t \in Http, StartSearch(t)
      PROVE  [Service!Next]_(Service!service)
  <2>1. pc'[Main] = pc[Main] /\ UNCHANGED job
    BY <1>4, <1>5, ThreadsDistinct
    DEF StartSearch, AllocateSearchId, StartSearchThrows, AddPendingTasks
  <2>2. CASE AllocateSearchId(t) \/ StartSearchThrows(t)
    <3>1. UNCHANGED m_sessions
      BY <2>2 DEF AllocateSearchId, StartSearchThrows
    <3> QED
      BY <1>2, <2>1, <3>1
  <2>3. ASSUME NEW n \in 0 .. MaxChunks, NEW e \in 0 .. MaxScanErrors,
               NEW limit \in Limits, AddPendingTasks(t, n, e, limit)
        PROVE  Service!Next
    <3>1. sid[t] \in SearchId /\ sid[t] \notin DOMAIN m_sessions
      BY <2>3, ConstantsAssumption
      DEF AddPendingTasks, ChunkInv, TypeOK, ThreadsTypeOK, FreshIds
    <3>2. Service!Publish(sid[t], n, e, limit)
      BY <2>1, <2>3, <3>1 DEF AddPendingTasks, BuildSession, Service!Publish
    <3> QED
      BY <3>1, <3>2 DEF Service!Next
  <2> QED
    BY <1>5, <2>2, <2>3 DEF StartSearch
<1>6. ASSUME NEW t \in Http \cup {Watcher}, AssignIdleWorkers(t)
      PROVE  UNCHANGED Service!service
  <2>1. UNCHANGED <<m_sessions, job>> /\ pc'[Main] = pc[Main]
    BY <1>4, <1>6, ThreadsDistinct
    DEF AssignIdleWorkers, AssignDone, AssignSkip, AssignWake
  <2> QED
    BY <1>2, <2>1
<1>7. ASSUME NEW t \in Thread, DispatchNextTask(t)
      PROVE  UNCHANGED Service!service
  <2>1. /\ UNCHANGED <<m_sessions, job>> /\ Dispatching(t)
        /\ pc' = pc \/ pc' = [pc EXCEPT ![t] = AfterLoop[pc[t]]]
    BY <1>7
    DEF DispatchNextTask, DispatchTask, DispatchParks, DispatchRefused, Repeat
  <2>2. \/ pc'[Main] = pc[Main]
        \/ pc[Main] \notin {"write", "count"} /\ pc'[Main] \notin {"write", "count"}
    BY <1>4, <2>1, AfterLoopValues DEF Dispatching
  <2> QED
    BY <1>2, <1>3, <2>1, <2>2
<1>8. ASSUME OnMessage
      PROVE  [Service!Next]_(Service!service)
  <2>1. CASE OnHello \/ OnTaskDone \/ OnUnknownTaskDone
    <3>1. /\ UNCHANGED m_sessions /\ pc[Main] = "update"
          /\ pc'[Main] \in {"update", "hello", "next"}
      BY <1>4, <2>1 DEF OnHello, OnTaskDone, OnUnknownTaskDone, Update
    <3> QED
      BY <1>3, <3>1
  <2>2. CASE WriteResults \/ OpenResultFileFails
    <3>1. /\ UNCHANGED m_sessions /\ pc[Main] = "write" /\ pc'[Main] = "count"
          /\ job'.task = job.task
      BY <1>4, <2>2
      DEF WriteResults, OpenResultFileFails, ChunkInv, TypeOK, ThreadsTypeOK, Job
    <3> QED
      BY <1>1, <3>1 DEF Counting
  <2>3. ASSUME pc[Main] \in {"aggregate", "count"}
        PROVE  /\ job \in Job /\ job.task.search_id \in DOMAIN m_sessions
               /\ job.task.search_id \in SearchId
               /\ m_sessions[job.task.search_id] \in SearchSession
               /\ m_sessions[job.task.search_id].chunks_done
                    < m_sessions[job.task.search_id].chunks_total
    <3>1. PICK s0 : s0 = job.task.search_id
      OBVIOUS
    <3>2. job \in Job /\ job.task \in Live
      BY <2>3 DEF ChunkInv, TypeOK, ThreadsTypeOK, Live, InHand
    <3>3. job.task \in Outstanding(s0) /\ s0 \in DOMAIN m_sessions
      BY <3>1, <3>2 DEF Outstanding, ChunkInv, ChunkAccounting
    <3>4. Cardinality(Outstanding(s0)) \in Nat \ {0}
      <4>1. IsFiniteSet(Outstanding(s0))
        BY LiveFinite DEF ChunkInv
      <4>2. Cardinality(Outstanding(s0)) \in Nat
        BY <4>1, FS_CardinalityType
      <4>3. Cardinality(Outstanding(s0)) # 0
        BY <3>3, <4>1, FS_EmptySet
      <4> QED
        BY <4>2, <4>3
    <3>5. /\ m_sessions[s0] \in SearchSession /\ s0 \in SearchId
          /\ m_sessions[s0].chunks_done \in Nat
          /\ m_sessions[s0].chunks_total \in Nat
      BY <3>3 DEF ChunkInv, TypeOK, SessionsTypeOK, SearchSession
    <3>6. m_sessions[s0].chunks_done + Cardinality(Outstanding(s0))
            = m_sessions[s0].chunks_total
      BY <3>3 DEF ChunkInv, ChunkAccounting
    <3>7. m_sessions[s0].chunks_done < m_sessions[s0].chunks_total
      BY <3>4, <3>5, <3>6
    <3> QED
      BY <3>1, <3>2, <3>3, <3>5, <3>7
  <2>4. CASE AggregateTaskResult
    <3>1. PICK s0, m : s0 = job.task.search_id /\ m = job.total_matches
      OBVIOUS
    <3>2. PICK out : out = LinesToWrite(m_sessions[s0], job.lines)
      OBVIOUS
    <3>3. /\ pc[Main] = "aggregate" /\ pc'[Main] \in {"write", "count"}
          /\ job \in Job /\ job'.task = job.task
      BY <1>4, <2>3, <2>4 DEF AggregateTaskResult, Job
    <3>4. /\ s0 \in SearchId /\ s0 \in DOMAIN m_sessions
          /\ m_sessions[s0] \in SearchSession
          /\ m_sessions[s0].chunks_done < m_sessions[s0].chunks_total
          /\ m \in 0 .. MaxMatches
      BY <2>3, <3>1, <3>3 DEF Job
    <3>5. m_sessions' = [m_sessions EXCEPT ![s0].total_matches = @ + m,
                                           ![s0].line_count = @ + out]
      BY <2>4, <3>1, <3>2, <3>4 DEF AggregateTaskResult
    <3>6. m_sessions[s0].line_count + out
            = Min2(m_sessions[s0].total_matches + m, m_sessions[s0].max_results)
      <4>1. job.lines = Min2(m, m_sessions[s0].max_results)
        <5>1. job.task \in Live
          BY <3>3 DEF Live, InHand
        <5> QED
          BY <3>1, <3>3, <5>1 DEF AnswersMatch
      <4>2. m_sessions[s0].line_count
              = Min2(m_sessions[s0].total_matches, m_sessions[s0].max_results)
        BY <3>4 DEF LinesExact
      <4>3. out = IF m_sessions[s0].line_count < m_sessions[s0].max_results
                  THEN Min2(Min2(m, m_sessions[s0].max_results),
                            m_sessions[s0].max_results
                              - m_sessions[s0].line_count)
                  ELSE 0
        BY <3>2, <4>1 DEF LinesToWrite
      <4>4. /\ m_sessions[s0].total_matches \in Nat
            /\ m_sessions[s0].max_results \in Nat /\ m \in Nat
        BY <3>4, ConstantsAssumption DEF SearchSession
      <4>5. PICK total, max, count : /\ total = m_sessions[s0].total_matches
                                     /\ max = m_sessions[s0].max_results
                                     /\ count = m_sessions[s0].line_count
        OBVIOUS
      <4>6. /\ total \in Nat /\ max \in Nat /\ m \in Nat /\ count = Min2(total, max)
            /\ out = IF count < max THEN Min2(Min2(m, max), max - count) ELSE 0
        BY <4>2, <4>3, <4>4, <4>5
      <4>7. count + out = Min2(total + m, max)
        BY <4>6 DEF Min2
      <4> QED
        BY <4>5, <4>7
    <3>7. m_sessions' =
            [m_sessions EXCEPT
               ![s0].total_matches = @ + m,
               ![s0].line_count = Service!Smaller(m_sessions[s0].total_matches + m,
                                                  m_sessions[s0].max_results)]
      BY <3>4, <3>5, <3>6 DEF Service!Smaller, Min2, SearchSession
    <3>8. Service!TakeResult(s0, m)
      BY <3>1, <3>3, <3>4, <3>7 DEF Service!TakeResult, Service!Running
    <3> QED
      BY <3>4, <3>8 DEF Service!Next
  <2>5. CASE CountChunk
    <3>1. PICK s0 : s0 = job.task.search_id
      OBVIOUS
    <3>2. /\ pc[Main] = "count" /\ pc'[Main] = "update"
      BY <1>4, <2>5 DEF CountChunk
    <3>3. /\ s0 \in SearchId /\ s0 \in DOMAIN m_sessions
          /\ m_sessions[s0].chunks_done < m_sessions[s0].chunks_total
      BY <2>3, <3>1, <3>2
    <3>4. m_sessions' = [m_sessions EXCEPT ![s0].chunks_done = @ + 1]
      BY <2>5, <3>1, <3>3 DEF CountChunk
    <3>5. Service!FinishChunk(s0)
      BY <3>1, <3>2, <3>3, <3>4 DEF Service!FinishChunk, Service!Running
    <3> QED
      BY <3>3, <3>5 DEF Service!Next
  <2> QED
    BY <1>8, <2>1, <2>2, <2>4, <2>5 DEF OnMessage
<1>9. ASSUME NEW c \in Client, OnClientDisconnect(c)
      PROVE  UNCHANGED Service!service
  <2>1. UNCHANGED <<m_sessions, job>> /\ pc'[Main] = pc[Main]
    BY <1>4, <1>9, ThreadsDistinct DEF OnClientDisconnect
  <2> QED
    BY <1>2, <2>1
<1>10. ASSUME NEW c \in Client, Worker(c)
       PROVE  UNCHANGED Service!service
  <2>1. UNCHANGED <<m_sessions, job, pc>>
    BY <1>10 DEF Worker, Connect, SendTaskDone, Close
  <2> QED
    BY <1>2, <2>1
<1>11. CASE UNCHANGED vars
  BY <1>2, <1>11 DEF vars
<1> QED
  BY <1>5, <1>6, <1>7, <1>8, <1>9, <1>10, <1>11 DEF Next

\* The Master, whatever its Workers and HTTP threads do, implements
\* SearchService: each chunk's result is taken in exactly once, while the search
\* is Running, and counted before the next; Done is for good.
THEOREM Refinement == Spec => ImplementsSearchService
<1>1. Init => Service!Init
  <2> SUFFICES ASSUME Init PROVE Service!Init
    OBVIOUS
  <2>1. pc[Main] = "update"
    BY ThreadsDistinct DEF Init, Rest
  <2> QED
    BY <2>1 DEF Init, Service!Init
<1>2. ResultInv /\ [Next]_vars => [Service!Next]_(Service!service)
  BY RefinementStep
<1> QED
  BY <1>1, <1>2, ResultInvariance, PTL DEF Spec, ImplementsSearchService, Service!Spec

\* A status that was Done never changes again.
THEOREM DoneStatusFinal == Spec => DoneIsFinal
<1>1. ResultInv /\ [Next]_vars =>
        [\A s \in DOMAIN m_sessions :
            GetStatus(s) = "Done" => m_sessions'[s] = m_sessions[s]]_vars
  <2> SUFFICES ASSUME ResultInv, [Next]_vars, NEW s \in DOMAIN m_sessions,
                      GetStatus(s) = "Done"
               PROVE  m_sessions'[s] = m_sessions[s]
    OBVIOUS
  <2>1. m_sessions[s].chunks_done = m_sessions[s].chunks_total
    BY DEF GetStatus
  <2>2. m_sessions[s].chunks_done \in Nat
    BY DEF ResultInv, ChunkInv, TypeOK, SessionsTypeOK, SearchSession
  <2>3. ~Service!Running(s)
    BY <2>1, <2>2 DEF Service!Running
  <2>4. [Service!Next]_(Service!service)
    BY RefinementStep
  <2> QED
    BY <2>3, <2>4
    DEF Service!Next, Service!Publish, Service!TakeResult, Service!FinishChunk,
        Service!service
<1> QED
  BY <1>1, ResultInvariance, PTL DEF Spec, DoneIsFinal

-----------------------------------------------------------------------------
(***************************************************************************)
(* The result files.                                                       *)
(***************************************************************************)

\* The lines of session s that are counted and not in its file yet: the ones Main
\* holds between AggregateTaskResult's critical section and WriteResults.
Unwritten(s) ==
    IF pc[Main] = "write" /\ job.task.search_id = s THEN job.out ELSE 0

\* A file holds the lines its session has counted, less the ones Main is about to
\* write and, if files may fail to open, the ones that were dropped.
DiskInv ==
    /\ \A s \in SearchId : s \notin DOMAIN m_sessions => disk[s] = 0
    /\ \A s \in DOMAIN m_sessions :
          /\ disk[s] + Unwritten(s) <= m_sessions[s].line_count
          /\ ~DiskFails => disk[s] + Unwritten(s) = m_sessions[s].line_count

\* A step that leaves sessions, files and the lines in Main's hands alone.
LEMMA DiskUnchanged ==
    ASSUME DiskInv, UNCHANGED <<m_sessions, disk>>,
           pc[Main] = "write" <=> pc'[Main] = "write",
           pc[Main] = "write" => job' = job
    PROVE  DiskInv'
<1>1. \A s : Unwritten(s)' = Unwritten(s)
  BY DEF Unwritten
<1> QED
  BY <1>1 DEF DiskInv

\* A step of StartSearch: a new session starts with an empty file.
LEMMA StartSearchDisk ==
    ASSUME ChunkInv, DiskInv, NEW t \in Http, StartSearch(t)
    PROVE  DiskInv'
<1>1. t # Main /\ Main \in DOMAIN pc /\ disk \in [SearchId -> Nat]
  BY ThreadsDistinct DEF ChunkInv, TypeOK, ThreadsTypeOK, SessionsTypeOK
<1>2. pc'[Main] = pc[Main] /\ job' = job /\ disk' = disk
  BY <1>1 DEF StartSearch, AllocateSearchId, StartSearchThrows, AddPendingTasks
<1>3. CASE UNCHANGED m_sessions
  BY <1>2, <1>3, DiskUnchanged
<1>4. ASSUME NEW n \in 0 .. MaxChunks, NEW e \in 0 .. MaxScanErrors,
             NEW limit \in Limits, AddPendingTasks(t, n, e, limit)
      PROVE  DiskInv'
  <2>1. PICK s0 : s0 = sid[t]
    OBVIOUS
  <2>2. /\ DOMAIN m_sessions' = DOMAIN m_sessions \cup {s0}
        /\ m_sessions'[s0].line_count = 0
        /\ \A s \in DOMAIN m_sessions : s # s0 => m_sessions'[s] = m_sessions[s]
    BY <1>4, <2>1 DEF AddPendingTasks, BuildSession
  <2>3. s0 \in SearchId /\ s0 \notin DOMAIN m_sessions
    BY <1>4, <2>1 DEF AddPendingTasks, ChunkInv, FreshIds, TypeOK, ThreadsTypeOK
  <2>4. \A s : Unwritten(s)' = Unwritten(s)
    BY <1>2 DEF Unwritten
  <2>5. Unwritten(s0) = 0
    BY <2>3 DEF Unwritten, ChunkInv, ChunkAccounting, Live, InHand
  <2>6. disk[s0] = 0
    BY <2>3 DEF DiskInv
  <2> QED
    BY <1>2, <2>2, <2>3, <2>4, <2>5, <2>6 DEF DiskInv
<1> QED
  BY <1>3, <1>4 DEF StartSearch, AllocateSearchId, StartSearchThrows

\* A step of OnMessage: what is counted is in Main's hands, then in the file.
LEMMA OnMessageDisk ==
    ASSUME ResultInv, DiskInv, OnMessage
    PROVE  DiskInv'
<1>1. /\ Main \in DOMAIN pc /\ disk \in [SearchId -> Nat]
      /\ DOMAIN m_sessions \subseteq SearchId
      /\ \A s \in DOMAIN m_sessions :
            m_sessions[s] \in SearchSession /\ m_sessions[s].line_count \in Nat
  BY ThreadsDistinct
  DEF ResultInv, ChunkInv, TypeOK, ThreadsTypeOK, SessionsTypeOK, SearchSession
<1>2. CASE OnHello \/ OnTaskDone \/ OnUnknownTaskDone
  <2>1. /\ pc[Main] # "write" /\ pc'[Main] # "write" /\ UNCHANGED <<m_sessions, disk>>
    BY <1>1, <1>2 DEF OnHello, OnTaskDone, OnUnknownTaskDone, Update
  <2> QED
    BY <2>1, DiskUnchanged
<1>3. ASSUME pc[Main] \in {"aggregate", "write", "count"}
      PROVE  /\ job \in Job /\ job.task.search_id \in DOMAIN m_sessions
             /\ job.out \in Nat /\ job.lines \in Nat
  BY <1>3
  DEF ResultInv, ChunkInv, TypeOK, ThreadsTypeOK, ChunkAccounting, Live, InHand, Job
<1>4. CASE AggregateTaskResult
  <2>1. PICK s0 : s0 = job.task.search_id
    OBVIOUS
  <2>2. pc[Main] = "aggregate" /\ s0 \in DOMAIN m_sessions /\ UNCHANGED disk
    BY <1>3, <1>4, <2>1 DEF AggregateTaskResult
  <2>3. PICK out : out = LinesToWrite(m_sessions[s0], job.lines)
    OBVIOUS
  <2>4. out \in Nat
    BY <1>1, <1>3, <2>2, <2>3 DEF LinesToWrite, Min2, SearchSession
  <2>5. /\ m_sessions' = [m_sessions EXCEPT
                            ![s0].total_matches = @ + job.total_matches,
                            ![s0].line_count = @ + out]
        /\ job' = [job EXCEPT !.out = out]
        /\ pc' = [pc EXCEPT ![Main] = IF out > 0 THEN "write" ELSE "count"]
    BY <1>4, <2>1, <2>2, <2>3 DEF AggregateTaskResult
  <2>6. /\ DOMAIN m_sessions' = DOMAIN m_sessions
        /\ m_sessions'[s0].line_count = m_sessions[s0].line_count + out
        /\ \A s \in DOMAIN m_sessions : s # s0 => m_sessions'[s] = m_sessions[s]
    BY <1>1, <2>2, <2>5 DEF SearchSession
  <2>7. \A s : Unwritten(s) = 0
    BY <2>2 DEF Unwritten
  <2>8. job'.out = out /\ job'.task = job.task
    BY <1>3, <2>2, <2>5 DEF Job
  <2>9. Unwritten(s0)' = out /\ \A s : s # s0 => Unwritten(s)' = 0
    BY <1>1, <2>1, <2>4, <2>5, <2>8 DEF Unwritten
  <2>10. \A s \in DOMAIN m_sessions : s \in SearchId /\ disk[s] \in Nat
    BY <1>1
  <2> QED
    BY <1>1, <2>2, <2>4, <2>6, <2>7, <2>9, <2>10 DEF DiskInv
<1>5. CASE WriteResults
  <2>1. PICK s0 : s0 = job.task.search_id
    OBVIOUS
  <2>2. /\ pc[Main] = "write" /\ s0 \in DOMAIN m_sessions /\ UNCHANGED m_sessions
        /\ disk' = [disk EXCEPT ![s0] = @ + job.out] /\ pc'[Main] = "count"
    BY <1>1, <1>3, <1>5, <2>1 DEF WriteResults
  <2>3. /\ Unwritten(s0) = job.out /\ \A s : s # s0 => Unwritten(s) = 0
        /\ \A s : Unwritten(s)' = 0
    BY <2>1, <2>2 DEF Unwritten
  <2>4. /\ disk'[s0] = disk[s0] + job.out
        /\ \A s \in SearchId : s # s0 => disk'[s] = disk[s]
    BY <1>1, <2>2
  <2>5. job.out \in Nat /\ \A s \in DOMAIN m_sessions : s \in SearchId /\ disk[s] \in Nat
    BY <1>1, <1>3, <2>2
  <2> QED
    BY <1>1, <2>2, <2>3, <2>4, <2>5 DEF DiskInv
<1>6. CASE OpenResultFileFails
  <2>1. /\ pc[Main] = "write" /\ pc'[Main] = "count" /\ DiskFails
        /\ UNCHANGED <<m_sessions, disk>>
    BY <1>1, <1>6 DEF OpenResultFileFails
  <2>2. \A s : Unwritten(s)' = 0 /\ Unwritten(s) \in Nat
    BY <1>3, <2>1 DEF Unwritten
  <2>3. \A s \in DOMAIN m_sessions : s \in SearchId /\ disk[s] \in Nat
    BY <1>1
  <2> QED
    BY <1>1, <2>1, <2>2, <2>3 DEF DiskInv
<1>7. CASE CountChunk
  <2>1. /\ pc[Main] = "count" /\ pc'[Main] = "update" /\ UNCHANGED disk
        /\ DOMAIN m_sessions' = DOMAIN m_sessions
        /\ \A s \in DOMAIN m_sessions :
              m_sessions'[s].line_count = m_sessions[s].line_count
    BY <1>1, <1>7 DEF CountChunk, SearchSession
  <2>2. \A s : Unwritten(s)' = Unwritten(s)
    BY <2>1 DEF Unwritten
  <2> QED
    BY <2>1, <2>2 DEF DiskInv
<1> QED
  BY <1>2, <1>4, <1>5, <1>6, <1>7 DEF OnMessage

\* Every step keeps the files in step with the sessions.
LEMMA DiskStep ==
    ASSUME ResultInv, DiskInv, [Next]_vars
    PROVE  DiskInv'
<1>0. /\ pc \in [Thread -> Place] /\ Main \in Thread
      /\ pc[Main] \in {"update", "hello", "next", "aggregate", "write", "count"}
      /\ Main # Watcher /\ Main \notin Http
  BY ThreadsDistinct DEF ResultInv, ChunkInv, TypeOK, ThreadsTypeOK
<1>1. ASSUME NEW t \in Http \cup {Watcher}, AssignIdleWorkers(t)
      PROVE  DiskInv'
  <2>1. pc'[Main] = pc[Main] /\ UNCHANGED <<m_sessions, disk, job>>
    BY <1>0, <1>1 DEF AssignIdleWorkers, AssignDone, AssignSkip, AssignWake
  <2> QED
    BY <2>1, DiskUnchanged
<1>2. ASSUME NEW t \in Thread, DispatchNextTask(t)
      PROVE  DiskInv'
  <2>1. /\ UNCHANGED <<m_sessions, disk, job>> /\ Dispatching(t)
        /\ pc' = pc \/ pc' = [pc EXCEPT ![t] = AfterLoop[pc[t]]]
    BY <1>2
    DEF DispatchNextTask, DispatchTask, DispatchParks, DispatchRefused, Repeat
  <2>2. pc[Main] = "write" <=> pc'[Main] = "write"
    BY <1>0, <2>1 DEF Dispatching, AfterLoop
  <2> QED
    BY <2>1, <2>2, DiskUnchanged
<1>3. ASSUME NEW c \in Client, OnClientDisconnect(c)
      PROVE  DiskInv'
  <2>1. pc'[Main] = pc[Main] /\ UNCHANGED <<m_sessions, disk, job>>
    BY <1>0, <1>3 DEF OnClientDisconnect
  <2> QED
    BY <2>1, DiskUnchanged
<1>4. ASSUME NEW c \in Client, Worker(c)
      PROVE  DiskInv'
  BY <1>4, DiskUnchanged DEF Worker, Connect, SendTaskDone, Close
<1>5. CASE UNCHANGED vars
  BY <1>5, DiskUnchanged DEF vars
<1> QED
  BY <1>1, <1>2, <1>3, <1>4, <1>5, StartSearchDisk, OnMessageDisk
  DEF Next, ResultInv

\* The files and the sessions agree in every reachable state.
LEMMA DiskInvariance == Spec => [](ResultInv /\ DiskInv)
<1>1. Init => DiskInv
  BY DEF Init, DiskInv
<1>2. ResultInv /\ DiskInv /\ [Next]_vars => DiskInv'
  BY DiskStep
<1> QED
  BY <1>1, <1>2, ResultInvariance, PTL DEF Spec

\* A result file never holds more lines than the status tells of, nor more than
\* maxResults, whether or not it could be opened every time.
THEOREM FilesWithinLimit == Spec => []FileWithinLimit
<1>1. ASSUME ResultInv, DiskInv, NEW s \in DOMAIN m_sessions
      PROVE  /\ disk[s] <= m_sessions[s].line_count
             /\ m_sessions[s].line_count <= m_sessions[s].max_results
  <2>1. /\ disk[s] \in Nat /\ m_sessions[s].line_count \in Nat
        /\ m_sessions[s].max_results \in Nat /\ m_sessions[s].total_matches \in Nat
    BY <1>1 DEF ResultInv, ChunkInv, TypeOK, SessionsTypeOK, SearchSession
  <2>2. Unwritten(s) \in Nat
    BY <1>1 DEF Unwritten, ResultInv, ChunkInv, TypeOK, ThreadsTypeOK, Job
  <2>3. disk[s] <= m_sessions[s].line_count
    BY <1>1, <2>1, <2>2 DEF DiskInv
  <2>4. m_sessions[s].line_count <= m_sessions[s].max_results
    BY <1>1, <2>1 DEF ResultInv, LinesExact, Min2
  <2> QED
    BY <2>3, <2>4
<1>2. ResultInv /\ DiskInv => FileWithinLimit
  BY <1>1 DEF FileWithinLimit
<1> QED
  BY <1>2, DiskInvariance, PTL

\* While files can be opened, a client that reads "Done" finds in the file every
\* line the status counts.
THEOREM DoneLinesOnDisk == ASSUME ~DiskFails PROVE Spec => []DoneMeansOnDisk
<1>1. ASSUME ResultInv, DiskInv, NEW s \in DOMAIN m_sessions, GetStatus(s) = "Done"
      PROVE  disk[s] = m_sessions[s].line_count
  <2>1. /\ m_sessions[s].chunks_done = m_sessions[s].chunks_total
        /\ m_sessions[s].chunks_done \in Nat /\ disk[s] \in Nat
    BY <1>1
    DEF GetStatus, ResultInv, ChunkInv, TypeOK, SessionsTypeOK, SearchSession
  <2>2. IsFiniteSet(Outstanding(s)) /\ Cardinality(Outstanding(s)) \in Nat
    BY <1>1, LiveFinite, FS_CardinalityType DEF ResultInv, ChunkInv
  <2>3. Outstanding(s) = {}
    BY <1>1, <2>1, <2>2, FS_EmptySet DEF ResultInv, ChunkInv, ChunkAccounting
  <2>4. Unwritten(s) = 0
    BY <2>3 DEF Unwritten, Outstanding, Live, InHand
  <2> QED
    BY <1>1, <2>1, <2>4 DEF DiskInv
<1>2. ResultInv /\ DiskInv => DoneMeansOnDisk
  BY <1>1 DEF DoneMeansOnDisk
<1> QED
  BY <1>2, DiskInvariance, PTL
=============================================================================
