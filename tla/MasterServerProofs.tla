------------------------- MODULE MasterServerProofs -------------------------
(***************************************************************************)
(* Theorems about MasterServer, for every number of Workers, threads,      *)
(* searches, chunks and matches.                                           *)
(***************************************************************************)
EXTENDS MasterServer, FiniteSetTheorems, SequenceTheorems, TLAPS

-----------------------------------------------------------------------------
(***************************************************************************)
(* Facts about the operators the model is built from.                      *)
(***************************************************************************)

\* The critical sections store a well-formed counter whatever number they
\* compute: it wraps around.
LEMMA SetSlotsType ==
    ASSUME SchedulerTypeOK, NEW c \in Client, NEW n \in Int
    PROVE  LET slots == SetSlots(c, n)
           IN  /\ DOMAIN slots \subseteq Client
               /\ \A d \in DOMAIN slots : slots[d] \in 0 .. SlotModulus - 1
<1>1. n % SlotModulus \in 0 .. SlotModulus - 1
  BY ConstantsAssumption
<1> QED
  BY <1>1 DEF SetSlots, SchedulerTypeOK

\* The three kinds of thread are different threads.
LEMMA ThreadsDistinct ==
    /\ Main \in Thread /\ Watcher \in Thread /\ Http \subseteq Thread
    /\ Main # Watcher /\ Main \notin Http /\ Watcher \notin Http
  BY ConstantsAssumption DEF Thread

\* The tasks StartSearch creates form a sequence of tasks.
LEMMA NewTasksType ==
    ASSUME NEW s \in SearchId, NEW n \in Nat, NEW limit \in Nat
    PROVE  NewTasks(s, n, limit) \in Seq(Task)
  BY SeqDef DEF NewTasks, Task

\* Where the three loops of DispatchNextTask calls return to.
LEMMA AfterLoopValues ==
    /\ AfterLoop["hello"] = "update"
    /\ AfterLoop["next"] = "aggregate"
    /\ AfterLoop["wake"] = "assign"
  BY DEF AfterLoop

\* The caller's loop keeps the thread-local variables well formed.
LEMMA RepeatType ==
    ASSUME ThreadsTypeOK, NEW t \in Thread, NEW d \in BOOLEAN,
           Dispatching(t), Repeat(t, d), UNCHANGED <<sid, job>>
    PROVE  ThreadsTypeOK'
<1>1. CASE d /\ left[t] > 1
  BY <1>1 DEF ThreadsTypeOK, Repeat, Dispatching
<1>2. CASE ~(d /\ left[t] > 1)
  <2>1. /\ left' = [left EXCEPT ![t] = 0]
        /\ cur' = [cur EXCEPT ![t] = None]
        /\ pc' = [pc EXCEPT ![t] = AfterLoop[pc[t]]]
    BY <1>2 DEF Repeat
  <2>2. /\ pc[t] = "hello" => AfterLoop[pc[t]] = "update"
        /\ pc[t] = "next" => AfterLoop[pc[t]] = "aggregate"
        /\ pc[t] = "wake" => AfterLoop[pc[t]] = "assign"
        /\ pc[t] \in {"hello", "next", "wake"}
    BY AfterLoopValues DEF Dispatching
  <2>3. /\ pc'[t] = AfterLoop[pc[t]] /\ cur'[t] = None /\ left'[t] = 0
        /\ \A u \in Thread \ {t} :
              pc'[u] = pc[u] /\ cur'[u] = cur[u] /\ left'[u] = left[u]
    BY <2>1 DEF ThreadsTypeOK
  <2>4. /\ pc' \in [Thread -> Place]
        /\ cur' \in [Thread -> Client \cup {None}]
        /\ left' \in [Thread -> Nat]
    <3>1. AfterLoop[pc[t]] \in Place
      BY <2>2 DEF Place
    <3>2. pc' \in [Thread -> Place]
      BY <2>1, <3>1 DEF ThreadsTypeOK
    <3>3. cur' \in [Thread -> Client \cup {None}] /\ left' \in [Thread -> Nat]
      BY <2>1 DEF ThreadsTypeOK
    <3> QED
      BY <3>2, <3>3
  <2>5. \A u \in Http : /\ pc'[u] \in {"free", "scan", "assign", "wake"}
                        /\ pc'[u] = "scan" <=> sid'[u] # None
    BY <2>2, <2>3, ThreadsDistinct DEF ThreadsTypeOK
  <2>6. /\ pc'[Main] \in {"update", "hello", "next", "aggregate", "write", "count"}
        /\ IF pc'[Main] \in {"update", "hello"} THEN job' = None ELSE job' \in Job
    BY <2>2, <2>3, ThreadsDistinct DEF ThreadsTypeOK
  <2>7. pc'[Watcher] \in {"watch", "assign", "wake"}
    BY <2>2, <2>3, ThreadsDistinct DEF ThreadsTypeOK
  <2>8. \A u \in Thread : IF Dispatching(u)'
                          THEN cur'[u] # None /\ left'[u] > 0
                          ELSE cur'[u] = None /\ left'[u] = 0
    BY <2>2, <2>3 DEF ThreadsTypeOK, Dispatching
  <2> QED
    BY <2>4, <2>5, <2>6, <2>7, <2>8 DEF ThreadsTypeOK
<1> QED
  BY <1>1, <1>2

\* Removing an answered task leaves a sequence of the same kind.
LEMMA RemoveAtType ==
    ASSUME NEW S, NEW q \in Seq(S), NEW i \in 1 .. Len(q)
    PROVE  RemoveAt(q, i) \in Seq(S)
<1>1. Len(q) \in Nat /\ \A j \in 1 .. Len(q) : q[j] \in S
  BY LenProperties, ElementOfSeq
<1>2. SubSeq(q, 1, i - 1) \in Seq(S)
  BY <1>1, SubSeqProperties
<1>3. SubSeq(q, i + 1, Len(q)) \in Seq(S)
  BY <1>1, SubSeqProperties
<1> QED
  BY <1>2, <1>3, ConcatProperties DEF RemoveAt

\* What OnClientDisconnect pushes to the front of the deque are tasks.
LEMMA ReclaimedType ==
    ASSUME SchedulerTypeOK, NEW c, NEW q \in Orders(InFlightAt(c))
    PROVE  [i \in DOMAIN q |-> q[i].task] \in Seq(Task)
<1>1. IsFiniteSet(InFlightAt(c)) /\ InFlightAt(c) \subseteq Flight
  BY FS_Subset DEF InFlightAt, SchedulerTypeOK
<1> DEFINE n == Cardinality(InFlightAt(c))
<1>2. n \in Nat
  BY <1>1, FS_CardinalityType
<1>3. q \in [1 .. n -> InFlightAt(c)]
  BY DEF Orders
<1> HIDE DEF n
<1>4. [i \in DOMAIN q |-> q[i].task] \in [1 .. n -> Task]
  BY <1>1, <1>3 DEF Flight
<1> QED
  BY <1>2, <1>4, SeqDef

-----------------------------------------------------------------------------
(***************************************************************************)
(* Sequences and what is in them.                                          *)
(***************************************************************************)

\* Taking the head off a queue takes exactly that element out of it.
LEMMA TakeHead ==
    ASSUME NEW S, NEW q \in Seq(S), q # <<>>, IsInjective(q)
    PROVE  /\ Head(q) \in Range(q)
           /\ Range(Tail(q)) = Range(q) \ {Head(q)}
           /\ IsInjective(Tail(q))
<1>1. /\ Len(q) \in Nat \ {0} /\ DOMAIN q = 1 .. Len(q)
      /\ Tail(q) \in Seq(S) /\ Len(Tail(q)) = Len(q) - 1
      /\ DOMAIN Tail(q) = 1 .. Len(q) - 1
      /\ \A i \in 1 .. Len(q) - 1 : Tail(q)[i] = q[i + 1]
  BY HeadTailProperties, EmptySeq, LenProperties
<1>2. Head(q) = q[1]
  OBVIOUS
<1>3. IsInjective(Tail(q))
  BY <1>1 DEF IsInjective
<1>4. Head(q) \in Range(q)
  BY <1>1, <1>2 DEF Range
<1>5. Range(Tail(q)) \subseteq Range(q) \ {Head(q)}
  BY <1>1, <1>2 DEF Range, IsInjective
<1>6. ASSUME NEW x \in Range(q) \ {Head(q)}
      PROVE  x \in Range(Tail(q))
  <2>1. PICK i \in 1 .. Len(q) : x = q[i]
    BY <1>1 DEF Range
  <2>2. i # 1
    BY <1>2, <1>6, <2>1
  <2>3. i - 1 \in 1 .. Len(q) - 1 /\ Tail(q)[i - 1] = x
    BY <1>1, <2>1, <2>2
  <2> QED
    BY <1>1, <2>3 DEF Range
<1> QED
  BY <1>3, <1>4, <1>5, <1>6

\* Joining two queues that have nothing in common repeats nothing.
LEMMA JoinDisjoint ==
    ASSUME NEW S, NEW p \in Seq(S), NEW q \in Seq(S),
           IsInjective(p), IsInjective(q), Range(p) \cap Range(q) = {}
    PROVE  IsInjective(p \o q)
<1>1. /\ Len(p) \in Nat /\ DOMAIN p = 1 .. Len(p)
      /\ Len(q) \in Nat /\ DOMAIN q = 1 .. Len(q)
      /\ DOMAIN (p \o q) = 1 .. Len(p) + Len(q)
      /\ \A i \in 1 .. Len(p) + Len(q) :
            (p \o q)[i] = IF i <= Len(p) THEN p[i] ELSE q[i - Len(p)]
  BY ConcatProperties, LenProperties
<1>2. \A i \in 1 .. Len(p), j \in 1 .. Len(q) : p[i] # q[j]
  BY <1>1 DEF Range
<1>3. ASSUME NEW i \in 1 .. Len(p) + Len(q), NEW j \in 1 .. Len(p) + Len(q),
             (p \o q)[i] = (p \o q)[j]
      PROVE  i = j
  <2>1. CASE i <= Len(p) /\ j <= Len(p)
    BY <1>1, <1>3, <2>1 DEF IsInjective
  <2>2. CASE i > Len(p) /\ j > Len(p)
    <3>1. i - Len(p) \in 1 .. Len(q) /\ j - Len(p) \in 1 .. Len(q)
      BY <1>1, <2>2
    <3>2. q[i - Len(p)] = q[j - Len(p)]
      BY <1>1, <1>3, <2>2
    <3> QED
      BY <1>1, <3>1, <3>2 DEF IsInjective
  <2>3. CASE i <= Len(p) /\ j > Len(p)
    BY <1>1, <1>2, <1>3, <2>3
  <2>4. CASE i > Len(p) /\ j <= Len(p)
    BY <1>1, <1>2, <1>3, <2>4
  <2> QED
    BY <1>1, <2>1, <2>2, <2>3, <2>4
<1> QED
  BY <1>1, <1>3 DEF IsInjective

\* A queue has finitely many elements.
LEMMA RangeFinite ==
    ASSUME NEW S, NEW q \in Seq(S)
    PROVE  IsFiniteSet(Range(q))
<1>1. Len(q) \in Nat /\ DOMAIN q = 1 .. Len(q) /\ q \in [1 .. Len(q) -> S]
  BY LenProperties
<1>2. q \in Surjection(1 .. Len(q), Range(q))
  BY <1>1 DEF Surjection, Range
<1>3. IsFiniteSet(1 .. Len(q))
  BY <1>1, FS_Interval
<1> QED
  BY <1>2, <1>3, FS_Surjection

\* A message put at the end of a queue is the only new one in it.
LEMMA RangeAppend ==
    ASSUME NEW S, NEW q \in Seq(S), NEW e \in S
    PROVE  Range(Append(q, e)) = Range(q) \cup {e}
<1>1. /\ Len(q) \in Nat /\ DOMAIN q = 1 .. Len(q)
      /\ DOMAIN Append(q, e) = 1 .. Len(q) + 1
      /\ \A i \in 1 .. Len(q) : Append(q, e)[i] = q[i]
      /\ Append(q, e)[Len(q) + 1] = e
  BY AppendProperties, LenProperties
<1>2. Range(Append(q, e)) \subseteq Range(q) \cup {e}
  <2>1. \A i \in 1 .. Len(q) + 1 : i \in 1 .. Len(q) \/ i = Len(q) + 1
    BY <1>1
  <2> QED
    BY <1>1, <2>1 DEF Range
<1>3. Range(q) \subseteq Range(Append(q, e))
  <2>1. \A i \in 1 .. Len(q) : i \in 1 .. Len(q) + 1
    BY <1>1
  <2> QED
    BY <1>1, <2>1 DEF Range
<1>4. e \in Range(Append(q, e))
  BY <1>1 DEF Range
<1> QED
  BY <1>2, <1>3, <1>4

\* Something new at the end of a queue is not a repetition.
LEMMA AppendNew ==
    ASSUME NEW S, NEW q \in Seq(S), NEW e \in S, IsInjective(q), e \notin Range(q)
    PROVE  IsInjective(Append(q, e))
<1>1. /\ Len(q) \in Nat /\ DOMAIN q = 1 .. Len(q)
      /\ DOMAIN Append(q, e) = 1 .. Len(q) + 1
      /\ \A i \in 1 .. Len(q) : Append(q, e)[i] = q[i]
      /\ Append(q, e)[Len(q) + 1] = e
  BY AppendProperties, LenProperties
<1>2. \A i \in 1 .. Len(q) : q[i] # e
  BY <1>1 DEF Range
<1>3. \A i \in 1 .. Len(q) + 1 : i \in 1 .. Len(q) \/ i = Len(q) + 1
  BY <1>1
<1> QED
  BY <1>1, <1>2, <1>3 DEF IsInjective

\* What is left of a queue after its head is taken was in it.
LEMMA RangeTail ==
    ASSUME NEW S, NEW q \in Seq(S), q # <<>>
    PROVE  Range(Tail(q)) \subseteq Range(q) /\ Head(q) \in Range(q)
<1>1. /\ Len(q) \in Nat \ {0} /\ DOMAIN q = 1 .. Len(q)
      /\ DOMAIN Tail(q) = 1 .. Len(q) - 1
      /\ \A i \in 1 .. Len(q) - 1 : Tail(q)[i] = q[i + 1]
  BY HeadTailProperties, EmptySeq, LenProperties
<1>2. Head(q) = q[1]
  OBVIOUS
<1> QED
  BY <1>1, <1>2 DEF Range

\* What is left of the tasks sent to a Worker after one is answered was there.
LEMMA RangeRemoveAt ==
    ASSUME NEW S, NEW q \in Seq(S), NEW i \in 1 .. Len(q)
    PROVE  Range(RemoveAt(q, i)) \subseteq Range(q)
<1> DEFINE a == SubSeq(q, 1, i - 1)
           b == SubSeq(q, i + 1, Len(q))
<1>1. Len(q) \in Nat /\ DOMAIN q = 1 .. Len(q) /\ \A j \in 1 .. Len(q) : q[j] \in S
  BY LenProperties, ElementOfSeq
<1>2. /\ a \in Seq(S) /\ Len(a) = i - 1
      /\ \A j \in 1 .. i - 1 : a[j] = q[j]
  BY <1>1, SubSeqProperties
<1>3. /\ b \in Seq(S) /\ Len(b) = Len(q) - i
      /\ \A j \in 1 .. Len(q) - i : b[j] = q[i + j]
  <2>1. /\ b \in Seq(S)
        /\ Len(b) = IF i + 1 <= Len(q) THEN Len(q) - (i + 1) + 1 ELSE 0
        /\ \A j \in 1 .. Len(q) - (i + 1) + 1 : b[j] = q[(i + 1) + j - 1]
    <3>1. i + 1 \in Int /\ Len(q) \in Int /\ \A j \in i + 1 .. Len(q) : q[j] \in S
      BY <1>1
    <3> QED
      BY <3>1, SubSeqProperties
  <2> HIDE DEF a, b
  <2>2. i \in Int /\ Len(q) \in Int /\ i <= Len(q)
    BY <1>1
  <2>3. Len(b) = Len(q) - i
    BY <2>1, <2>2
  <2>4. ASSUME NEW j \in 1 .. Len(q) - i PROVE b[j] = q[i + j]
    <3>1. j \in 1 .. Len(q) - (i + 1) + 1 /\ (i + 1) + j - 1 = i + j
      BY <2>2
    <3> QED
      BY <2>1, <3>1
  <2> QED
    BY <2>1, <2>3, <2>4
<1> HIDE DEF a, b
<1>4. DOMAIN a = 1 .. i - 1 /\ DOMAIN b = 1 .. Len(q) - i
  BY <1>2, <1>3, LenProperties
<1>5. Range(a) \subseteq Range(q)
  BY <1>1, <1>2, <1>4 DEF Range
<1>6. Range(b) \subseteq Range(q)
  <2>1. \A j \in 1 .. Len(q) - i : i + j \in 1 .. Len(q)
    BY <1>1
  <2> QED
    BY <1>1, <1>3, <1>4, <2>1 DEF Range
<1>7. Range(a \o b) = Range(a) \cup Range(b)
  BY <1>2, <1>3, RangeConcatenation
<1> QED
  BY <1>5, <1>6, <1>7 DEF RemoveAt, a, b

-----------------------------------------------------------------------------
(***************************************************************************)
(* Type correctness.                                                       *)
(***************************************************************************)

\* Every variable has its type initially.
LEMMA TypeInit == Init => TypeOK
<1> SUFFICES ASSUME Init PROVE TypeOK
  OBVIOUS
<1>1. SchedulerTypeOK
  BY FS_EmptySet, EmptySeq DEF Init, SchedulerTypeOK
<1>2. SessionsTypeOK
  BY ConstantsAssumption DEF Init, SessionsTypeOK
<1>3. ThreadsTypeOK
  BY ThreadsDistinct DEF Init, ThreadsTypeOK, Thread, Rest, Dispatching, Place
<1>4. EnvironmentTypeOK
  BY EmptySeq DEF Init, EnvironmentTypeOK
<1> QED
  BY <1>1, <1>2, <1>3, <1>4 DEF TypeOK

\* A step of StartSearch keeps every variable in its type.
LEMMA StartSearchType ==
    ASSUME TypeOK, NEW t \in Http, StartSearch(t)
    PROVE  TypeOK'
<1> USE DEF TypeOK
<1>1. CASE AllocateSearchId(t)
  <2>1. SessionsTypeOK' /\ m_nextSearchId \in SearchId
    BY <1>1, ConstantsAssumption
    DEF AllocateSearchId, SessionsTypeOK, SearchId
  <2>2. ThreadsTypeOK'
    BY <1>1, <2>1, ThreadsDistinct, ConstantsAssumption
    DEF AllocateSearchId, ThreadsTypeOK, Dispatching, Place, SearchId, loops
  <2> QED
    BY <1>1, <2>1, <2>2
    DEF AllocateSearchId, SchedulerTypeOK, EnvironmentTypeOK, scheduler,
        environment
<1>2. CASE StartSearchThrows(t)
  <2>1. ThreadsTypeOK'
    BY <1>2, ThreadsDistinct
    DEF StartSearchThrows, ThreadsTypeOK, Dispatching, Place, loops
  <2> QED
    BY <1>2, <2>1
    DEF StartSearchThrows, SchedulerTypeOK, SessionsTypeOK, EnvironmentTypeOK,
        scheduler, environment
<1>3. ASSUME NEW n \in 0 .. MaxChunks, NEW e \in 0 .. MaxScanErrors,
             NEW limit \in Limits, AddPendingTasks(t, n, e, limit)
      PROVE  TypeOK'
  <2>1. sid[t] \in SearchId /\ n \in Nat /\ e \in Nat /\ limit \in Nat
    BY <1>3, ConstantsAssumption DEF AddPendingTasks, ThreadsTypeOK
  <2>2. SchedulerTypeOK'
    BY <1>3, <2>1, NewTasksType, ConcatProperties
    DEF AddPendingTasks, SchedulerTypeOK
  <2>3. SessionsTypeOK'
    BY <1>3, <2>1 DEF AddPendingTasks, BuildSession, SessionsTypeOK, SearchSession
  <2>4. ThreadsTypeOK'
    BY <1>3, ThreadsDistinct
    DEF AddPendingTasks, ThreadsTypeOK, Dispatching, Place, loops
  <2> QED
    BY <1>3, <2>2, <2>3, <2>4
    DEF AddPendingTasks, EnvironmentTypeOK, environment
<1> QED
  BY <1>1, <1>2, <1>3 DEF StartSearch

\* A turn of the outer loop of AssignIdleWorkers does.
LEMMA AssignIdleWorkersType ==
    ASSUME TypeOK, NEW t \in Http \cup {Watcher}, AssignIdleWorkers(t)
    PROVE  TypeOK'
<1> USE DEF TypeOK
<1>0. t \in Thread /\ t # Main
  BY ThreadsDistinct
<1>1. CASE AssignDone(t)
  <2>1. ThreadsTypeOK'
    BY <1>0, <1>1, ThreadsDistinct
    DEF AssignDone, ThreadsTypeOK, Dispatching, Place, Rest, loops
  <2> QED
    BY <1>1, <2>1
    DEF AssignDone, SchedulerTypeOK, SessionsTypeOK, EnvironmentTypeOK,
        scheduler, environment
<1>2. CASE AssignSkip(t)
  <2>1. SchedulerTypeOK'
    BY <1>2, HeadTailProperties DEF AssignSkip, SchedulerTypeOK
  <2> QED
    BY <1>2, <2>1
    DEF AssignSkip, SessionsTypeOK, EnvironmentTypeOK, ThreadsTypeOK,
        Dispatching, environment, loops
<1>3. CASE AssignWake(t)
  <2> DEFINE w == Head(m_idleWorkers)
  <2>1. /\ w \in Client /\ Tail(m_idleWorkers) \in Seq(Client)
        /\ w \in DOMAIN m_workersFreeSlots
        /\ m_workersFreeSlots[w] \in Nat
    BY <1>3, HeadTailProperties, ConstantsAssumption
    DEF AssignWake, SchedulerTypeOK, Registered
  <2>2. SchedulerTypeOK'
    BY <1>3, <2>1 DEF AssignWake, SchedulerTypeOK
  <2>3. ThreadsTypeOK'
    <3>1. CASE m_workersFreeSlots[w] = 0
      BY <1>3, <3>1 DEF AssignWake, ThreadsTypeOK, Dispatching, loops
    <3>2. CASE m_workersFreeSlots[w] # 0
      <4>1. /\ cur' = [cur EXCEPT ![t] = w]
            /\ left' = [left EXCEPT ![t] = m_workersFreeSlots[w]]
            /\ pc' = [pc EXCEPT ![t] = "wake"]
            /\ w # None /\ m_workersFreeSlots[w] > 0
        BY <1>3, <3>2, <2>1, ConstantsAssumption DEF AssignWake
      <4> QED
        BY <1>0, <1>3, <2>1, <4>1, ThreadsDistinct
        DEF AssignWake, ThreadsTypeOK, Dispatching, Place
    <3> QED
      BY <3>1, <3>2
  <2> QED
    BY <1>3, <2>2, <2>3
    DEF AssignWake, SessionsTypeOK, EnvironmentTypeOK, environment
<1> QED
  BY <1>1, <1>2, <1>3 DEF AssignIdleWorkers

\* DispatchNextTask does, from whichever loop it is called.
LEMMA DispatchNextTaskType ==
    ASSUME TypeOK, NEW t \in Thread, DispatchNextTask(t)
    PROVE  TypeOK'
<1> USE DEF TypeOK
<1>0. Dispatching(t) /\ cur[t] \in Client
  BY DEF DispatchNextTask, DispatchTask, DispatchParks, DispatchRefused,
         ThreadsTypeOK
<1>1. CASE DispatchTask(t)
  <2> DEFINE c == cur[t]
             flight == NextFlight(c)
  <2>1. /\ Head(m_pendingTasks) \in Task
        /\ Tail(m_pendingTasks) \in Seq(Task)
        /\ m_workersFreeSlots[c] \in Int
    BY <1>1, HeadTailProperties DEF DispatchTask, SchedulerTypeOK, Registered
  <2>2. flight \in Flight
    BY <1>0, <2>1 DEF SchedulerTypeOK, Flight, NextFlight
  <2>3. SchedulerTypeOK'
    <3>1. IsFiniteSet(m_inFlightTasks \cup {flight})
      BY FS_AddElement DEF SchedulerTypeOK
    <3>2. m_workersFreeSlots' = SetSlots(c, m_workersFreeSlots[c] - 1)
      BY <1>1 DEF DispatchTask
    <3>3. /\ DOMAIN m_workersFreeSlots' \subseteq Client
          /\ \A d \in DOMAIN m_workersFreeSlots' :
                m_workersFreeSlots'[d] \in 0 .. SlotModulus - 1
      <4>1. m_workersFreeSlots[c] - 1 \in Int
        BY <2>1
      <4> QED
        BY <1>0, <3>2, <4>1, SetSlotsType
    <3> QED
      BY <1>1, <2>1, <2>2, <3>1, <3>3 DEF DispatchTask, SchedulerTypeOK
  <2>4. ThreadsTypeOK'
    BY <1>0, <1>1, RepeatType DEF DispatchTask
  <2>5. sent' \in [Client -> Seq(Flight)]
    <3>1. Append(sent[c], flight) \in Seq(Flight)
      BY <1>0, <2>2, AppendProperties DEF EnvironmentTypeOK
    <3> QED
      BY <1>1, <3>1 DEF DispatchTask, EnvironmentTypeOK
  <2> QED
    BY <1>1, <2>3, <2>4, <2>5
    DEF DispatchTask, SessionsTypeOK, EnvironmentTypeOK
<1>2. CASE DispatchParks(t)
  <2>1. SchedulerTypeOK'
    BY <1>0, <1>2, AppendProperties DEF DispatchParks, Park, SchedulerTypeOK
  <2>2. ThreadsTypeOK'
    BY <1>0, <1>2, RepeatType DEF DispatchParks
  <2> QED
    BY <1>2, <2>1, <2>2
    DEF DispatchParks, SessionsTypeOK, EnvironmentTypeOK, environment
<1>3. CASE DispatchRefused(t)
  <2>1. ThreadsTypeOK'
    BY <1>0, <1>3, RepeatType DEF DispatchRefused
  <2> QED
    BY <1>3, <2>1
    DEF DispatchRefused, SchedulerTypeOK, SessionsTypeOK, EnvironmentTypeOK,
        scheduler, environment
<1> QED
  BY <1>1, <1>2, <1>3 DEF DispatchNextTask

\* Every step of OnMessage on the main thread does.
LEMMA OnMessageType ==
    ASSUME TypeOK, OnMessage
    PROVE  TypeOK'
<1> USE DEF TypeOK
<1> DEFINE msg == Head(m_qMessagesIn)
<1>0. ASSUME NEW id, Update(id)
      PROVE  /\ msg \in Hello \cup TaskDone
             /\ msg.id = id
             /\ Tail(m_qMessagesIn) \in Seq(Hello \cup TaskDone)
  BY <1>0, HeadTailProperties DEF Update, EnvironmentTypeOK
<1>1. CASE OnHello
  <2>1. /\ msg.client \in Client /\ msg.threads_available \in Nat
        /\ Tail(m_qMessagesIn) \in Seq(Hello \cup TaskDone)
    BY <1>0, <1>1 DEF OnHello, Hello, TaskDone
  <2>2. SchedulerTypeOK'
    <3>1. m_workersFreeSlots' = SetSlots(msg.client, msg.threads_available)
      BY <1>1 DEF OnHello
    <3>2. /\ DOMAIN m_workersFreeSlots' \subseteq Client
          /\ \A d \in DOMAIN m_workersFreeSlots' :
                m_workersFreeSlots'[d] \in 0 .. SlotModulus - 1
      BY <2>1, <3>1, SetSlotsType
    <3> QED
      BY <1>1, <3>2 DEF OnHello, SchedulerTypeOK
  <2>3. ThreadsTypeOK'
    <3>1. CASE msg.threads_available = 0
      BY <1>1, <3>1 DEF OnHello, ThreadsTypeOK, Dispatching, loops
    <3>2. CASE msg.threads_available # 0
      <4>1. /\ cur' = [cur EXCEPT ![Main] = msg.client]
            /\ left' = [left EXCEPT ![Main] = msg.threads_available]
            /\ pc' = [pc EXCEPT ![Main] = "hello"]
            /\ pc[Main] = "update"
            /\ msg.client # None /\ msg.threads_available > 0
        BY <1>1, <2>1, <3>2, ConstantsAssumption DEF OnHello, Update
      <4> QED
        BY <1>1, <2>1, <4>1, ThreadsDistinct
        DEF OnHello, ThreadsTypeOK, Dispatching, Place
    <3> QED
      BY <3>1, <3>2
  <2> QED
    BY <1>1, <2>1, <2>2, <2>3
    DEF OnHello, Update, SessionsTypeOK, EnvironmentTypeOK
<1>2. CASE OnTaskDone
  <2>1. /\ msg \in TaskDone
        /\ Tail(m_qMessagesIn) \in Seq(Hello \cup TaskDone)
        /\ pc[Main] = "update"
    BY <1>0, <1>2 DEF OnTaskDone, Update, Hello, TaskDone
  <2>2. PICK f \in Answered(msg) :
          /\ m_inFlightTasks' = m_inFlightTasks \ {f}
          /\ m_workersFreeSlots' =
               SetSlots(f.client,
                        1 + IF Registered(f.client)
                            THEN m_workersFreeSlots[f.client] ELSE 0)
          /\ job' = [task |-> f.task, total_matches |-> msg.total_matches,
                     lines |-> msg.lines, out |-> 0]
          /\ cur' = [cur EXCEPT ![Main] = f.client]
          /\ left' = [left EXCEPT ![Main] = 1]
          /\ pc' = [pc EXCEPT ![Main] = "next"]
    BY <1>2 DEF OnTaskDone
  <2>3. f \in Flight /\ f.client \in Client /\ f.client # None /\ f.task \in Task
    BY ConstantsAssumption DEF Answered, SchedulerTypeOK, Flight
  <2>4. SchedulerTypeOK'
    <3>1. 1 + (IF Registered(f.client)
               THEN m_workersFreeSlots[f.client] ELSE 0) \in Int
      BY DEF SchedulerTypeOK, Registered
    <3>2. /\ DOMAIN m_workersFreeSlots' \subseteq Client
          /\ \A d \in DOMAIN m_workersFreeSlots' :
                m_workersFreeSlots'[d] \in 0 .. SlotModulus - 1
      BY <2>2, <2>3, <3>1, SetSlotsType
    <3>3. IsFiniteSet(m_inFlightTasks \ {f})
      BY FS_RemoveElement DEF SchedulerTypeOK
    <3> QED
      BY <1>2, <2>2, <3>2, <3>3 DEF OnTaskDone, SchedulerTypeOK
  <2>5. job' \in Job
    BY <2>1, <2>2, <2>3 DEF TaskDone, Job
  <2>6. ThreadsTypeOK'
    BY <1>2, <2>1, <2>2, <2>3, <2>5, ThreadsDistinct
    DEF OnTaskDone, ThreadsTypeOK, Dispatching, Place
  <2> QED
    BY <1>2, <2>1, <2>4, <2>6
    DEF OnTaskDone, Update, SessionsTypeOK, EnvironmentTypeOK
<1>3. CASE OnUnknownTaskDone
  <2>1. Tail(m_qMessagesIn) \in Seq(Hello \cup TaskDone)
    BY <1>0, <1>3 DEF OnUnknownTaskDone
  <2> QED
    BY <1>3, <2>1
    DEF OnUnknownTaskDone, Update, SchedulerTypeOK, SessionsTypeOK,
        ThreadsTypeOK, EnvironmentTypeOK, Dispatching, scheduler, loops
<1>4. CASE AggregateTaskResult
  <2> DEFINE s == job.task.search_id
             out == IF s \in DOMAIN m_sessions
                    THEN LinesToWrite(m_sessions[s], job.lines) ELSE 0
  <2>1. job \in Job /\ job.total_matches \in Nat /\ job.lines \in Nat
    BY <1>4 DEF AggregateTaskResult, ThreadsTypeOK, Job
  <2>2. out \in Nat
    BY <2>1 DEF LinesToWrite, Min2, SessionsTypeOK, SearchSession
  <2> HIDE DEF out
  <2>3. /\ job' = [job EXCEPT !.out = out]
        /\ pc' = [pc EXCEPT ![Main] = IF out > 0 THEN "write" ELSE "count"]
        /\ m_sessions' = IF s \in DOMAIN m_sessions
                         THEN [m_sessions EXCEPT
                                 ![s].total_matches = @ + job.total_matches,
                                 ![s].line_count = @ + out]
                         ELSE m_sessions
    BY <1>4 DEF AggregateTaskResult, out
  <2>4. SessionsTypeOK'
    BY <1>4, <2>1, <2>2, <2>3
    DEF AggregateTaskResult, SessionsTypeOK, SearchSession
  <2>5. job' \in Job
    BY <2>1, <2>2, <2>3 DEF Job
  <2>6. ThreadsTypeOK'
    BY <1>4, <2>3, <2>5, ThreadsDistinct
    DEF AggregateTaskResult, ThreadsTypeOK, Dispatching, Place, loops
  <2> QED
    BY <1>4, <2>4, <2>6
    DEF AggregateTaskResult, SchedulerTypeOK, EnvironmentTypeOK, scheduler,
        environment
<1>5. CASE WriteResults \/ OpenResultFileFails
  <2>1. /\ pc[Main] = "write" /\ job \in Job
        /\ job' = [job EXCEPT !.out = 0]
        /\ pc' = [pc EXCEPT ![Main] = "count"]
        /\ UNCHANGED <<scheduler, m_sessions, m_nextSearchId, loops, sid,
                       environment>>
    BY <1>5 DEF WriteResults, OpenResultFileFails, ThreadsTypeOK
  <2>2. SessionsTypeOK'
    BY <1>5, <2>1
    DEF WriteResults, OpenResultFileFails, SessionsTypeOK, Job, Task
  <2>3. job' \in Job
    BY <2>1 DEF Job
  <2>4. ThreadsTypeOK'
    BY <2>1, <2>3, ThreadsDistinct
    DEF ThreadsTypeOK, Dispatching, Place, loops
  <2> QED
    BY <2>1, <2>2, <2>4
    DEF SchedulerTypeOK, EnvironmentTypeOK, scheduler, environment
<1>6. CASE CountChunk
  <2>1. SessionsTypeOK'
    BY <1>6 DEF CountChunk, SessionsTypeOK, SearchSession
  <2>2. ThreadsTypeOK'
    BY <1>6, ThreadsDistinct
    DEF CountChunk, ThreadsTypeOK, Dispatching, Place, loops
  <2> QED
    BY <1>6, <2>1, <2>2
    DEF CountChunk, SchedulerTypeOK, EnvironmentTypeOK, scheduler, environment
<1> QED
  BY <1>1, <1>2, <1>3, <1>4, <1>5, <1>6 DEF OnMessage

\* OnClientDisconnect does.
LEMMA OnClientDisconnectType ==
    ASSUME TypeOK, NEW c \in Client, OnClientDisconnect(c)
    PROVE  TypeOK'
<1> USE DEF TypeOK
<1>1. SchedulerTypeOK'
  <2>1. PICK q \in Orders(InFlightAt(c)) :
          m_pendingTasks' = [i \in DOMAIN q |-> q[i].task] \o m_pendingTasks
    BY DEF OnClientDisconnect, Reclaim
  <2>2. m_pendingTasks' \in Seq(Task)
    BY <2>1, ReclaimedType, ConcatProperties DEF SchedulerTypeOK
  <2>3. IsFiniteSet(m_inFlightTasks \ InFlightAt(c))
    BY FS_Difference DEF SchedulerTypeOK
  <2> QED
    BY <2>2, <2>3 DEF OnClientDisconnect, Reclaim, Unregister, SchedulerTypeOK
<1>2. ThreadsTypeOK'
  BY ThreadsDistinct
  DEF OnClientDisconnect, ThreadsTypeOK, Dispatching, Place, loops
<1> QED
  BY <1>1, <1>2
  DEF OnClientDisconnect, SessionsTypeOK, EnvironmentTypeOK, environment

\* The Workers' messages and their broken connections do.
LEMMA WorkerType ==
    ASSUME TypeOK, NEW c \in Client, Worker(c)
    PROVE  TypeOK'
<1> USE DEF TypeOK
<1>1. CASE Connect(c)
  <2>1. SendHello(c) \in Hello \cup TaskDone
    BY ConstantsAssumption DEF SendHello, Hello
  <2>2. EnvironmentTypeOK'
    BY <1>1, <2>1, AppendProperties DEF Connect, EnvironmentTypeOK
  <2> QED
    BY <1>1, <2>2
    DEF Connect, SchedulerTypeOK, SessionsTypeOK, ThreadsTypeOK, Dispatching,
        scheduler, loops
<1>2. ASSUME NEW i \in 1 .. Threads[c], NEW m \in 0 .. MaxMatches,
             SendTaskDone(c, i, m)
      PROVE  TypeOK'
  <2>1. sent[c] \in Seq(Flight) /\ i \in 1 .. Len(sent[c]) /\ m \in Nat
    <3>1. sent[c] \in Seq(Flight)
      BY DEF EnvironmentTypeOK
    <3>2. Len(sent[c]) \in Nat /\ Threads[c] \in Nat
      BY <3>1, LenProperties, ConstantsAssumption
    <3>3. i \in 1 .. Min2(Threads[c], Len(sent[c]))
      BY <1>2 DEF SendTaskDone
    <3> QED
      BY <3>1, <3>2, <3>3 DEF Min2
  <2>2. /\ sent[c][i].task_id \in Nat
        /\ Min2(m, sent[c][i].task.max_results) \in Nat
    <3>1. sent[c][i] \in Flight
      BY <2>1, ElementOfSeq
    <3> QED
      BY <2>1, <3>1 DEF Flight, Task, Min2
  <2>3. SerializeBatch(c, sent[c][i], m) \in Hello \cup TaskDone
    BY <2>1, <2>2 DEF SerializeBatch, TaskDone
  <2>4. RemoveAt(sent[c], i) \in Seq(Flight)
    BY <2>1, RemoveAtType
  <2>5. EnvironmentTypeOK'
    BY <1>2, <2>3, <2>4, AppendProperties DEF SendTaskDone, EnvironmentTypeOK
  <2> QED
    BY <1>2, <2>5
    DEF SendTaskDone, SchedulerTypeOK, SessionsTypeOK, ThreadsTypeOK,
        Dispatching, scheduler, loops
<1>3. CASE Close(c)
  <2>1. EnvironmentTypeOK'
    BY <1>3, EmptySeq DEF Close, EnvironmentTypeOK
  <2> QED
    BY <1>3, <2>1
    DEF Close, SchedulerTypeOK, SessionsTypeOK, ThreadsTypeOK, Dispatching,
        scheduler, loops
<1> QED
  BY <1>1, <1>2, <1>3 DEF Worker

\* A step that changes nothing does.
LEMMA StutterType ==
    ASSUME TypeOK, UNCHANGED vars
    PROVE  TypeOK'
  BY DEF TypeOK, SchedulerTypeOK, SessionsTypeOK, ThreadsTypeOK,
         EnvironmentTypeOK, Dispatching, vars, scheduler, loops, environment

\* The shared state, the thread-local state and the queues of the Master keep
\* their types, and in particular a pool of HTTP threads of any size, Main and
\* the disconnect callback agree on which thread-local variables are in use.
THEOREM TypeCorrect == Spec => []TypeOK
<1>1. TypeOK /\ [Next]_vars => TypeOK'
  BY StartSearchType, AssignIdleWorkersType, DispatchNextTaskType,
     OnMessageType, OnClientDisconnectType, WorkerType, StutterType
  DEF Next
<1> QED
  BY <1>1, TypeInit, PTL DEF Spec


-----------------------------------------------------------------------------
(***************************************************************************)
(* The Workers the scheduler knows.                                        *)
(***************************************************************************)

\* The index of a Worker_Hello in the queue.
IsHello(i) == m_qMessagesIn[i].id = "Worker_Hello"

\* A Worker whose hello has not been handled is nowhere in the scheduler, and it
\* says hello once.
HelloOnce ==
    /\ \A c \in Client : conn[c] = "new" =>
          ~Registered(c) /\ c \notin Range(m_idleWorkers)
    /\ \A i \in DOMAIN m_qMessagesIn : IsHello(i) =>
          /\ m_qMessagesIn[i].threads_available = Threads[m_qMessagesIn[i].client]
          /\ conn[m_qMessagesIn[i].client] # "new"
          /\ ~Registered(m_qMessagesIn[i].client)
          /\ m_qMessagesIn[i].client \notin Range(m_idleWorkers)
    /\ \A i, j \in DOMAIN m_qMessagesIn :
          IsHello(i) /\ IsHello(j) /\ m_qMessagesIn[i].client = m_qMessagesIn[j].client
            => i = j

\* Tasks are in flight, and Workers in m_idleWorkersIds, only where Workers are
\* registered.
KnownWorkers ==
    /\ \A f \in m_inFlightTasks : Registered(f.client) /\ f.task_id <= m_nextTaskId
    /\ m_idleWorkersIds \subseteq DOMAIN m_workersFreeSlots

RegisterInv == HelloOnce /\ KnownWorkers /\ IdleInSync

\* Initially nobody is known.
LEMMA RegisterInit == Init => RegisterInv
  BY DEF Init, RegisterInv, HelloOnce, KnownWorkers, IdleInSync, Registered, Range,
         IsInjective

\* A step that leaves the Workers alone.
LEMMA RegisterUnchanged ==
    ASSUME RegisterInv,
           UNCHANGED <<m_inFlightTasks, m_idleWorkers, m_idleWorkersIds,
                       m_workersFreeSlots, m_nextTaskId, m_qMessagesIn, conn>>
    PROVE  RegisterInv'
  BY DEF RegisterInv, HelloOnce, IsHello, KnownWorkers, IdleInSync, Registered

\* A step that only takes the front message out of the queue.
LEMMA HelloTail ==
    ASSUME TypeOK, HelloOnce, m_qMessagesIn # <<>>,
           m_qMessagesIn' = Tail(m_qMessagesIn),
           UNCHANGED <<m_idleWorkers, conn>>,
           DOMAIN m_workersFreeSlots' = DOMAIN m_workersFreeSlots
    PROVE  HelloOnce'
<1>1. /\ DOMAIN m_qMessagesIn' = 1 .. Len(m_qMessagesIn) - 1
      /\ DOMAIN m_qMessagesIn = 1 .. Len(m_qMessagesIn)
      /\ Len(m_qMessagesIn) \in Nat
      /\ \A i \in 1 .. Len(m_qMessagesIn) - 1 :
            m_qMessagesIn'[i] = m_qMessagesIn[i + 1]
  BY HeadTailProperties, EmptySeq, LenProperties DEF TypeOK, EnvironmentTypeOK
<1>2. \A i \in DOMAIN m_qMessagesIn' :
         i \in Int /\ i + 1 \in DOMAIN m_qMessagesIn
           /\ m_qMessagesIn'[i] = m_qMessagesIn[i + 1]
  BY <1>1
<1> QED
  BY <1>2 DEF HelloOnce, IsHello, Registered

\* AssignIdleWorkers takes Workers out of the idle queue.
LEMMA AssignIdleWorkersRegister ==
    ASSUME TypeOK, RegisterInv, NEW t \in Http \cup {Watcher}, AssignIdleWorkers(t)
    PROVE  RegisterInv'
<1>1. CASE AssignDone(t)
  BY <1>1, RegisterUnchanged DEF AssignDone, scheduler, environment
<1>2. CASE AssignSkip(t) \/ AssignWake(t)
  <2>1. /\ m_idleWorkers # <<>> /\ m_idleWorkers' = Tail(m_idleWorkers)
        /\ m_idleWorkersIds' = m_idleWorkersIds \ {Head(m_idleWorkers)}
        /\ UNCHANGED <<m_inFlightTasks, m_workersFreeSlots, m_nextTaskId,
                       m_qMessagesIn, conn>>
    BY <1>2 DEF AssignSkip, AssignWake, environment, RegisterInv, KnownWorkers,
                Registered
  <2>2. /\ Range(m_idleWorkers') = Range(m_idleWorkers) \ {Head(m_idleWorkers)}
        /\ IsInjective(m_idleWorkers')
    BY <2>1, TakeHead DEF TypeOK, SchedulerTypeOK, RegisterInv, IdleInSync
  <2>3. HelloOnce'
    BY <2>1, <2>2 DEF RegisterInv, HelloOnce, IsHello, Registered
  <2>4. KnownWorkers'
    BY <2>1 DEF RegisterInv, KnownWorkers, Registered
  <2>5. IdleInSync'
    BY <2>1, <2>2 DEF RegisterInv, IdleInSync, Registered
  <2> QED
    BY <2>3, <2>4, <2>5 DEF RegisterInv
<1> QED
  BY <1>1, <1>2 DEF AssignIdleWorkers

\* DispatchNextTask sends a task to a registered Worker or lets it wait.
LEMMA DispatchNextTaskRegister ==
    ASSUME TypeOK, RegisterInv, NEW t \in Thread, DispatchNextTask(t)
    PROVE  RegisterInv'
<1>0. cur[t] \in Client
  BY DEF DispatchNextTask, DispatchTask, DispatchParks, DispatchRefused, TypeOK,
         ThreadsTypeOK
<1>1. CASE DispatchTask(t)
  <2>1. PICK c, flight :
          /\ c = cur[t] /\ flight = NextFlight(c) /\ Registered(c)
          /\ m_inFlightTasks' = m_inFlightTasks \cup {flight}
          /\ m_nextTaskId' = m_nextTaskId + 1
          /\ DOMAIN m_workersFreeSlots' = DOMAIN m_workersFreeSlots
          /\ UNCHANGED <<m_idleWorkers, m_idleWorkersIds, m_qMessagesIn, conn>>
    BY <1>1 DEF DispatchTask, SetSlots, Registered
  <2>2. flight.client = c /\ flight.task_id = m_nextTaskId + 1 /\ m_nextTaskId \in Nat
        /\ \A f \in m_inFlightTasks : f.task_id \in Nat
    BY <2>1 DEF NextFlight, TypeOK, SchedulerTypeOK, Flight
  <2>3. KnownWorkers'
    BY <2>1, <2>2 DEF RegisterInv, KnownWorkers, Registered
  <2> QED
    BY <2>1, <2>3 DEF RegisterInv, HelloOnce, IsHello, IdleInSync, Registered
<1>2. CASE DispatchParks(t)
  <2>1. PICK c \in Client :
          /\ c = cur[t] /\ Registered(c) /\ Park(c)
          /\ UNCHANGED <<m_inFlightTasks, m_workersFreeSlots, m_nextTaskId,
                         m_qMessagesIn, conn>>
    BY <1>0, <1>2 DEF DispatchParks, environment
  <2>2. CASE c \in m_idleWorkersIds
    BY <2>1, <2>2, RegisterUnchanged DEF Park
  <2>3. CASE c \notin m_idleWorkersIds
    <3>1. /\ m_idleWorkers' = Append(m_idleWorkers, c)
          /\ m_idleWorkersIds' = m_idleWorkersIds \cup {c}
          /\ c \notin Range(m_idleWorkers)
      BY <2>1, <2>3 DEF Park, RegisterInv, IdleInSync
    <3>2. Range(m_idleWorkers') = Range(m_idleWorkers) \cup {c}
      BY <3>1, RangeAppend DEF TypeOK, SchedulerTypeOK
    <3>3. IsInjective(m_idleWorkers')
      BY <3>1, AppendNew DEF TypeOK, SchedulerTypeOK, RegisterInv, IdleInSync
    <3>4. HelloOnce'
      BY <2>1, <3>2 DEF RegisterInv, HelloOnce, IsHello, Registered
    <3>5. KnownWorkers' /\ IdleInSync'
      BY <2>1, <3>1, <3>2, <3>3
      DEF RegisterInv, KnownWorkers, IdleInSync, Registered
    <3> QED
      BY <3>4, <3>5 DEF RegisterInv
  <2> QED
    BY <2>2, <2>3
<1>3. CASE DispatchRefused(t)
  BY <1>3, RegisterUnchanged DEF DispatchRefused, scheduler, environment
<1> QED
  BY <1>1, <1>2, <1>3 DEF DispatchNextTask

\* OnMessage registers a Worker the scheduler does not know.
LEMMA OnMessageRegister ==
    ASSUME TypeOK, RegisterInv, OnMessage
    PROVE  RegisterInv'
<1>1. CASE OnHello
  <2>1. PICK c, n :
          /\ m_qMessagesIn # <<>> /\ m_qMessagesIn' = Tail(m_qMessagesIn)
          /\ Head(m_qMessagesIn).id = "Worker_Hello"
          /\ c = Head(m_qMessagesIn).client
          /\ m_workersFreeSlots' = SetSlots(c, n)
          /\ UNCHANGED <<m_inFlightTasks, m_idleWorkers, m_idleWorkersIds,
                         m_nextTaskId, conn>>
    BY <1>1 DEF OnHello, Update
  <2>2. DOMAIN m_workersFreeSlots' = DOMAIN m_workersFreeSlots \cup {c}
    BY <2>1 DEF SetSlots
  <2>3. /\ DOMAIN m_qMessagesIn = 1 .. Len(m_qMessagesIn)
        /\ Len(m_qMessagesIn) \in Nat \ {0}
        /\ DOMAIN m_qMessagesIn' = 1 .. Len(m_qMessagesIn) - 1
        /\ \A i \in 1 .. Len(m_qMessagesIn) - 1 :
              m_qMessagesIn'[i] = m_qMessagesIn[i + 1]
        /\ Head(m_qMessagesIn) = m_qMessagesIn[1]
    BY <2>1, HeadTailProperties, EmptySeq, LenProperties
    DEF TypeOK, EnvironmentTypeOK
  <2>4. /\ conn[c] # "new" /\ ~Registered(c) /\ c \notin Range(m_idleWorkers)
        /\ \A i \in DOMAIN m_qMessagesIn :
              IsHello(i) /\ m_qMessagesIn[i].client = c => i = 1
    BY <2>1, <2>3 DEF RegisterInv, HelloOnce, IsHello
  <2>5. \A i \in DOMAIN m_qMessagesIn' :
           /\ i \in Int /\ i + 1 \in DOMAIN m_qMessagesIn /\ i + 1 # 1
           /\ m_qMessagesIn'[i] = m_qMessagesIn[i + 1]
    BY <2>3
  <2>6. HelloOnce'
    BY <2>1, <2>2, <2>4, <2>5 DEF RegisterInv, HelloOnce, IsHello, Registered
  <2>7. KnownWorkers' /\ IdleInSync'
    BY <2>1, <2>2, <2>4 DEF RegisterInv, KnownWorkers, IdleInSync, Registered
  <2> QED
    BY <2>6, <2>7 DEF RegisterInv
<1>2. CASE OnTaskDone
  <2>1. PICK f \in m_inFlightTasks :
          /\ m_qMessagesIn # <<>> /\ m_qMessagesIn' = Tail(m_qMessagesIn)
          /\ m_inFlightTasks' = m_inFlightTasks \ {f}
          /\ DOMAIN m_workersFreeSlots' = DOMAIN m_workersFreeSlots \cup {f.client}
          /\ UNCHANGED <<m_idleWorkers, m_idleWorkersIds, m_nextTaskId, conn>>
    BY <1>2 DEF OnTaskDone, Update, Answered, SetSlots
  <2>2. DOMAIN m_workersFreeSlots' = DOMAIN m_workersFreeSlots
    BY <2>1 DEF RegisterInv, KnownWorkers, Registered
  <2>3. HelloOnce'
    BY <2>1, <2>2, HelloTail DEF RegisterInv
  <2> QED
    BY <2>1, <2>2, <2>3 DEF RegisterInv, KnownWorkers, IdleInSync, Registered
<1>3. CASE OnUnknownTaskDone
  <2>1. /\ m_qMessagesIn # <<>> /\ m_qMessagesIn' = Tail(m_qMessagesIn)
        /\ UNCHANGED <<scheduler, conn>>
    BY <1>3 DEF OnUnknownTaskDone, Update
  <2>2. HelloOnce'
    BY <2>1, HelloTail DEF RegisterInv, scheduler
  <2> QED
    BY <2>1, <2>2 DEF RegisterInv, KnownWorkers, IdleInSync, Registered, scheduler
<1>4. CASE AggregateTaskResult \/ WriteResults \/ OpenResultFileFails \/ CountChunk
  BY <1>4, RegisterUnchanged
  DEF AggregateTaskResult, WriteResults, OpenResultFileFails, CountChunk, scheduler,
      environment
<1> QED
  BY <1>1, <1>2, <1>3, <1>4 DEF OnMessage

\* OnClientDisconnect forgets the Worker and its tasks together.
LEMMA OnClientDisconnectRegister ==
    ASSUME TypeOK, RegisterInv, NEW c \in Client, OnClientDisconnect(c)
    PROVE  RegisterInv'
<1>1. /\ DOMAIN m_workersFreeSlots' = DOMAIN m_workersFreeSlots \ {c}
      /\ m_idleWorkersIds' = m_idleWorkersIds \ {c}
      /\ m_inFlightTasks' = m_inFlightTasks \ InFlightAt(c)
      /\ UNCHANGED <<m_idleWorkers, m_nextTaskId, m_qMessagesIn, conn>>
  BY DEF OnClientDisconnect, Unregister, Reclaim, environment
<1>2. HelloOnce'
  BY <1>1 DEF RegisterInv, HelloOnce, IsHello, Registered
<1>3. KnownWorkers' /\ IdleInSync'
  BY <1>1 DEF RegisterInv, KnownWorkers, IdleInSync, Registered, InFlightAt
<1> QED
  BY <1>2, <1>3 DEF RegisterInv

\* The Workers: a new connection brings one hello.
LEMMA WorkerRegister ==
    ASSUME TypeOK, RegisterInv, NEW c \in Client, Worker(c)
    PROVE  RegisterInv'
<1>0. UNCHANGED scheduler
  BY DEF Worker, Connect, SendTaskDone, Close
<1>1. KnownWorkers' /\ IdleInSync'
  BY <1>0 DEF RegisterInv, KnownWorkers, IdleInSync, Registered, scheduler
<1>2. m_qMessagesIn \in Seq(Hello \cup TaskDone) /\ conn \in [Client -> {"new", "open", "closed"}]
      /\ Len(m_qMessagesIn) \in Nat /\ DOMAIN m_qMessagesIn = 1 .. Len(m_qMessagesIn)
      /\ \A i \in DOMAIN m_qMessagesIn : m_qMessagesIn[i].client \in Client
  <2>1. m_qMessagesIn \in Seq(Hello \cup TaskDone)
    BY DEF TypeOK, EnvironmentTypeOK
  <2>2. \A i \in DOMAIN m_qMessagesIn : m_qMessagesIn[i] \in Hello \cup TaskDone
    BY <2>1, ElementOfSeq, LenProperties
  <2> QED
    BY <2>1, <2>2, LenProperties DEF TypeOK, EnvironmentTypeOK, Hello, TaskDone
<1>3. ASSUME NEW msg, m_qMessagesIn' = Append(m_qMessagesIn, msg),
             msg \in Hello \cup TaskDone
      PROVE  /\ DOMAIN m_qMessagesIn' = 1 .. Len(m_qMessagesIn) + 1
             /\ \A i \in DOMAIN m_qMessagesIn' :
                   \/ i \in DOMAIN m_qMessagesIn /\ m_qMessagesIn'[i] = m_qMessagesIn[i]
                   \/ i = Len(m_qMessagesIn) + 1 /\ m_qMessagesIn'[i] = msg
  <2>1. /\ DOMAIN m_qMessagesIn' = 1 .. Len(m_qMessagesIn) + 1
        /\ \A i \in 1 .. Len(m_qMessagesIn) : m_qMessagesIn'[i] = m_qMessagesIn[i]
        /\ m_qMessagesIn'[Len(m_qMessagesIn) + 1] = msg
    BY <1>2, <1>3, AppendProperties, LenProperties
  <2> QED
    BY <1>2, <2>1
<1>4. CASE Connect(c)
  <2>1. /\ conn[c] = "new" /\ conn' = [conn EXCEPT ![c] = "open"]
        /\ m_qMessagesIn' = Append(m_qMessagesIn, SendHello(c))
    BY <1>4 DEF Connect
  <2>2. /\ SendHello(c) \in Hello /\ SendHello(c).id = "Worker_Hello"
        /\ SendHello(c).client = c /\ SendHello(c).threads_available = Threads[c]
    BY ConstantsAssumption DEF SendHello, Hello
  <2>3. \A i \in DOMAIN m_qMessagesIn' :
           \/ i \in DOMAIN m_qMessagesIn /\ m_qMessagesIn'[i] = m_qMessagesIn[i]
           \/ i = Len(m_qMessagesIn) + 1 /\ m_qMessagesIn'[i] = SendHello(c)
    BY <1>3, <2>1, <2>2
  <2>4. \A i \in DOMAIN m_qMessagesIn :
           IsHello(i) => m_qMessagesIn[i].client # c
    BY <2>1 DEF RegisterInv, HelloOnce
  <2>5. ~Registered(c) /\ c \notin Range(m_idleWorkers)
    BY <2>1 DEF RegisterInv, HelloOnce
  <2>6. \A d \in Client : conn'[d] = IF d = c THEN "open" ELSE conn[d]
    BY <1>2, <2>1
  <2>7. HelloOnce'
    BY <1>0, <1>2, <2>2, <2>3, <2>4, <2>5, <2>6
    DEF RegisterInv, HelloOnce, IsHello, Registered, scheduler
  <2> QED
    BY <1>1, <2>7 DEF RegisterInv
<1>5. ASSUME NEW i \in 1 .. Threads[c], NEW m \in 0 .. MaxMatches,
             SendTaskDone(c, i, m)
      PROVE  RegisterInv'
  <2>1. PICK msg : /\ m_qMessagesIn' = Append(m_qMessagesIn, msg)
                   /\ msg.id = "Worker_TaskDone" /\ UNCHANGED conn
                   /\ msg = SerializeBatch(c, sent[c][i], m)
    BY <1>5 DEF SendTaskDone, SerializeBatch
  <2>2. msg \in TaskDone
    <3>1. /\ sent[c] \in Seq(Flight) /\ i \in 1 .. Min2(Threads[c], Len(sent[c]))
          /\ Len(sent[c]) \in Nat /\ Threads[c] \in Nat
      BY <1>5, LenProperties, ConstantsAssumption
      DEF SendTaskDone, TypeOK, EnvironmentTypeOK
    <3>2. sent[c][i] \in Flight
      <4>1. i \in 1 .. Len(sent[c])
        BY <3>1 DEF Min2
      <4> QED
        BY <3>1, <4>1, ElementOfSeq
    <3>3. /\ sent[c][i].task_id \in Nat /\ sent[c][i].task.max_results \in Nat
      BY <3>2 DEF Flight, Task
    <3>4. Min2(m, sent[c][i].task.max_results) \in Nat
      BY <3>3, ConstantsAssumption DEF Min2
    <3> QED
      BY <2>1, <3>3, <3>4 DEF SerializeBatch, TaskDone
  <2>3. HelloOnce'
    BY <1>0, <1>2, <1>3, <2>1, <2>2
    DEF RegisterInv, HelloOnce, IsHello, Registered, scheduler
  <2> QED
    BY <1>1, <2>3 DEF RegisterInv
<1>6. CASE Close(c)
  <2>1. /\ UNCHANGED m_qMessagesIn /\ conn[c] = "open"
        /\ conn' = [conn EXCEPT ![c] = "closed"]
    BY <1>6 DEF Close
  <2>2. \A d \in Client : conn'[d] = "new" <=> conn[d] = "new"
    BY <1>2, <2>1
  <2>3. HelloOnce'
    BY <1>0, <1>2, <2>1, <2>2
    DEF RegisterInv, HelloOnce, IsHello, Registered, scheduler
  <2> QED
    BY <1>1, <2>3 DEF RegisterInv
<1> QED
  BY <1>4, <1>5, <1>6 DEF Worker

\* Every step does.
LEMMA RegisterStep ==
    ASSUME TypeOK, RegisterInv, [Next]_vars
    PROVE  RegisterInv'
<1>1. ASSUME NEW t \in Http, StartSearch(t)
      PROVE  RegisterInv'
  BY <1>1, RegisterUnchanged
  DEF StartSearch, AllocateSearchId, StartSearchThrows, AddPendingTasks, scheduler,
      environment
<1>2. CASE UNCHANGED vars
  BY <1>2, RegisterUnchanged DEF vars, scheduler, environment
<1> QED
  BY <1>1, <1>2, AssignIdleWorkersRegister, DispatchNextTaskRegister,
     OnMessageRegister, OnClientDisconnectRegister, WorkerRegister DEF Next

-----------------------------------------------------------------------------
(***************************************************************************)
(* The slot counters.                                                      *)
(***************************************************************************)

\* The remainder of a number is what it leaves beside a multiple of the modulus.
LEMMA Remainder ==
    ASSUME NEW m \in Nat \ {0}, NEW k \in Int, NEW r \in 0 .. m - 1
    PROVE  (m * k + r) % m = r
  OBVIOUS

\* The -- of a uint64_t takes one away, or one and adds the modulus.
LEMMA Decrement ==
    ASSUME NEW m \in Nat \ {0}, NEW k \in Int, NEW s \in 0 .. m - 1
    PROVE  \E j \in Int : \A r : r = (s - 1) % m => m * k + s - 1 = m * j + r
<1>1. CASE s > 0
  <2>1. (s - 1) % m = s - 1
    BY <1>1
  <2>2. \A r : r = s - 1 => m * k + s - 1 = m * k + r
    OBVIOUS
  <2> WITNESS k \in Int
  <2> QED
    BY <2>1, <2>2
<1>2. CASE s = 0
  <2>1. (m * (-1) + (m - 1)) % m = m - 1
    BY Remainder
  <2>2. m * (-1) + (m - 1) = s - 1
    BY <1>2
  <2>3. (s - 1) % m = m - 1
    BY <2>1, <2>2
  <2>4. m * k + s - 1 = m * (k - 1) + (m - 1)
    BY <1>2
  <2>5. \A r : r = m - 1 => m * k + s - 1 = m * (k - 1) + r
    BY <2>4
  <2> WITNESS k - 1 \in Int
  <2> QED
    BY <2>3, <2>5
<1> QED
  BY <1>1, <1>2

\* The ++ of a uint64_t adds one, or one and takes the modulus away.
LEMMA Increment ==
    ASSUME NEW m \in Nat \ {0}, NEW k \in Int, NEW s \in 0 .. m - 1
    PROVE  \E j \in Int : \A r : r = (1 + s) % m => m * k + s + 1 = m * j + r
<1>1. CASE s < m - 1
  <2>1. (1 + s) % m = s + 1
    BY <1>1
  <2>2. \A r : r = s + 1 => m * k + s + 1 = m * k + r
    OBVIOUS
  <2> WITNESS k \in Int
  <2> QED
    BY <2>1, <2>2
<1>2. CASE s = m - 1
  <2>1. (m * 1 + 0) % m = 0
    BY Remainder
  <2>2. m * 1 + 0 = 1 + s
    BY <1>2
  <2>3. m * k + s + 1 = m * (k + 1) + 0
    BY <1>2
  <2>4. (1 + s) % m = 0
    BY <2>1, <2>2
  <2>5. \A r : r = 0 => m * k + s + 1 = m * (k + 1) + r
    BY <2>3
  <2> WITNESS k + 1 \in Int
  <2> QED
    BY <2>4, <2>5
<1> QED
  BY <1>1, <1>2

\* The counter and the number of free threads differ by a multiple of 2^64.
SlotsInv ==
    \A c \in DOMAIN m_workersFreeSlots : \E k \in Int :
        Threads[c] - Cardinality(InFlightAt(c))
          = SlotModulus * k + m_workersFreeSlots[c]

\* A Worker has finitely many tasks in flight.
LEMMA FlightsFinite ==
    ASSUME TypeOK, NEW c
    PROVE  IsFiniteSet(InFlightAt(c)) /\ Cardinality(InFlightAt(c)) \in Nat
  BY FS_Subset, FS_CardinalityType DEF InFlightAt, TypeOK, SchedulerTypeOK

\* The counter is the number of free threads as uint64_t arithmetic has it; it is
\* never too small.
LEMMA SlotsExact ==
    ASSUME TypeOK, SlotsInv
    PROVE  /\ SlotAccounting
           /\ \A c \in DOMAIN m_workersFreeSlots :
                 m_workersFreeSlots[c] + Cardinality(InFlightAt(c)) >= Threads[c]
<1> SUFFICES ASSUME NEW c \in DOMAIN m_workersFreeSlots
             PROVE  /\ m_workersFreeSlots[c]
                         = (Threads[c] - Cardinality(InFlightAt(c))) % SlotModulus
                    /\ m_workersFreeSlots[c] + Cardinality(InFlightAt(c))
                         >= Threads[c]
  BY DEF SlotAccounting
<1>1. /\ Threads[c] \in Nat /\ Threads[c] < SlotModulus /\ SlotModulus \in Nat \ {0}
      /\ m_workersFreeSlots[c] \in 0 .. SlotModulus - 1
      /\ Cardinality(InFlightAt(c)) \in Nat
  BY ConstantsAssumption, FlightsFinite DEF TypeOK, SchedulerTypeOK
<1>2. PICK k \in Int : Threads[c] - Cardinality(InFlightAt(c))
                         = SlotModulus * k + m_workersFreeSlots[c]
  BY DEF SlotsInv
<1>3. m_workersFreeSlots[c]
        = (Threads[c] - Cardinality(InFlightAt(c))) % SlotModulus
  BY <1>1, <1>2, Remainder
<1>4. PICK a \in Int : a = Threads[c] - Cardinality(InFlightAt(c))
  BY <1>1
<1>5. a < SlotModulus
  BY <1>1, <1>4
<1>6. a % SlotModulus >= a
  BY <1>1, <1>5
<1>7. m_workersFreeSlots[c] >= a
  BY <1>3, <1>4, <1>6
<1> QED
  BY <1>1, <1>3, <1>4, <1>7

\* A step that leaves counters and tasks in flight alone.
LEMMA SlotsUnchanged ==
    ASSUME SlotsInv, UNCHANGED <<m_inFlightTasks, m_workersFreeSlots>>
    PROVE  SlotsInv'
  BY DEF SlotsInv, InFlightAt

\* DispatchNextTask takes a slot for the task it sends, if there is one or not.
LEMMA DispatchTaskSlots ==
    ASSUME TypeOK, RegisterInv, SlotsInv, NEW t \in Thread, DispatchTask(t),
           NEW c, c = cur[t]
    PROVE  /\ SlotsInv'
           /\ DOMAIN m_workersFreeSlots' = DOMAIN m_workersFreeSlots
           /\ Cardinality(InFlightAt(c))' = Cardinality(InFlightAt(c)) + 1
           /\ \A d : d # c => InFlightAt(d)' = InFlightAt(d)
<1>1. PICK flight :
        /\ flight = NextFlight(c) /\ c \in DOMAIN m_workersFreeSlots
        /\ m_inFlightTasks' = m_inFlightTasks \cup {flight}
        /\ m_workersFreeSlots' = SetSlots(c, m_workersFreeSlots[c] - 1)
  BY DEF DispatchTask, Registered
<1>2. /\ flight.client = c /\ flight \notin m_inFlightTasks
      /\ SlotModulus \in Nat \ {0}
      /\ m_workersFreeSlots[c] \in 0 .. SlotModulus - 1
      /\ Threads[c] \in Nat
  BY <1>1, ConstantsAssumption
  DEF NextFlight, RegisterInv, KnownWorkers, TypeOK, SchedulerTypeOK, Flight
<1>3. /\ DOMAIN m_workersFreeSlots' = DOMAIN m_workersFreeSlots
      /\ m_workersFreeSlots'[c] = (m_workersFreeSlots[c] - 1) % SlotModulus
      /\ \A d \in DOMAIN m_workersFreeSlots :
            d # c => m_workersFreeSlots'[d] = m_workersFreeSlots[d]
  BY <1>1 DEF SetSlots
<1>4. /\ InFlightAt(c)' = InFlightAt(c) \cup {flight} /\ flight \notin InFlightAt(c)
      /\ \A d : d # c => InFlightAt(d)' = InFlightAt(d)
  BY <1>1, <1>2 DEF InFlightAt
<1>5. /\ Cardinality(InFlightAt(c))' = Cardinality(InFlightAt(c)) + 1
      /\ Cardinality(InFlightAt(c)) \in Nat
  BY <1>4, FlightsFinite, FS_AddElement
<1>6. PICK k \in Int : Threads[c] - Cardinality(InFlightAt(c))
                         = SlotModulus * k + m_workersFreeSlots[c]
  BY <1>1 DEF SlotsInv
<1>7. PICK j \in Int : SlotModulus * k + m_workersFreeSlots[c] - 1
                         = SlotModulus * j + m_workersFreeSlots'[c]
  <2>1. PICK j \in Int : \A r : r = (m_workersFreeSlots[c] - 1) % SlotModulus
          => SlotModulus * k + m_workersFreeSlots[c] - 1 = SlotModulus * j + r
    BY <1>2, Decrement
  <2> QED
    BY <1>3, <2>1
<1>8. Threads[c] - Cardinality(InFlightAt(c))'
        = SlotModulus * j + m_workersFreeSlots'[c]
  <2>1. PICK a, b \in Int : a = SlotModulus * k /\ b = SlotModulus * j
    BY <1>2
  <2>2. PICK x, y \in Int : x = Cardinality(InFlightAt(c))
                            /\ y = Cardinality(InFlightAt(c))'
    BY <1>5
  <2>3. PICK u, v \in Int : u = m_workersFreeSlots[c] /\ v = m_workersFreeSlots'[c]
    BY <1>2, <1>3
  <2>4. Threads[c] - y = b + v
    BY <1>2, <1>5, <1>6, <1>7, <2>1, <2>2, <2>3
  <2> QED
    BY <2>1, <2>2, <2>3, <2>4
<1>9. SlotsInv'
  BY <1>3, <1>4, <1>8 DEF SlotsInv
<1> QED
  BY <1>3, <1>4, <1>5, <1>9

\* Worker_TaskDone gives the slot of the answered task back.
LEMMA OnTaskDoneSlots ==
    ASSUME TypeOK, RegisterInv, SlotsInv, NEW f \in m_inFlightTasks,
           m_inFlightTasks' = m_inFlightTasks \ {f},
           m_workersFreeSlots' =
             SetSlots(f.client, 1 + IF Registered(f.client)
                                    THEN m_workersFreeSlots[f.client] ELSE 0)
    PROVE  /\ SlotsInv'
           /\ DOMAIN m_workersFreeSlots' = DOMAIN m_workersFreeSlots
           /\ Cardinality(InFlightAt(f.client))'
                = Cardinality(InFlightAt(f.client)) - 1
           /\ \A d : d # f.client => InFlightAt(d)' = InFlightAt(d)
<1>1. PICK c : c = f.client
  OBVIOUS
<1>2. /\ c \in DOMAIN m_workersFreeSlots /\ Registered(c)
      /\ SlotModulus \in Nat \ {0}
      /\ m_workersFreeSlots[c] \in 0 .. SlotModulus - 1
      /\ Threads[c] \in Nat
  BY <1>1, ConstantsAssumption
  DEF RegisterInv, KnownWorkers, Registered, TypeOK, SchedulerTypeOK
<1>3. /\ DOMAIN m_workersFreeSlots' = DOMAIN m_workersFreeSlots
      /\ m_workersFreeSlots'[c] = (1 + m_workersFreeSlots[c]) % SlotModulus
      /\ \A d \in DOMAIN m_workersFreeSlots :
            d # c => m_workersFreeSlots'[d] = m_workersFreeSlots[d]
  BY <1>1, <1>2 DEF SetSlots
<1>4. /\ InFlightAt(c)' = InFlightAt(c) \ {f} /\ f \in InFlightAt(c)
      /\ \A d : d # c => InFlightAt(d)' = InFlightAt(d)
  BY <1>1 DEF InFlightAt
<1>5. /\ Cardinality(InFlightAt(c))' = Cardinality(InFlightAt(c)) - 1
      /\ Cardinality(InFlightAt(c)) \in Nat
  BY <1>4, FlightsFinite, FS_RemoveElement
<1>6. PICK k \in Int : Threads[c] - Cardinality(InFlightAt(c))
                         = SlotModulus * k + m_workersFreeSlots[c]
  BY <1>2 DEF SlotsInv
<1>7. PICK j \in Int : SlotModulus * k + m_workersFreeSlots[c] + 1
                         = SlotModulus * j + m_workersFreeSlots'[c]
  <2>1. PICK j \in Int : \A r : r = (1 + m_workersFreeSlots[c]) % SlotModulus
          => SlotModulus * k + m_workersFreeSlots[c] + 1 = SlotModulus * j + r
    BY <1>2, Increment
  <2> QED
    BY <1>3, <2>1
<1>8. Threads[c] - Cardinality(InFlightAt(c))'
        = SlotModulus * j + m_workersFreeSlots'[c]
  <2>1. PICK a, b \in Int : a = SlotModulus * k /\ b = SlotModulus * j
    BY <1>2
  <2>2. PICK x, y \in Int : x = Cardinality(InFlightAt(c))
                            /\ y = Cardinality(InFlightAt(c))'
    BY <1>5
  <2>3. PICK u, v \in Int : u = m_workersFreeSlots[c] /\ v = m_workersFreeSlots'[c]
    BY <1>2, <1>3
  <2>4. Threads[c] - y = b + v
    BY <1>2, <1>5, <1>6, <1>7, <2>1, <2>2, <2>3
  <2> QED
    BY <2>1, <2>2, <2>3, <2>4
<1>9. SlotsInv'
  BY <1>3, <1>4, <1>8 DEF SlotsInv
<1> QED
  BY <1>1, <1>3, <1>4, <1>5, <1>9

\* Worker_Hello registers a Worker that has no task, with all of its threads free.
LEMMA OnHelloSlots ==
    ASSUME TypeOK, RegisterInv, SlotsInv, OnHello
    PROVE  LET c == Head(m_qMessagesIn).client
           IN  /\ SlotsInv' /\ c \in Client /\ ~Registered(c)
               /\ Head(m_qMessagesIn).threads_available = Threads[c]
               /\ DOMAIN m_workersFreeSlots' = DOMAIN m_workersFreeSlots \cup {c}
<1>1. PICK c, n :
        /\ m_qMessagesIn # <<>> /\ Head(m_qMessagesIn).id = "Worker_Hello"
        /\ c = Head(m_qMessagesIn).client
        /\ n = Head(m_qMessagesIn).threads_available
        /\ m_workersFreeSlots' = SetSlots(c, n)
        /\ UNCHANGED m_inFlightTasks
  BY DEF OnHello, Update
<1>2. 1 \in DOMAIN m_qMessagesIn /\ Head(m_qMessagesIn) = m_qMessagesIn[1]
      /\ Head(m_qMessagesIn) \in Hello \cup TaskDone
  BY <1>1, HeadTailProperties, EmptySeq, LenProperties DEF TypeOK, EnvironmentTypeOK
<1>3. /\ n = Threads[c] /\ ~Registered(c) /\ c \in Client
      /\ n \in Nat /\ n < SlotModulus /\ SlotModulus \in Nat
  BY <1>1, <1>2, ConstantsAssumption
  DEF RegisterInv, HelloOnce, IsHello, Hello, TaskDone
<1>4. InFlightAt(c) = {} /\ Cardinality(InFlightAt(c)) = 0
  BY <1>3, FS_EmptySet DEF InFlightAt, RegisterInv, KnownWorkers
<1>5. \A d : InFlightAt(d)' = InFlightAt(d)
  BY <1>1 DEF InFlightAt
<1>6. /\ DOMAIN m_workersFreeSlots' = DOMAIN m_workersFreeSlots \cup {c}
      /\ m_workersFreeSlots'[c] = n % SlotModulus
      /\ \A d \in DOMAIN m_workersFreeSlots :
            d # c => m_workersFreeSlots'[d] = m_workersFreeSlots[d]
  BY <1>1 DEF SetSlots
<1>7. n % SlotModulus = n
  BY <1>3
<1>8. Threads[c] - Cardinality(InFlightAt(c))
        = SlotModulus * 0 + m_workersFreeSlots'[c]
  BY <1>3, <1>4, <1>6, <1>7
<1>9. SlotsInv'
  BY <1>5, <1>6, <1>8 DEF SlotsInv
<1> QED
  BY <1>1, <1>3, <1>6, <1>9

\* OnClientDisconnect forgets the counter with the tasks it counts.
LEMMA OnClientDisconnectSlots ==
    ASSUME SlotsInv, NEW c \in Client, OnClientDisconnect(c)
    PROVE  SlotsInv'
<1>1. /\ DOMAIN m_workersFreeSlots' = DOMAIN m_workersFreeSlots \ {c}
      /\ \A d \in DOMAIN m_workersFreeSlots \ {c} :
            m_workersFreeSlots'[d] = m_workersFreeSlots[d]
      /\ m_inFlightTasks' = m_inFlightTasks \ InFlightAt(c)
  BY DEF OnClientDisconnect, Unregister, Reclaim
<1>2. \A d : d # c => InFlightAt(d)' = InFlightAt(d)
  BY <1>1 DEF InFlightAt
<1> QED
  BY <1>1, <1>2 DEF SlotsInv

\* Every step keeps the counters exact.
LEMMA SlotsStep ==
    ASSUME TypeOK, RegisterInv, SlotsInv, [Next]_vars
    PROVE  SlotsInv'
<1>1. ASSUME NEW t \in Thread,
             \/ t \in Http /\ StartSearch(t)
             \/ t \in Http \cup {Watcher} /\ AssignIdleWorkers(t)
             \/ DispatchParks(t) \/ DispatchRefused(t)
      PROVE  SlotsInv'
  BY <1>1, SlotsUnchanged
  DEF StartSearch, AllocateSearchId, StartSearchThrows, AddPendingTasks,
      AssignIdleWorkers, AssignDone, AssignSkip, AssignWake, DispatchParks,
      DispatchRefused, scheduler
<1>2. ASSUME NEW t \in Thread, DispatchTask(t)
      PROVE  SlotsInv'
  BY <1>2, DispatchTaskSlots
<1>3. CASE OnHello
  BY <1>3, OnHelloSlots
<1>4. CASE OnTaskDone
  BY <1>4, OnTaskDoneSlots DEF OnTaskDone, Answered
<1>5. CASE OnUnknownTaskDone \/ AggregateTaskResult \/ WriteResults
           \/ OpenResultFileFails \/ CountChunk \/ UNCHANGED vars
  BY <1>5, SlotsUnchanged
  DEF OnUnknownTaskDone, AggregateTaskResult, WriteResults, OpenResultFileFails,
      CountChunk, scheduler, vars
<1>6. ASSUME NEW c \in Client, Worker(c)
      PROVE  SlotsInv'
  BY <1>6, SlotsUnchanged DEF Worker, Connect, SendTaskDone, Close, scheduler
<1> QED
  BY <1>1, <1>2, <1>3, <1>4, <1>5, <1>6, OnClientDisconnectSlots, ThreadsDistinct
  DEF Next, DispatchNextTask, OnMessage

\* Initially no Worker is registered.
LEMMA SlotsInit == Init => SlotsInv
  BY DEF Init, SlotsInv

\* What the scheduler knows of its Workers, in every reachable state.
LEMMA SlotsInvariant == Spec => [](TypeOK /\ RegisterInv /\ SlotsInv)
<1>1. Init => RegisterInv /\ SlotsInv
  BY RegisterInit, SlotsInit
<1>2. TypeOK /\ RegisterInv /\ SlotsInv /\ [Next]_vars => RegisterInv' /\ SlotsInv'
  BY RegisterStep, SlotsStep
<1> QED
  BY <1>1, <1>2, TypeCorrect, PTL DEF Spec

\* The free slots of a Worker and its tasks in flight agree, modulo 2^64, for
\* every pool size and any number of threads that take slots at the same time.
THEOREM SlotsCorrect == Spec => []SlotAccounting
<1>1. TypeOK /\ RegisterInv /\ SlotsInv => SlotAccounting
  BY SlotsExact
<1> QED
  BY <1>1, SlotsInvariant, PTL

\* The idle queue and the set of ids that says who is in it agree.
THEOREM IdleCorrect == Spec => []IdleInSync
<1>1. RegisterInv => IdleInSync
  BY DEF RegisterInv
<1> QED
  BY <1>1, SlotsInvariant, PTL

-----------------------------------------------------------------------------
(***************************************************************************)
(* No wakeup is lost.                                                      *)
(***************************************************************************)

\* The calls of DispatchNextTask(c) the threads still have to make, one for each
\* remaining turn of their loops.
Tickets(c) ==
    {x \in Thread \X Nat : cur[x[1]] = c /\ x[2] \in 1 .. left[x[1]]}

\* A registered Worker that is not in the idle queue has a task in flight or a
\* call still to come for every thread of its pool.
Saturated ==
    \A c \in Client :
        /\ IsFiniteSet(Tickets(c))
        /\ Registered(c) =>
              \/ c \in m_idleWorkersIds
              \/ Cardinality(InFlightAt(c)) + Cardinality(Tickets(c)) >= Threads[c]

\* As long as a chunk waits beside an idle Worker, some thread is at work in
\* AssignIdleWorkers.
SomebodyAssigns ==
    m_pendingTasks # <<>> /\ m_idleWorkersIds # {} =>
        \E t \in Thread : pc[t] \in {"assign", "wake"}

\* Nobody has a call to make when all threads stand still.
LEMMA NoTickets ==
    ASSUME TypeOK, \A t \in Thread : ~Dispatching(t), NEW c \in Client
    PROVE  Tickets(c) = {}
  BY ConstantsAssumption DEF Tickets, TypeOK, ThreadsTypeOK

\* A dispatched task uses up one call of the thread that dispatched it.
LEMMA RepeatTickets ==
    ASSUME TypeOK, NEW t \in Thread, Dispatching(t), Repeat(t, TRUE),
           NEW c \in Client, c = cur[t]
    PROVE  /\ <<t, left[t]>> \in Tickets(c)
           /\ Tickets(c)' = Tickets(c) \ {<<t, left[t]>>}
           /\ \A d \in Client : d # c => Tickets(d)' = Tickets(d)
<1>1. /\ cur \in [Thread -> Client \cup {None}] /\ left \in [Thread -> Nat]
      /\ left[t] > 0 /\ None \notin Client
  BY ConstantsAssumption DEF TypeOK, ThreadsTypeOK
<1>2. \A u \in Thread : u # t => cur'[u] = cur[u] /\ left'[u] = left[u]
  BY <1>1 DEF Repeat
<1>3. /\ cur'[t] = c \/ cur'[t] = None
      /\ cur'[t] = c => left'[t] = left[t] - 1
      /\ cur'[t] = None => left[t] = 1
  BY <1>1 DEF Repeat
<1>4. <<t, left[t]>> \in Tickets(c)
  BY <1>1 DEF Tickets
<1>5. Tickets(c)' = Tickets(c) \ {<<t, left[t]>>}
  <2>1. ASSUME NEW u \in Thread, NEW i \in Nat
        PROVE  <<u, i>> \in Tickets(c)'
                 <=> <<u, i>> \in Tickets(c) /\ <<u, i>> # <<t, left[t]>>
    <3>1. CASE u # t
      BY <1>2, <3>1 DEF Tickets
    <3>2. CASE u = t
      BY <1>1, <1>3, <3>2 DEF Tickets
    <3> QED
      BY <3>1, <3>2
  <2> QED
    BY <2>1 DEF Tickets
<1>6. ASSUME NEW d \in Client, d # c
      PROVE  Tickets(d)' = Tickets(d)
  <2>1. ASSUME NEW u \in Thread
        PROVE  /\ cur'[u] = d <=> cur[u] = d
               /\ cur[u] = d => left'[u] = left[u]
    BY <1>1, <1>2, <1>3, <1>6
  <2> QED
    BY <2>1 DEF Tickets
<1> QED
  BY <1>4, <1>5, <1>6

\* A loop that breaks gives up the calls of its thread and nobody else's.
LEMMA BreakTickets ==
    ASSUME TypeOK, NEW t \in Thread, Repeat(t, FALSE)
    PROVE  /\ \A d \in Client : Tickets(d)' \subseteq Tickets(d)
           /\ \A d \in Client : d # cur[t] => Tickets(d)' = Tickets(d)
<1>1. /\ cur \in [Thread -> Client \cup {None}] /\ left \in [Thread -> Nat]
      /\ None \notin Client
  BY ConstantsAssumption DEF TypeOK, ThreadsTypeOK
<1>2. /\ \A u \in Thread : u # t => cur'[u] = cur[u] /\ left'[u] = left[u]
      /\ cur'[t] = None
  BY <1>1 DEF Repeat
<1>3. ASSUME NEW d \in Client, NEW u \in Thread
      PROVE  /\ cur'[u] = d => cur[u] = d /\ left'[u] = left[u]
             /\ d # cur[t] /\ cur[u] = d => cur'[u] = d
  BY <1>1, <1>2
<1> QED
  BY <1>3 DEF Tickets

\* A thread that enters a loop of n calls for Worker c.
LEMMA NewTickets ==
    ASSUME TypeOK, NEW t \in Thread, ~Dispatching(t), NEW c \in Client, NEW n \in Nat,
           IsFiniteSet(Tickets(c)),
           cur' = [cur EXCEPT ![t] = c], left' = [left EXCEPT ![t] = n]
    PROVE  /\ IsFiniteSet(Tickets(c)')
           /\ Cardinality(Tickets(c)') = Cardinality(Tickets(c)) + n
           /\ \A d \in Client : d # c => Tickets(d)' = Tickets(d)
<1> DEFINE Block == {t} \X (1 .. n)
           f == [i \in 1 .. n |-> <<t, i>>]
<1>1. /\ cur \in [Thread -> Client \cup {None}] /\ left \in [Thread -> Nat]
      /\ cur[t] = None /\ left[t] = 0 /\ None \notin Client
  BY ConstantsAssumption DEF TypeOK, ThreadsTypeOK
<1>2. /\ \A u \in Thread : u # t => cur'[u] = cur[u] /\ left'[u] = left[u]
      /\ cur'[t] = c /\ left'[t] = n
  BY <1>1
<1>3. Tickets(c)' = Tickets(c) \cup Block
  <2>1. ASSUME NEW u \in Thread, NEW i \in Nat
        PROVE  <<u, i>> \in Tickets(c)' <=> <<u, i>> \in Tickets(c) \cup Block
    <3>1. CASE u # t
      BY <1>2, <3>1 DEF Tickets
    <3>2. CASE u = t
      BY <1>1, <1>2, <3>2 DEF Tickets
    <3> QED
      BY <3>1, <3>2
  <2>2. Block \subseteq Thread \X Nat
    OBVIOUS
  <2> QED
    BY <2>1, <2>2 DEF Tickets
<1>4. Tickets(c) \cap Block = {}
  BY <1>1 DEF Tickets
<1>5. IsFiniteSet(Block) /\ Cardinality(Block) = n
  <2>1. f \in Bijection(1 .. n, Block)
    <3>1. f \in [1 .. n -> Block]
      OBVIOUS
    <3>2. \A i, j \in 1 .. n : f[i] = f[j] => i = j
      OBVIOUS
    <3>3. \A x \in Block : \E i \in 1 .. n : f[i] = x
      OBVIOUS
    <3> HIDE DEF f, Block
    <3> QED
      BY <3>1, <3>2, <3>3 DEF Bijection, Injection, Surjection, IsInjective
  <2>2. ExistsBijection(1 .. n, Block)
    BY <2>1 DEF ExistsBijection
  <2>3. IsFiniteSet(1 .. n) /\ Cardinality(1 .. n) = n
    BY FS_Interval
  <2> QED
    BY <2>2, <2>3, FS_Bijection
<1>6. /\ IsFiniteSet(Tickets(c) \cup Block)
      /\ Cardinality(Tickets(c) \cup Block) = Cardinality(Tickets(c)) + n
  <2> HIDE DEF Block
  <2>1. Cardinality(Tickets(c)) \in Nat
    BY FS_CardinalityType
  <2>2. Cardinality(Tickets(c) \cap Block) = 0
    BY <1>4, FS_EmptySet
  <2>3. /\ IsFiniteSet(Tickets(c) \cup Block)
        /\ Cardinality(Tickets(c) \cup Block)
             = Cardinality(Tickets(c)) + Cardinality(Block)
                 - Cardinality(Tickets(c) \cap Block)
    BY <1>5, FS_Union
  <2> QED
    BY <1>5, <2>1, <2>2, <2>3
<1>7. ASSUME NEW d \in Client, d # c
      PROVE  Tickets(d)' = Tickets(d)
  <2>1. ASSUME NEW u \in Thread
        PROVE  /\ cur'[u] = d <=> cur[u] = d
               /\ cur[u] = d => left'[u] = left[u]
    BY <1>1, <1>2, <1>7
  <2> QED
    BY <2>1 DEF Tickets
<1> QED
  BY <1>3, <1>6, <1>7

-----------------------------------------------------------------------------
\* A step that leaves Workers and loops alone.
LEMMA SaturatedUnchanged ==
    ASSUME Saturated,
           UNCHANGED <<m_inFlightTasks, m_idleWorkersIds, m_workersFreeSlots, cur, left>>
    PROVE  Saturated'
  BY DEF Saturated, Tickets, Registered, InFlightAt

\* AssignIdleWorkers takes a Worker out of the idle queue with a call for each
\* slot the counter shows, which are at least as many as threads are free.
LEMMA AssignWakeSaturated ==
    ASSUME TypeOK, SlotsInv, Saturated, NEW t \in Thread, AssignWake(t)
    PROVE  Saturated'
<1>1. PICK w : /\ w = Head(m_idleWorkers) /\ Registered(w)
               /\ m_idleWorkersIds' = m_idleWorkersIds \ {w}
               /\ pc[t] = "assign"
               /\ UNCHANGED <<m_inFlightTasks, m_workersFreeSlots>>
  BY DEF AssignWake
<1>2. /\ w \in Client /\ m_workersFreeSlots[w] \in Nat
      /\ Cardinality(InFlightAt(w)) \in Nat /\ Threads[w] \in Nat
  BY <1>1, ConstantsAssumption, FlightsFinite DEF Registered, TypeOK, SchedulerTypeOK
<1>3. m_workersFreeSlots[w] + Cardinality(InFlightAt(w)) >= Threads[w]
  BY <1>1, SlotsExact DEF Registered
<1>4. /\ \A d : InFlightAt(d)' = InFlightAt(d)
      /\ \A d : Registered(d)' <=> Registered(d)
  BY <1>1 DEF InFlightAt, Registered
<1>5. IsFiniteSet(Tickets(w)) /\ Cardinality(Tickets(w)) \in Nat
  BY <1>2, FS_CardinalityType DEF Saturated
<1>6. CASE m_workersFreeSlots[w] = 0
  <2>1. \A d \in Client : Tickets(d)' = Tickets(d)
    BY <1>1, <1>6 DEF AssignWake, Tickets, loops
  <2>2. Cardinality(InFlightAt(w)) + Cardinality(Tickets(w)) >= Threads[w]
    BY <1>2, <1>3, <1>5, <1>6
  <2> QED
    BY <1>1, <1>4, <2>1, <2>2 DEF Saturated
<1>7. CASE m_workersFreeSlots[w] # 0
  <2>1. /\ IsFiniteSet(Tickets(w)')
        /\ Cardinality(Tickets(w)') = Cardinality(Tickets(w)) + m_workersFreeSlots[w]
        /\ \A d \in Client : d # w => Tickets(d)' = Tickets(d)
    BY <1>1, <1>2, <1>5, <1>7, NewTickets DEF AssignWake, Dispatching
  <2>2. Cardinality(InFlightAt(w)) + Cardinality(Tickets(w)') >= Threads[w]
    BY <1>2, <1>3, <1>5, <2>1
  <2> QED
    BY <1>1, <1>4, <2>1, <2>2 DEF Saturated
<1> QED
  BY <1>6, <1>7

\* A dispatched task turns a call into a task in flight.
LEMMA DispatchTaskSaturated ==
    ASSUME TypeOK, RegisterInv, SlotsInv, Saturated, NEW t \in Thread, DispatchTask(t)
    PROVE  Saturated'
<1>1. PICK c : c = cur[t] /\ Registered(c) /\ Dispatching(t) /\ Repeat(t, TRUE)
  BY DEF DispatchTask
<1>2. c \in Client /\ Threads[c] \in Nat
  BY <1>1, ConstantsAssumption DEF Registered, TypeOK, SchedulerTypeOK
<1>3. /\ DOMAIN m_workersFreeSlots' = DOMAIN m_workersFreeSlots
      /\ Cardinality(InFlightAt(c))' = Cardinality(InFlightAt(c)) + 1
      /\ Cardinality(InFlightAt(c)) \in Nat
      /\ \A d : d # c => InFlightAt(d)' = InFlightAt(d)
  BY <1>1, DispatchTaskSlots, FlightsFinite
<1>4. /\ <<t, left[t]>> \in Tickets(c)
      /\ Tickets(c)' = Tickets(c) \ {<<t, left[t]>>}
      /\ \A d \in Client : d # c => Tickets(d)' = Tickets(d)
  BY <1>1, <1>2, RepeatTickets
<1>5. IsFiniteSet(Tickets(c)) /\ Cardinality(Tickets(c)) \in Nat
  BY <1>2, FS_CardinalityType DEF Saturated
<1>6. /\ IsFiniteSet(Tickets(c)')
      /\ Cardinality(Tickets(c)') = Cardinality(Tickets(c)) - 1
  BY <1>4, <1>5, FS_RemoveElement
<1>7. /\ \A d : Registered(d)' <=> Registered(d)
      /\ m_idleWorkersIds' = m_idleWorkersIds
  BY <1>3 DEF Registered, DispatchTask
<1>8. c \in m_idleWorkersIds
        \/ Cardinality(InFlightAt(c))' + Cardinality(Tickets(c)') >= Threads[c]
  BY <1>1, <1>2, <1>3, <1>5, <1>6 DEF Saturated
<1>9. ASSUME NEW d \in Client
      PROVE  /\ IsFiniteSet(Tickets(d)')
             /\ Registered(d)' =>
                   \/ d \in m_idleWorkersIds'
                   \/ Cardinality(InFlightAt(d))' + Cardinality(Tickets(d)') >= Threads[d]
  <2>1. CASE d = c
    BY <1>6, <1>7, <1>8, <2>1
  <2>2. CASE d # c
    BY <1>3, <1>4, <1>7, <2>2 DEF Saturated
  <2> QED
    BY <2>1, <2>2
<1> QED
  BY <1>9 DEF Saturated

\* A Worker for which nothing is pending is put into the idle queue.
LEMMA DispatchParksSaturated ==
    ASSUME TypeOK, Saturated, NEW t \in Thread, DispatchParks(t) \/ DispatchRefused(t)
    PROVE  Saturated'
<1>1. /\ \A d \in Client : Tickets(d)' \subseteq Tickets(d)
      /\ \A d \in Client : d # cur[t] => Tickets(d)' = Tickets(d)
  BY BreakTickets DEF DispatchParks, DispatchRefused
<1>2. /\ UNCHANGED <<m_inFlightTasks, m_workersFreeSlots>>
      /\ m_idleWorkersIds \subseteq m_idleWorkersIds'
      /\ ~Registered(cur[t]) \/ cur[t] \in m_idleWorkersIds'
  BY DEF DispatchParks, DispatchRefused, Park, scheduler
<1>3. /\ \A d : InFlightAt(d)' = InFlightAt(d)
      /\ \A d : Registered(d)' <=> Registered(d)
  BY <1>2 DEF InFlightAt, Registered
<1>4. \A d \in Client : IsFiniteSet(Tickets(d)')
  BY <1>1, FS_Subset DEF Saturated
<1> QED
  BY <1>1, <1>2, <1>3, <1>4 DEF Saturated

\* Worker_Hello registers a Worker with a call for each of its threads.
LEMMA OnHelloSaturated ==
    ASSUME TypeOK, RegisterInv, SlotsInv, Saturated, OnHello
    PROVE  Saturated'
<1>1. PICK c : c = Head(m_qMessagesIn).client
  OBVIOUS
<1>2. /\ c \in Client /\ ~Registered(c)
      /\ Head(m_qMessagesIn).threads_available = Threads[c]
      /\ DOMAIN m_workersFreeSlots' = DOMAIN m_workersFreeSlots \cup {c}
      /\ Threads[c] \in Nat \ {0} /\ pc[Main] = "update" /\ Main \in Thread
  BY <1>1, OnHelloSlots, ConstantsAssumption, ThreadsDistinct DEF OnHello, Update
<1>3. IsFiniteSet(Tickets(c)) /\ Cardinality(Tickets(c)) \in Nat
  BY <1>2, FS_CardinalityType DEF Saturated
<1>4. /\ IsFiniteSet(Tickets(c)')
      /\ Cardinality(Tickets(c)') = Cardinality(Tickets(c)) + Threads[c]
      /\ \A d \in Client : d # c => Tickets(d)' = Tickets(d)
  BY <1>1, <1>2, <1>3, NewTickets DEF OnHello, Dispatching
<1>5. /\ \A d : InFlightAt(d)' = InFlightAt(d)
      /\ \A d : d # c => (Registered(d)' <=> Registered(d))
      /\ m_idleWorkersIds' = m_idleWorkersIds
  BY <1>2 DEF InFlightAt, Registered, OnHello
<1>6. Cardinality(InFlightAt(c)) + Cardinality(Tickets(c)') >= Threads[c]
  BY <1>2, <1>3, <1>4, FlightsFinite
<1> QED
  BY <1>4, <1>5, <1>6 DEF Saturated

\* Worker_TaskDone turns a task in flight into a call.
LEMMA OnTaskDoneSaturated ==
    ASSUME TypeOK, RegisterInv, SlotsInv, Saturated, OnTaskDone
    PROVE  Saturated'
<1>1. PICK f \in m_inFlightTasks :
        /\ m_inFlightTasks' = m_inFlightTasks \ {f}
        /\ m_workersFreeSlots' =
             SetSlots(f.client, 1 + IF Registered(f.client)
                                    THEN m_workersFreeSlots[f.client] ELSE 0)
        /\ cur' = [cur EXCEPT ![Main] = f.client]
        /\ left' = [left EXCEPT ![Main] = 1]
        /\ pc[Main] = "update" /\ UNCHANGED m_idleWorkersIds
  BY DEF OnTaskDone, Answered, Update
<1>2. PICK c : c = f.client
  OBVIOUS
<1>3. c \in Client /\ Threads[c] \in Nat /\ Main \in Thread
  BY <1>1, <1>2, ConstantsAssumption, ThreadsDistinct
  DEF TypeOK, SchedulerTypeOK, Flight
<1>4. /\ DOMAIN m_workersFreeSlots' = DOMAIN m_workersFreeSlots
      /\ Cardinality(InFlightAt(c))' = Cardinality(InFlightAt(c)) - 1
      /\ Cardinality(InFlightAt(c)) \in Nat
      /\ \A d : d # c => InFlightAt(d)' = InFlightAt(d)
  BY <1>1, <1>2, OnTaskDoneSlots, FlightsFinite
<1>5. IsFiniteSet(Tickets(c)) /\ Cardinality(Tickets(c)) \in Nat
  BY <1>3, FS_CardinalityType DEF Saturated
<1>6. /\ IsFiniteSet(Tickets(c)')
      /\ Cardinality(Tickets(c)') = Cardinality(Tickets(c)) + 1
      /\ \A d \in Client : d # c => Tickets(d)' = Tickets(d)
  BY <1>1, <1>2, <1>3, <1>5, NewTickets DEF Dispatching
<1>7. \A d : Registered(d)' <=> Registered(d)
  BY <1>4 DEF Registered
<1>8. Registered(c) => c \in m_idleWorkersIds
        \/ Cardinality(InFlightAt(c))' + Cardinality(Tickets(c)') >= Threads[c]
  BY <1>3, <1>4, <1>5, <1>6 DEF Saturated
<1>9. ASSUME NEW d \in Client
      PROVE  /\ IsFiniteSet(Tickets(d)')
             /\ Registered(d)' =>
                   \/ d \in m_idleWorkersIds'
                   \/ Cardinality(InFlightAt(d))' + Cardinality(Tickets(d)') >= Threads[d]
  <2>1. CASE d = c
    BY <1>1, <1>6, <1>7, <1>8, <2>1
  <2>2. CASE d # c
    BY <1>1, <1>4, <1>6, <1>7, <2>2 DEF Saturated
  <2> QED
    BY <2>1, <2>2
<1> QED
  BY <1>9 DEF Saturated

\* OnClientDisconnect asks nothing of the Worker it forgets.
LEMMA OnClientDisconnectSaturated ==
    ASSUME Saturated, NEW c \in Client, OnClientDisconnect(c)
    PROVE  Saturated'
<1>1. /\ DOMAIN m_workersFreeSlots' = DOMAIN m_workersFreeSlots \ {c}
      /\ m_inFlightTasks' = m_inFlightTasks \ InFlightAt(c)
      /\ m_idleWorkersIds' = m_idleWorkersIds \ {c}
      /\ UNCHANGED <<cur, left>>
  BY DEF OnClientDisconnect, Unregister, Reclaim, loops
<1>2. /\ \A d : d # c => InFlightAt(d)' = InFlightAt(d)
      /\ \A d : Tickets(d)' = Tickets(d)
      /\ \A d : Registered(d)' <=> d # c /\ Registered(d)
  BY <1>1 DEF InFlightAt, Tickets, Registered
<1> QED
  BY <1>1, <1>2 DEF Saturated

\* Every step leaves every registered Worker in the queue or saturated.
LEMMA SaturatedStep ==
    ASSUME TypeOK, RegisterInv, SlotsInv, Saturated, [Next]_vars
    PROVE  Saturated'
<1>1. ASSUME NEW t \in Thread,
             \/ t \in Http /\ StartSearch(t)
             \/ AssignDone(t) \/ AssignSkip(t)
      PROVE  Saturated'
  BY <1>1, SaturatedUnchanged
  DEF StartSearch, AllocateSearchId, StartSearchThrows, AddPendingTasks,
      AssignDone, AssignSkip, scheduler, loops
<1>2. CASE OnUnknownTaskDone \/ AggregateTaskResult \/ WriteResults
           \/ OpenResultFileFails \/ CountChunk \/ UNCHANGED vars
  BY <1>2, SaturatedUnchanged
  DEF OnUnknownTaskDone, AggregateTaskResult, WriteResults, OpenResultFileFails,
      CountChunk, scheduler, loops, vars
<1>3. ASSUME NEW c \in Client, Worker(c)
      PROVE  Saturated'
  BY <1>3, SaturatedUnchanged DEF Worker, Connect, SendTaskDone, Close, scheduler, loops
<1> QED
  BY <1>1, <1>2, <1>3, AssignWakeSaturated, DispatchTaskSaturated,
     DispatchParksSaturated, OnHelloSaturated, OnTaskDoneSaturated,
     OnClientDisconnectSaturated, ThreadsDistinct
  DEF Next, AssignIdleWorkers, DispatchNextTask, OnMessage

\* A step that assigns nothing and leaves deque and queue alone.
LEMMA AssignsUnchanged ==
    ASSUME SomebodyAssigns, UNCHANGED <<m_pendingTasks, m_idleWorkersIds>>,
           \A t \in Thread : pc[t] \in {"assign", "wake"} => pc'[t] \in {"assign", "wake"}
    PROVE  SomebodyAssigns'
  BY DEF SomebodyAssigns

\* Every step leaves a thread at work in AssignIdleWorkers while chunks wait beside
\* idle Workers: new chunks come with such a thread, and a Worker becomes idle only
\* when none waits.
LEMMA SomebodyAssignsStep ==
    ASSUME TypeOK, RegisterInv, SomebodyAssigns, [Next]_vars
    PROVE  SomebodyAssigns'
<1>0. /\ pc \in [Thread -> Place] /\ pc[Main] \notin {"assign", "wake"}
      /\ pc[Watcher] \in {"watch", "assign", "wake"}
      /\ Main \in Thread /\ Watcher \in Thread /\ Http \subseteq Thread
  BY ThreadsDistinct DEF TypeOK, ThreadsTypeOK
<1>1. ASSUME NEW t \in Http, AllocateSearchId(t) \/ StartSearchThrows(t)
      PROVE  SomebodyAssigns'
  BY <1>0, <1>1, AssignsUnchanged DEF AllocateSearchId, StartSearchThrows, scheduler
<1>2. ASSUME NEW t \in Http, NEW n \in 0 .. MaxChunks, NEW e \in 0 .. MaxScanErrors,
             NEW limit \in Limits, AddPendingTasks(t, n, e, limit)
      PROVE  SomebodyAssigns'
  BY <1>0, <1>2 DEF AddPendingTasks, SomebodyAssigns
<1>3. ASSUME NEW t \in Thread, AssignDone(t)
      PROVE  SomebodyAssigns'
  <2>1. m_idleWorkers = <<>> => m_idleWorkersIds = {}
    BY DEF RegisterInv, IdleInSync, Range
  <2> QED
    BY <1>3, <2>1 DEF AssignDone, SomebodyAssigns, scheduler
<1>4. ASSUME NEW t \in Thread, AssignSkip(t)
      PROVE  SomebodyAssigns'
  BY <1>4, AssignsUnchanged DEF AssignSkip
<1>5. ASSUME NEW t \in Thread, AssignWake(t)
      PROVE  SomebodyAssigns'
  BY <1>0, <1>5 DEF AssignWake, SomebodyAssigns
<1>6. ASSUME NEW t \in Thread, DispatchTask(t)
      PROVE  SomebodyAssigns'
  <2>1. /\ m_pendingTasks # <<>> /\ UNCHANGED m_idleWorkersIds
        /\ \A u \in Thread : u # t => pc'[u] = pc[u]
        /\ pc'[t] = pc[t] \/ pc'[t] = AfterLoop[pc[t]]
    BY <1>0, <1>6 DEF DispatchTask, Repeat
  <2>2. \A u \in Thread : pc[u] \in {"assign", "wake"} => pc'[u] \in {"assign", "wake"}
    BY <1>0, <1>6, <2>1 DEF AfterLoop, DispatchTask, Dispatching
  <2> QED
    BY <2>1, <2>2 DEF SomebodyAssigns
<1>7. ASSUME NEW t \in Thread, DispatchParks(t)
      PROVE  SomebodyAssigns'
  BY <1>7 DEF DispatchParks, SomebodyAssigns
<1>8. ASSUME NEW t \in Thread, DispatchRefused(t)
      PROVE  SomebodyAssigns'
  <2>1. /\ UNCHANGED <<m_pendingTasks, m_idleWorkersIds>>
        /\ \A u \in Thread : u # t => pc'[u] = pc[u]
        /\ pc'[t] = AfterLoop[pc[t]]
    BY <1>0, <1>8 DEF DispatchRefused, Repeat, scheduler
  <2>2. \A u \in Thread : pc[u] \in {"assign", "wake"} => pc'[u] \in {"assign", "wake"}
    BY <1>0, <1>8, <2>1 DEF AfterLoop, DispatchRefused, Dispatching
  <2> QED
    BY <2>1, <2>2, AssignsUnchanged
<1>9. CASE OnMessage
  <2>1. /\ UNCHANGED <<m_pendingTasks, m_idleWorkersIds>>
        /\ \A u \in Thread : u # Main => pc'[u] = pc[u]
    BY <1>0, <1>9
    DEF OnMessage, OnHello, OnTaskDone, OnUnknownTaskDone, AggregateTaskResult,
        WriteResults, OpenResultFileFails, CountChunk, scheduler
  <2> QED
    BY <1>0, <2>1, AssignsUnchanged
<1>10. ASSUME NEW c \in Client, OnClientDisconnect(c)
       PROVE  SomebodyAssigns'
  BY <1>0, <1>10 DEF OnClientDisconnect, SomebodyAssigns
<1>11. ASSUME NEW c \in Client, Worker(c)
       PROVE  SomebodyAssigns'
  BY <1>11, AssignsUnchanged DEF Worker, Connect, SendTaskDone, Close, scheduler
<1>12. CASE UNCHANGED vars
  BY <1>12, AssignsUnchanged DEF vars, scheduler
<1> QED
  BY <1>0, <1>1, <1>2, <1>3, <1>4, <1>5, <1>6, <1>7, <1>8, <1>9, <1>10, <1>11, <1>12
  DEF Next, StartSearch, AssignIdleWorkers, DispatchNextTask

\* No wakeup is lost: threads that have come to rest leave chunks waiting only when
\* every thread of every registered Worker has a task, whatever the order in which
\* searches, hellos, answers and lost connections came.
THEOREM NoWorkStranded == Spec => []NoStrandedWork
<1>1. Init => Saturated /\ SomebodyAssigns
  <2>1. ASSUME Init, NEW c \in Client
        PROVE  Tickets(c) = {}
    BY <2>1 DEF Init, Tickets
  <2> QED
    BY <2>1, FS_EmptySet DEF Init, Saturated, SomebodyAssigns, Registered
<1>2. /\ TypeOK /\ RegisterInv /\ SlotsInv /\ Saturated /\ SomebodyAssigns
      /\ [Next]_vars
      => Saturated' /\ SomebodyAssigns'
  BY SaturatedStep, SomebodyAssignsStep
<1>3. ASSUME TypeOK, RegisterInv, Saturated, SomebodyAssigns, AtRest,
             m_pendingTasks # <<>>, NEW c \in DOMAIN m_workersFreeSlots
      PROVE  Cardinality(InFlightAt(c)) >= Threads[c]
  <2>1. \A t \in Thread : pc[t] \in {"update", "watch", "free"}
    BY <1>3 DEF AtRest, Rest
  <2>2. m_idleWorkersIds = {}
    BY <1>3, <2>1 DEF SomebodyAssigns
  <2>3. c \in Client /\ Registered(c)
    BY <1>3 DEF TypeOK, SchedulerTypeOK, Registered
  <2>4. Cardinality(Tickets(c)) = 0
    BY <1>3, <2>1, <2>3, NoTickets, FS_EmptySet DEF Dispatching
  <2>5. Cardinality(InFlightAt(c)) \in Nat
    BY <1>3, FlightsFinite
  <2> QED
    BY <1>3, <2>2, <2>3, <2>4, <2>5 DEF Saturated
<1>4. TypeOK /\ RegisterInv /\ Saturated /\ SomebodyAssigns => NoStrandedWork
  BY <1>3 DEF NoStrandedWork
<1> QED
  BY <1>1, <1>2, <1>4, SlotsInvariant, PTL DEF Spec

=============================================================================
