------------------------ MODULE SearchControllerProofs ------------------------
(***************************************************************************)
(* What a client of the HTTP API is told stays true, for any number of     *)
(* clients, searches, chunks and matches.                                  *)
(*                                                                         *)
(* The argument: a status a client can know of a search, be it remembered, *)
(* sent along with a request or on its way in an answer, is never ahead of *)
(* the session it was read from, and every step moves a session forward,   *)
(* a Done session not at all.                                              *)
(***************************************************************************)
EXTENDS SearchController, TLAPS

Session == [max_results: Nat, total_matches: Nat, line_count: Nat,
            scan_errors: Nat, chunks_total: Nat, chunks_done: Nat]

Status == [state: {"Running", "Done"}, linesCount: Nat, totalMatches: Nat,
           scanErrors: Nat, chunksDone: Nat, chunksTotal: Nat]

\* Status x can have been read of a search before status y was.
Upto(x, y) == NotBefore(y, x) /\ (x.state = "Done" => y = x)

\* x is a status that search s has or had.
Was(x, s) == x \in Status /\ s \in DOMAIN session /\ Upto(x, GetStatus(s))

\* What the service publishes.
SessionsInv ==
    /\ DOMAIN session \subseteq SearchId
    /\ \A s \in DOMAIN session :
          session[s] \in Session /\ session[s].chunks_done <= session[s].chunks_total

\* What the clients remember.
ToldInv == \A s \in SearchId : told[s] # None => Was(told[s], s)

\* A request, with what was known when it was issued.
AskedInv(u) ==
    request[u] # None =>
        \/ request[u].op = "POST"
        \/ /\ request[u].op = "GET"
           /\ request[u].id \in SearchId \cup {NotANumber}
           /\ request[u].known # None => Was(request[u].known, request[u].id)

\* The answer on its way to the client, by the route of the request.
PostAnswer(u) ==
    /\ request[u].op = "POST"
    /\ answer[u].status \in {202, 400, 404, 500}
    /\ answer[u].status = 202 => answer[u].searchId \in DOMAIN session

GetAnswer(u) ==
    /\ request[u].op = "GET"
    /\ answer[u].status \in {200, 400, 404}
    /\ answer[u].status # 200 => request[u].known = None
    /\ answer[u].status = 200 =>
          /\ Was(answer[u].session, request[u].id)
          /\ request[u].known # None => Upto(request[u].known, answer[u].session)

AnsweredInv(u) ==
    answer[u] # None => request[u] # None /\ (PostAnswer(u) \/ GetAnswer(u))

HttpShape ==
    /\ DOMAIN request = User /\ DOMAIN answer = User /\ DOMAIN told = SearchId

HttpInv ==
    /\ HttpShape /\ SessionsInv /\ ToldInv
    /\ \A u \in User : AskedInv(u) /\ AnsweredInv(u)

-----------------------------------------------------------------------------
\* Being up to a status is an order on statuses.
LEMMA UptoTransitive ==
    ASSUME NEW x \in Status, NEW y \in Status, NEW z \in Status, Upto(x, y), Upto(y, z)
    PROVE  Upto(x, z)
  BY DEF Upto, NotBefore, Status

\* The status of a published session is one.
LEMMA StatusOf ==
    ASSUME SessionsInv, NEW s \in DOMAIN session
    PROVE  /\ GetStatus(s) \in Status
           /\ Upto(GetStatus(s), GetStatus(s))
  BY DEF SessionsInv, Session, GetStatus, Status, Upto, NotBefore

\* No step of the service loses a session or takes its status back.
Forward ==
    \A s \in DOMAIN session :
        s \in DOMAIN session' /\ Upto(GetStatus(s), GetStatus(s)')

LEMMA PublishForward ==
    ASSUME SessionsInv, NEW s \in SearchId, NEW n \in Chunks, NEW e \in Errors,
           NEW limit \in Limits, Publish(s, n, e, limit)
    PROVE  SessionsInv' /\ Forward /\ s \in DOMAIN session'
<1>1. /\ s \notin DOMAIN session /\ DOMAIN session' = DOMAIN session \cup {s}
      /\ \A r \in DOMAIN session : session'[r] = session[r]
      /\ session'[s] = [max_results |-> limit, total_matches |-> 0, line_count |-> 0,
                        scan_errors |-> e, chunks_total |-> n, chunks_done |-> 0]
  BY DEF Publish
<1>2. n \in Nat /\ e \in Nat /\ limit \in Nat
  BY ControllerAssumption
<1>3. session'[s] \in Session /\ session'[s].chunks_done <= session'[s].chunks_total
  BY <1>1, <1>2 DEF Session
<1>4. SessionsInv'
  BY <1>1, <1>3 DEF SessionsInv
<1>5. \A r \in DOMAIN session : GetStatus(r)' = GetStatus(r)
  BY <1>1 DEF GetStatus
<1> QED
  BY <1>1, <1>4, <1>5, StatusOf DEF Forward

LEMMA TakeForward ==
    ASSUME SessionsInv, NEW s \in SearchId, NEW m \in Matches, TakeResult(s, m)
    PROVE  SessionsInv' /\ Forward
<1>1. s \in DOMAIN session /\ session[s].chunks_done < session[s].chunks_total
  BY DEF TakeResult, Running
<1>2. PICK it \in Session : it = session[s]
  BY <1>1 DEF SessionsInv
<1>3. m \in Nat
  BY ControllerAssumption
<1>4. PICK lines : lines = Smaller(it.total_matches + m, it.max_results)
  OBVIOUS
<1>5. lines \in Nat
  BY <1>2, <1>3, <1>4 DEF Session, Smaller
<1>6. /\ DOMAIN session' = DOMAIN session
      /\ \A r \in DOMAIN session : r # s => session'[r] = session[r]
      /\ session'[s] = [it EXCEPT !.total_matches = @ + m, !.line_count = lines]
  BY <1>1, <1>2, <1>4 DEF TakeResult
<1>7. /\ session'[s] \in Session
      /\ session'[s].chunks_done = it.chunks_done
      /\ session'[s].chunks_total = it.chunks_total
      /\ session'[s].total_matches = it.total_matches + m
  <2>1. PICK t : t = it.total_matches + m
    OBVIOUS
  <2>2. t \in Nat
    BY <1>2, <1>3, <2>1 DEF Session
  <2>3. session'[s] = [it EXCEPT !.total_matches = t, !.line_count = lines]
    BY <1>2, <1>6, <2>1 DEF Session
  <2> QED
    BY <1>2, <1>5, <2>1, <2>2, <2>3 DEF Session
<1>8. SessionsInv'
  BY <1>1, <1>2, <1>6, <1>7 DEF SessionsInv
<1>9. Upto(GetStatus(s), GetStatus(s)')
  BY <1>1, <1>2, <1>3, <1>7 DEF Upto, NotBefore, GetStatus, Session
<1>10. \A r \in DOMAIN session : r # s => GetStatus(r)' = GetStatus(r)
  BY <1>6 DEF GetStatus
<1> QED
  BY <1>6, <1>8, <1>9, <1>10, StatusOf DEF Forward

LEMMA FinishForward ==
    ASSUME SessionsInv, NEW s \in SearchId, FinishChunk(s)
    PROVE  SessionsInv' /\ Forward
<1>1. s \in DOMAIN session /\ session[s].chunks_done < session[s].chunks_total
  BY DEF FinishChunk, Running
<1>2. PICK it \in Session : it = session[s]
  BY <1>1 DEF SessionsInv
<1>3. /\ DOMAIN session' = DOMAIN session
      /\ \A r \in DOMAIN session : r # s => session'[r] = session[r]
      /\ session'[s] = [it EXCEPT !.chunks_done = @ + 1]
  BY <1>1, <1>2 DEF FinishChunk
<1>4. /\ session'[s] \in Session
      /\ session'[s].chunks_done = it.chunks_done + 1
      /\ session'[s].chunks_total = it.chunks_total
      /\ session'[s].total_matches = it.total_matches
  BY <1>2, <1>3 DEF Session
<1>5. session'[s].chunks_done <= session'[s].chunks_total
  BY <1>1, <1>2, <1>4 DEF Session
<1>6. SessionsInv'
  BY <1>1, <1>3, <1>4, <1>5 DEF SessionsInv
<1>7. Upto(GetStatus(s), GetStatus(s)')
  BY <1>1, <1>2, <1>4 DEF Upto, NotBefore, GetStatus, Session
<1>8. \A r \in DOMAIN session : r # s => GetStatus(r)' = GetStatus(r)
  BY <1>3 DEF GetStatus
<1> QED
  BY <1>3, <1>6, <1>7, <1>8, StatusOf DEF Forward

\* So a status a search has or had stays one.
LEMMA StillWas ==
    ASSUME SessionsInv, SessionsInv', Forward
    PROVE  \A x, s : Was(x, s) => s \in DOMAIN session' /\ Upto(x, GetStatus(s)')
<1> SUFFICES ASSUME NEW x, NEW s, Was(x, s)
             PROVE  s \in DOMAIN session' /\ Upto(x, GetStatus(s)')
  OBVIOUS
<1>1. /\ x \in Status /\ s \in DOMAIN session /\ Upto(x, GetStatus(s))
      /\ s \in DOMAIN session' /\ Upto(GetStatus(s), GetStatus(s)')
  BY DEF Was, Forward
<1>2. GetStatus(s) \in Status /\ GetStatus(s)' \in Status
  BY <1>1, StatusOf DEF SessionsInv, Session, GetStatus, Status
<1> QED
  BY <1>1, <1>2, UptoTransitive

\* And what is known of the searches stays true where nothing else happens.
LEMMA StillKnown ==
    ASSUME HttpInv, SessionsInv', Forward
    PROVE  /\ told' = told => ToldInv'
           /\ \A u \in User :
                 /\ request'[u] = request[u] => AskedInv(u)'
                 /\ request'[u] = request[u] /\ answer'[u] = answer[u] => AnsweredInv(u)'
<1>1. \A x, s : Was(x, s) => x \in Status /\ s \in DOMAIN session' /\ Upto(x, GetStatus(s)')
  BY StillWas DEF HttpInv, Was
<1>2. ASSUME told' = told PROVE ToldInv'
  BY <1>1, <1>2 DEF HttpInv, ToldInv, Was, Upto
<1>3. ASSUME NEW u \in User, request'[u] = request[u] PROVE AskedInv(u)'
  BY <1>1, <1>3 DEF HttpInv, AskedInv, Was, Upto
<1>4. ASSUME NEW u \in User, request'[u] = request[u], answer'[u] = answer[u]
      PROVE  AnsweredInv(u)'
  <2> SUFFICES ASSUME answer[u] # None
               PROVE  (PostAnswer(u) \/ GetAnswer(u))' /\ request[u] # None
    BY <1>4 DEF AnsweredInv
  <2>1. request[u] # None /\ (PostAnswer(u) \/ GetAnswer(u))
    BY DEF HttpInv, AnsweredInv
  <2>2. CASE PostAnswer(u)
    <3>1. DOMAIN session \subseteq DOMAIN session'
      BY DEF Forward
    <3> QED
      BY <1>4, <2>1, <2>2, <3>1 DEF PostAnswer
  <2>3. CASE GetAnswer(u)
    BY <1>1, <1>4, <2>1, <2>3 DEF GetAnswer, Was, Upto
  <2> QED
    BY <2>1, <2>2, <2>3
<1> QED
  BY <1>2, <1>3, <1>4

-----------------------------------------------------------------------------
LEMMA HttpInvInit == HttpInit => HttpInv
  BY DEF HttpInit, Init, HttpInv, HttpShape, SessionsInv, ToldInv, AskedInv, AnsweredInv

\* Nothing is forgotten where the service stands still.
LEMMA StandsStill ==
    ASSUME HttpInv, UNCHANGED service
    PROVE  SessionsInv' /\ Forward
<1>1. session' = session
  BY DEF service
<1>2. \A s : GetStatus(s)' = GetStatus(s)
  BY <1>1 DEF GetStatus
<1> QED
  BY <1>1, <1>2, StatusOf DEF HttpInv, SessionsInv, Forward

LEMMA MasterStep ==
    ASSUME HttpInv, Master
    PROVE  HttpInv'
<1>1. SessionsInv' /\ Forward
  BY TakeForward, FinishForward DEF HttpInv, Master
<1>2. UNCHANGED <<request, answer, told>>
  BY DEF Master, http
<1> QED
  BY <1>1, <1>2, StillKnown DEF HttpInv, HttpShape

LEMMA IssueStep ==
    ASSUME HttpInv, NEW u \in User, Issue(u)
    PROVE  HttpInv'
<1>1. SessionsInv' /\ Forward
  BY StandsStill DEF Issue
<1>2. /\ UNCHANGED <<service, answer, told>> /\ request[u] = None
      /\ DOMAIN request' = User
      /\ \A v \in User : v # u => request'[v] = request[v]
  BY DEF Issue, HttpInv, HttpShape
<1>3. session' = session
  BY <1>2 DEF service
<1>4. AskedInv(u)'
  <2>1. CASE request'[u] = [op |-> "POST"]
    BY <2>1 DEF AskedInv
  <2>2. ASSUME NEW id \in SearchId \cup {NotANumber},
               request'[u] = [op |-> "GET", id |-> id,
                              known |-> IF id = NotANumber THEN None ELSE told[id]]
        PROVE  AskedInv(u)'
    <3>1. /\ request'[u].op = "GET" /\ request'[u].id = id
          /\ request'[u].known = IF id = NotANumber THEN None ELSE told[id]
      BY <2>2
    <3>2. request'[u].known # None => Was(request'[u].known, id)
      BY <3>1, ControllerAssumption DEF HttpInv, ToldInv
    <3>3. GetStatus(id)' = GetStatus(id)
      BY <1>3 DEF GetStatus
    <3> QED
      BY <1>3, <3>1, <3>2, <3>3 DEF AskedInv, Was, Upto
  <2>3. u \in DOMAIN request
    BY DEF HttpInv, HttpShape
  <2> QED
    BY <2>1, <2>2, <2>3 DEF Issue
<1>5. AnsweredInv(u)'
  BY <1>2 DEF HttpInv, AnsweredInv
<1>6. ToldInv' /\ \A v \in User : v # u => AskedInv(v)' /\ AnsweredInv(v)'
  BY <1>1, <1>2, StillKnown
<1> QED
  BY <1>1, <1>2, <1>4, <1>5, <1>6 DEF HttpInv, HttpShape

LEMMA PostStep ==
    ASSUME HttpInv, NEW u \in User, HandlePostSearch(u)
    PROVE  HttpInv'
<1>1. /\ UNCHANGED <<request, told>> /\ DOMAIN answer' = User
      /\ \A v \in User : v # u => answer'[v] = answer[v]
      /\ request[u] # None /\ request[u].op = "POST" /\ u \in DOMAIN answer
  BY DEF HandlePostSearch, Routed, HttpInv, HttpShape
<1>2. SessionsInv' /\ Forward /\ PostAnswer(u)'
  <2>1. ASSUME NEW code \in {400, 404, 500}, answer'[u] = [status |-> code],
               UNCHANGED service
        PROVE  SessionsInv' /\ Forward /\ PostAnswer(u)'
    BY <1>1, <2>1, StandsStill DEF PostAnswer
  <2>2. ASSUME NEW s \in SearchId, NEW n \in Chunks, NEW e \in Errors,
               NEW limit \in Limits, Publish(s, n, e, limit),
               answer'[u] \in {[status |-> 202, searchId |-> s], [status |-> 500]}
        PROVE  SessionsInv' /\ Forward /\ PostAnswer(u)'
    BY <1>1, <2>2, PublishForward DEF PostAnswer, HttpInv
  <2> QED
    BY <1>1, <2>1, <2>2 DEF HandlePostSearch
<1>3. AnsweredInv(u)'
  BY <1>1, <1>2 DEF AnsweredInv
<1>4. /\ ToldInv'
      /\ \A v \in User : AskedInv(v)' /\ (v # u => AnsweredInv(v)')
  BY <1>1, <1>2, StillKnown
<1> QED
  BY <1>1, <1>2, <1>3, <1>4 DEF HttpInv, HttpShape

LEMMA GetStep ==
    ASSUME HttpInv, NEW u \in User, HandleGetSearch(u)
    PROVE  HttpInv'
<1>1. /\ UNCHANGED <<request, told>> /\ DOMAIN answer' = User /\ UNCHANGED service
      /\ \A v \in User : v # u => answer'[v] = answer[v]
      /\ request[u] # None /\ request[u].op = "GET" /\ u \in DOMAIN answer
  BY DEF HandleGetSearch, Routed, HttpInv, HttpShape
<1>2. SessionsInv' /\ Forward
  BY <1>1, StandsStill
<1>3. PICK id : id = request[u].id
  OBVIOUS
<1>4. /\ id \in SearchId \cup {NotANumber}
      /\ request[u].known # None => Was(request[u].known, id)
  BY <1>1, <1>3 DEF HttpInv, AskedInv
<1>5. answer'[u] = IF id = NotANumber THEN [status |-> 400]
                   ELSE IF id \in DOMAIN session
                        THEN [status |-> 200, session |-> GetStatus(id)]
                        ELSE [status |-> 404]
  BY <1>1, <1>3 DEF HandleGetSearch
<1>6. session' = session /\ GetStatus(id)' = GetStatus(id)
  BY <1>1 DEF service, GetStatus
<1>7. id = NotANumber => id \notin DOMAIN session
  BY ControllerAssumption DEF HttpInv, SessionsInv
<1>8. GetAnswer(u)'
  <2>1. CASE id \notin DOMAIN session
    <3>1. request[u].known = None
      BY <1>4, <2>1 DEF Was
    <3>2. answer'[u].status \in {400, 404}
      BY <1>5, <2>1
    <3> QED
      BY <1>1, <3>1, <3>2 DEF GetAnswer
  <2>2. CASE id \in DOMAIN session
    <3>1. answer'[u].status = 200 /\ answer'[u].session = GetStatus(id)
      BY <1>5, <1>7, <2>2
    <3>2. GetStatus(id) \in Status /\ Upto(GetStatus(id), GetStatus(id))
      BY <2>2, StatusOf DEF HttpInv
    <3>3. Was(answer[u].session, request[u].id)'
      BY <1>1, <1>3, <1>6, <2>2, <3>1, <3>2 DEF Was, Upto
    <3>4. request[u].known # None => Upto(request[u].known, GetStatus(id))
      BY <1>4 DEF Was
    <3> QED
      BY <1>1, <3>1, <3>3, <3>4 DEF GetAnswer, Upto
  <2> QED
    BY <2>1, <2>2
<1>9. AnsweredInv(u)'
  BY <1>1, <1>8 DEF AnsweredInv
<1>10. /\ ToldInv'
       /\ \A v \in User : AskedInv(v)' /\ (v # u => AnsweredInv(v)')
  BY <1>1, <1>2, StillKnown
<1> QED
  BY <1>1, <1>2, <1>9, <1>10 DEF HttpInv, HttpShape

\* An answer tells nothing, or one thing that is or was so.
LEMMA TellsTrue ==
    ASSUME HttpInv, NEW u \in User, answer[u] # None
    PROVE  Tells(u) = {} \/ \E s, x : Tells(u) = {<<s, x>>} /\ Was(x, s)
<1>1. PostAnswer(u) \/ GetAnswer(u)
  BY DEF HttpInv, AnsweredInv
<1>2. CASE answer[u].status = 202
  <2>1. answer[u].searchId \in DOMAIN session
    BY <1>1, <1>2 DEF PostAnswer, GetAnswer
  <2>2. Tells(u) = {<<answer[u].searchId, Accepted>>}
    BY <1>2 DEF Tells
  <2>3. Accepted \in Status /\ Accepted.state # "Done"
        /\ Accepted.totalMatches = 0 /\ Accepted.chunksDone = 0
    BY DEF Accepted, Status
  <2>4. GetStatus(answer[u].searchId) \in Status
    BY <2>1, StatusOf DEF HttpInv
  <2>5. Upto(Accepted, GetStatus(answer[u].searchId))
    BY <2>3, <2>4 DEF Upto, NotBefore, Status
  <2> QED
    BY <2>1, <2>2, <2>3, <2>5 DEF Was
<1>3. CASE answer[u].status = 200
  BY <1>1, <1>3 DEF Tells, PostAnswer, GetAnswer
<1>4. CASE answer[u].status \notin {200, 202}
  BY <1>4 DEF Tells
<1> QED
  BY <1>2, <1>3, <1>4

LEMMA ReceiveStep ==
    ASSUME HttpInv, NEW u \in User, Receive(u)
    PROVE  HttpInv'
<1>1. /\ DOMAIN request' = User /\ DOMAIN answer' = User /\ DOMAIN told' = SearchId
      /\ UNCHANGED service /\ answer[u] # None
      /\ request'[u] = None /\ answer'[u] = None
      /\ \A v \in User : v # u => request'[v] = request[v] /\ answer'[v] = answer[v]
  BY DEF Receive, HttpInv, HttpShape
<1>2. SessionsInv' /\ Forward
  BY <1>1, StandsStill
<1>3. AskedInv(u)' /\ AnsweredInv(u)'
  BY <1>1 DEF AskedInv, AnsweredInv
<1>4. \A v \in User : v # u => AskedInv(v)' /\ AnsweredInv(v)'
  BY <1>1, <1>2, StillKnown
<1>5. ToldInv'
  <2>1. \A x, s : Was(x, s) => x \in Status /\ s \in DOMAIN session' /\ Upto(x, GetStatus(s)')
    BY <1>2, StillWas DEF HttpInv, Was
  <2>2. ASSUME NEW s \in SearchId, told'[s] # None PROVE Was(told'[s], s)
    <3>1. CASE told'[s] = told[s]
      BY <2>2, <3>1 DEF HttpInv, ToldInv
    <3>2. CASE told'[s] # told[s]
      <4>1. /\ \E x \in Tells(u) : x[1] = s
            /\ told'[s] = (CHOOSE x \in Tells(u) : x[1] = s)[2]
        BY <2>2, <3>2 DEF Receive
      <4>2. PICK r, y : Tells(u) = {<<r, y>>} /\ Was(y, r)
        BY <1>1, <4>1, TellsTrue
      <4>3. (CHOOSE x \in Tells(u) : x[1] = s) = <<r, y>> /\ r = s
        BY <4>1, <4>2
      <4> QED
        BY <4>1, <4>2, <4>3
    <3> QED
      BY <3>1, <3>2
  <2> QED
    BY <2>1, <2>2 DEF ToldInv, Was, Upto
<1> QED
  BY <1>1, <1>2, <1>3, <1>4, <1>5 DEF HttpInv, HttpShape

\* What clients are told, ask and are answered is true of the sessions, always.
LEMMA HttpInvCorrect == HttpSpec => []HttpInv
<1>1. HttpInv /\ [HttpNext]_vars => HttpInv'
  <2> SUFFICES ASSUME HttpInv, [HttpNext]_vars PROVE HttpInv'
    OBVIOUS
  <2>1. CASE Master
    BY <2>1, MasterStep
  <2>2. CASE \E u \in User : Http(u)
    BY <2>2, IssueStep, PostStep, GetStep, ReceiveStep DEF Http
  <2>3. CASE UNCHANGED vars
    <3>1. UNCHANGED service /\ UNCHANGED <<request, answer, told>>
      BY <2>3 DEF vars, http
    <3>2. SessionsInv' /\ Forward
      BY <3>1, StandsStill
    <3> QED
      BY <3>1, <3>2, StillKnown DEF HttpInv, HttpShape
  <2> QED
    BY <2>1, <2>2, <2>3 DEF HttpNext
<1> QED
  BY <1>1, HttpInvInit, PTL DEF HttpSpec

\* A search a client has been told of, in the 202 of HandlePostSearch or by an
\* earlier HandleGetSearch, is found by every later GET, whatever the other
\* server threads and the Master do in between.
THEOREM ToldSearchesAreFound == HttpSpec => []KnownOnceTold
<1>1. HttpInv => KnownOnceTold
  BY DEF HttpInv, AnsweredInv, PostAnswer, GetAnswer, KnownOnceTold
<1> QED
  BY <1>1, HttpInvCorrect, PTL

\* The status HandleGetSearch answers with is never from before one that was known
\* when the request was issued, and a Done search is answered alike for ever.
THEOREM PollingNeverGoesBack == HttpSpec => []NeverGoesBack
<1>1. HttpInv => NeverGoesBack
  BY DEF HttpInv, AnsweredInv, PostAnswer, GetAnswer, Upto, NeverGoesBack
<1> QED
  BY <1>1, HttpInvCorrect, PTL
=============================================================================
