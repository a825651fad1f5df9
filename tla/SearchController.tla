--------------------------- MODULE SearchController ---------------------------
(***************************************************************************)
(* The HTTP API (HttpApi.cpp, SearchController.cpp) on top of the search   *)
(* service: what clients that post searches and poll their status can see. *)
(* A request is issued, handled by one of the server's threads, and        *)
(* answered; other requests and the Master's work go on in between.        *)
(* StartSearch publishes the session, and GetStatus reads it, in one       *)
(* critical section each.                                                  *)
(*                                                                         *)
(* An id in a path is a number, with or without something behind it, which *)
(* is all the same to std::stoull, or NotANumber, which makes it throw.    *)
(***************************************************************************)
EXTENDS SearchService

CONSTANTS
    User,           \* the clients; each has one request at a time
    NotANumber

ASSUME ControllerAssumption ==
    /\ SearchId \subseteq Nat
    /\ NotANumber \notin SearchId /\ None \notin SearchId \cup {NotANumber}
    /\ Chunks \subseteq Nat /\ Errors \subseteq Nat
    /\ Matches \subseteq Nat /\ Limits \subseteq Nat

VARIABLES
    request,    \* the request of each client, with what was known when it was issued
    answer,     \* the response made for it
    told        \* per search, the latest status a client has been told of

http == <<request, answer, told>>
vars == <<service, http>>

GetStatus_EarlyDone(s) ==
    LET it == session[s]
    IN  [state |-> IF it.chunks_done = it.chunks_total \/ it.line_count = it.max_results
                   THEN "Done" ELSE "Running",
         linesCount |-> it.line_count, totalMatches |-> it.total_matches,
         scanErrors |-> it.scan_errors,
         chunksDone |-> it.chunks_done, chunksTotal |-> it.chunks_total]

\* ISearchService::GetStatus, as HandleGetSearch puts it in its response.
GetStatus(s) ==
    LET it == session[s]
    IN  [state |-> IF it.chunks_done = it.chunks_total THEN "Done" ELSE "Running",
         linesCount |-> it.line_count, totalMatches |-> it.total_matches,
         scanErrors |-> it.scan_errors,
         chunksDone |-> it.chunks_done, chunksTotal |-> it.chunks_total]

HttpInit ==
    /\ Init
    /\ request = [u \in User |-> None]
    /\ answer = [u \in User |-> None]
    /\ told = [s \in SearchId |-> None]

-----------------------------------------------------------------------------
\* A client issues a request.
Issue(u) ==
    /\ request[u] = None
    /\ \/ request' = [request EXCEPT ![u] = [op |-> "POST"]]
       \/ \E id \in SearchId \cup {NotANumber} :
             request' = [request EXCEPT ![u] =
                           [op |-> "GET", id |-> id,
                            known |-> IF id = NotANumber THEN None ELSE told[id]]]
    /\ UNCHANGED <<service, answer, told>>

\* The routes of HttpApi: the handler that answers the request of u.
Routed(u, op) ==
    request[u] # None /\ request[u].op = op /\ answer[u] = None

HandlePostSearch_EmptyNotKept(u) ==
    /\ Routed(u, "POST")
    /\ \E s \in SearchId, n \in Chunks, e \in Errors, limit \in Limits :
          /\ n = 0 => e = 0
          /\ IF n = 0 THEN s \notin DOMAIN session /\ UNCHANGED service
             ELSE Publish(s, n, e, limit)
          /\ answer' = [answer EXCEPT ![u] = [status |-> 202, searchId |-> s]]
    /\ UNCHANGED <<request, told>>

\* HandlePostSearch: 400 for what is not the JSON expected; StartSearch throws a
\* runtime_error (404) or something else (500) before it publishes anything; it
\* returns the id of the search it has published (202), or runs out of memory when
\* it queues the chunks or dispatches them, and the search stays behind (500).
HandlePostSearch(u) ==
    /\ Routed(u, "POST")
    /\ \/ /\ \E code \in {400, 404, 500} :
                answer' = [answer EXCEPT ![u] = [status |-> code]]
          /\ UNCHANGED service
       \/ \E s \in SearchId, n \in Chunks, e \in Errors, limit \in Limits :
             /\ n = 0 => e = 0
             /\ Publish(s, n, e, limit)
             /\ \E response \in {[status |-> 202, searchId |-> s], [status |-> 500]} :
                   answer' = [answer EXCEPT ![u] = response]
    /\ UNCHANGED <<request, told>>

\* HandleGetSearch: std::stoull throws (400), no such session (404), or its status.
HandleGetSearch(u) ==
    /\ Routed(u, "GET")
    /\ LET id == request[u].id
       IN  answer' = [answer EXCEPT ![u] =
             IF id = NotANumber THEN [status |-> 400]
             ELSE IF id \in DOMAIN session
                  THEN [status |-> 200, session |-> GetStatus(id)]
                  ELSE [status |-> 404]]
    /\ UNCHANGED <<service, request, told>>

\* What an answer tells of which search: that it exists, or its status.
Accepted == [state |-> "Running", linesCount |-> 0, totalMatches |-> 0,
             scanErrors |-> 0, chunksDone |-> 0, chunksTotal |-> 0]
Tells(u) ==
    CASE answer[u].status = 202 -> {<<answer[u].searchId, Accepted>>}
      [] answer[u].status = 200 -> {<<request[u].id, answer[u].session>>}
      [] OTHER -> {}

\* Status x is not from before status y of the same search.
NotBefore(x, y) == x.totalMatches >= y.totalMatches /\ x.chunksDone >= y.chunksDone

\* The answer reaches the client.
Receive(u) ==
    /\ answer[u] # None
    /\ told' = [s \in SearchId |->
                  IF \E x \in Tells(u) :
                        /\ x[1] = s
                        /\ \/ told[s] = None
                           \/ answer[u].status = 200 /\ NotBefore(x[2], told[s])
                  THEN (CHOOSE x \in Tells(u) : x[1] = s)[2]
                  ELSE told[s]]
    /\ request' = [request EXCEPT ![u] = None]
    /\ answer' = [answer EXCEPT ![u] = None]
    /\ UNCHANGED service

-----------------------------------------------------------------------------
Http(u) == Issue(u) \/ HandlePostSearch(u) \/ HandleGetSearch(u) \/ Receive(u)

\* The Master takes in results and counts chunks.
Master ==
    /\ \E s \in SearchId : FinishChunk(s) \/ \E m \in Matches : TakeResult(s, m)
    /\ UNCHANGED http

HttpNext == Master \/ \E u \in User : Http(u)

HttpSpec == HttpInit /\ [][HttpNext]_vars

-----------------------------------------------------------------------------
(***************************************************************************)
(* Properties.                                                             *)
(***************************************************************************)

\* Once any client has been told of a search, a GET issued after that finds it:
\* StartSearch has published the session before HandlePostSearch answers 202.
KnownOnceTold ==
    \A u \in User :
        answer[u] # None /\ request[u].op = "GET" /\ request[u].known # None =>
            answer[u].status = 200

\* Polling never goes back: a GET issued after any client has read a status is
\* answered with one that is not from before it, and with the very same one if
\* that was "Done".
NeverGoesBack ==
    \A u \in User :
        answer[u] # None /\ answer[u].status = 200 /\ request[u].known # None =>
            /\ NotBefore(answer[u].session, request[u].known)
            /\ request[u].known.state = "Done" =>
                  answer[u].session = request[u].known

=============================================================================
