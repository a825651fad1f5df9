---------------------------- MODULE SearchService ----------------------------
(***************************************************************************)
(* What ISearchService promises to a client of the HTTP API, free of       *)
(* Workers, queues and threads.  A search is published once with its       *)
(* number of chunks and is Running.  The result of a chunk is taken in     *)
(* exactly once, while the search is Running, and the chunk is counted     *)
(* after that and before the result of any other chunk is taken in.  The   *)
(* lines accepted are at every moment the matches so far, up to            *)
(* maxResults.  Once all chunks are counted the search is Done and its     *)
(* status never changes again.                                             *)
(***************************************************************************)
EXTENDS Naturals

CONSTANTS SearchId, Chunks, Errors, Matches, Limits, None

VARIABLES
    session,    \* the published sessions, by search id
    counting    \* the search of the result taken in and not yet counted

service == <<session, counting>>

Running(s) ==
    s \in DOMAIN session /\ session[s].chunks_done < session[s].chunks_total

Smaller(a, b) == IF a <= b THEN a ELSE b

Init ==
    /\ session = [s \in {} |-> None]
    /\ counting = None

\* POST /search returns an id that no search ever had.
Publish(s, n, errors, limit) ==
    /\ s \notin DOMAIN session
    /\ session' =
         [r \in DOMAIN session \cup {s} |->
            IF r = s
            THEN [max_results |-> limit, total_matches |-> 0, line_count |-> 0,
                  scan_errors |-> errors, chunks_total |-> n, chunks_done |-> 0]
            ELSE session[r]]
    /\ UNCHANGED counting

\* The result of one chunk, with m matches, is taken in.
TakeResult(s, m) ==
    /\ counting = None
    /\ Running(s)
    /\ session' = [session EXCEPT
                     ![s].total_matches = @ + m,
                     ![s].line_count = Smaller(session[s].total_matches + m,
                                               session[s].max_results)]
    /\ counting' = s

\* The chunk of that result is counted.
FinishChunk(s) ==
    /\ counting = s
    /\ Running(s)
    /\ session' = [session EXCEPT ![s].chunks_done = @ + 1]
    /\ counting' = None

Next ==
    \E s \in SearchId :
        \/ \E n \in Chunks, e \in Errors, limit \in Limits :
              Publish(s, n, e, limit)
        \/ \E m \in Matches : TakeResult(s, m)
        \/ FinishChunk(s)

Spec == Init /\ [][Next]_service
=============================================================================
