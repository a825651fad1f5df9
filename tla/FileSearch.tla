----------------------------- MODULE FileSearch -----------------------------
(***************************************************************************)
(* Which chunk examines which line of a log file.                          *)
(*                                                                         *)
(* The Master cuts a file into byte ranges without looking at it           *)
(* (EnqueueFileChunks); FileProcessor::SearchTask, running on many Workers *)
(* at once, has to work out from its own range which lines are its own: it *)
(* skips the line its range starts in, unless the byte before the range is *)
(* a newline, and reads lines as long as they start inside the range.      *)
(* Meanwhile the file, a log, may grow, and may be rotated.                *)
(*                                                                         *)
(* Offsets count from 0, so the byte at offset p is file[p + 1].  A byte   *)
(* is a newline, a byte that makes its line match, or some other byte.     *)
(* A step reads one line; what the stream has buffered of a growing file   *)
(* never changes, so the line is the one found at the moment its end is.   *)
(*                                                                         *)
(* As in MasterServer, Def_Slip is Def with a plausible slip.              *)
(***************************************************************************)
EXTENDS Integers, Sequences, FiniteSets

CONSTANTS
    ChunkSize,      \* CHUNK_SIZE
    MaxResults,     \* max_results of the task
    Byte,           \* the bytes of the file, "nl" and "hit" among them
    Eof,            \* uint64_t(-1): what the cast makes of a failed tellg
    CanRotate,      \* may the file be replaced by a shorter one?
    MaxBytes        \* bound: bytes of the file

ASSUME FileAssumption ==
    /\ ChunkSize \in Nat \ {0}
    /\ MaxResults \in Nat
    /\ CanRotate \in BOOLEAN
    /\ MaxBytes \in Nat
    /\ Eof \in Nat /\ MaxBytes < Eof

VARIABLES
    file,           \* the bytes of the file
    rotated,        \* was it replaced since the scan?
    size,           \* its size when the Master scanned it
    currentByte,    \* the loop variable of EnqueueFileChunks
    tasks,          \* the chunks cut so far
    search          \* the SearchTask call of each chunk, once they are sent out

vars == <<file, rotated, size, currentByte, tasks, search>>
cutting == <<size, currentByte, tasks>>

-----------------------------------------------------------------------------
Files == UNION {[1 .. n -> Byte] : n \in 0 .. MaxBytes}

Chunk == [start_offset : Nat, end_offset : Nat]

\* A SearchTask call: "seen" are the offsets of the lines it examined.
Search == [pc : {"queued", "skip", "compile", "read", "done", "failed"},
           currentPos : Nat, seen : SUBSET Nat, lines_found : Nat,
           total_matches : Nat]

Smaller(a, b) == IF a <= b THEN a ELSE b

\* A line starts at offset p.
LineStart(p) == p = 0 \/ file[p] = "nl"

\* The first newline at or behind offset p is at offset q.
NewlineAt(p, q) ==
    /\ file[q + 1] = "nl"
    /\ \A i \in p .. q - 1 : file[i + 1] # "nl"

\* There is none: std::getline stops at the end of the file.
NoNewline(p) == \A i \in p .. Len(file) - 1 : file[i + 1] # "nl"

\* regex_search on the bytes from offset p to offset q.
Matches(p, q) == \E i \in p .. q : file[i + 1] = "hit"

-----------------------------------------------------------------------------
Init ==
    /\ file \in Files
    /\ rotated = FALSE
    /\ size = Len(file)
    /\ currentByte = 0
    /\ tasks = <<>>
    /\ search = <<>>

(***************************************************************************)
(* The Master.                                                             *)
(***************************************************************************)

\* One turn of the loop of EnqueueFileChunks.
EnqueueFileChunks ==
    /\ currentByte < size
    /\ tasks' = Append(tasks,
                       [start_offset |-> currentByte,
                        end_offset |-> Smaller(currentByte + ChunkSize, size)])
    /\ currentByte' = currentByte + ChunkSize
    /\ UNCHANGED <<file, rotated, size, search>>

\* All chunks are cut and sent out.
Dispatch ==
    /\ currentByte >= size
    /\ search = <<>> /\ tasks # <<>>
    /\ search' = [k \in DOMAIN tasks |->
                    [pc |-> "queued", currentPos |-> 0, seen |-> {},
                     lines_found |-> 0, total_matches |-> 0]]
    /\ UNCHANGED <<file, rotated, cutting>>

(***************************************************************************)
(* SearchTask of the k-th chunk, on some Worker.                           *)
(***************************************************************************)

At(k, place) == k \in DOMAIN search /\ search[k].pc = place

GoTo(k, place, p) ==
    /\ search' = [search EXCEPT ![k].pc = place, ![k].currentPos = p]
    /\ UNCHANGED <<file, rotated, cutting>>

\* The file cannot be opened, or the keyword is no regular expression: an empty
\* result is returned.
ReturnsNothing(k) ==
    /\ At(k, "queued") \/ At(k, "compile")
    /\ search' = [search EXCEPT ![k].pc = "failed"]
    /\ UNCHANGED <<file, rotated, cutting>>

Seek_AlwaysSkips(k) ==
    /\ At(k, "queued")
    /\ LET s == tasks[k].start_offset
       IN  IF s = 0 THEN GoTo(k, "compile", 0)
           ELSE IF s <= Len(file) THEN GoTo(k, "skip", s)
           ELSE \E place \in {"skip", "compile"} : GoTo(k, place, Eof)
Seek_NeverSkips(k) ==
    At(k, "queued") /\ GoTo(k, "compile", tasks[k].start_offset)

\* The stream goes to the start of the range.  When the file has become too
\* short, get(prevChar) fails, prevChar is uninitialized and the stream stays
\* in its error state whatever is compared with it.
Seek(k) ==
    /\ At(k, "queued")
    /\ LET s == tasks[k].start_offset
       IN  IF s = 0 THEN GoTo(k, "compile", 0)
           ELSE IF s <= Len(file)
                THEN GoTo(k, IF file[s] = "nl" THEN "compile" ELSE "skip", s)
                ELSE \E place \in {"skip", "compile"} : GoTo(k, place, Eof)

SkipLine_Waits(k) ==
    /\ At(k, "skip")
    /\ \E q \in search[k].currentPos .. Len(file) - 1 :
          NewlineAt(search[k].currentPos, q) /\ GoTo(k, "compile", q + 1)

\* The line the range starts in belongs to an earlier chunk.
SkipLine(k) ==
    /\ At(k, "skip")
    /\ LET p == search[k].currentPos
       IN  \/ \E q \in p .. Len(file) - 1 :
                 NewlineAt(p, q) /\ GoTo(k, "compile", q + 1)
           \/ NoNewline(p) /\ GoTo(k, "compile", Eof)

\* The keyword is a regular expression.
Compile(k) == At(k, "compile") /\ GoTo(k, "read", search[k].currentPos)

Examine_OneMore(k, q, place, next) ==
    LET p == search[k].currentPos
        kept == Matches(p, q) /\ search[k].lines_found <= MaxResults
    IN  search' = [search EXCEPT
                     ![k].pc = place, ![k].currentPos = next,
                     ![k].seen = @ \cup {p},
                     ![k].lines_found = IF kept THEN @ + 1 ELSE @,
                     ![k].total_matches = IF Matches(p, q) THEN @ + 1 ELSE @]

Examine_CountsKept(k, q, place, next) ==
    LET p == search[k].currentPos
        kept == Matches(p, q) /\ search[k].lines_found < MaxResults
    IN  search' = [search EXCEPT
                     ![k].pc = place, ![k].currentPos = next,
                     ![k].seen = @ \cup {p},
                     ![k].lines_found = IF kept THEN @ + 1 ELSE @,
                     ![k].total_matches = IF kept THEN @ + 1 ELSE @]

\* The line from currentPos to offset q is examined and, if it matches, kept
\* unless the batch is full.
Examine(k, q, place, next) ==
    LET p == search[k].currentPos
        kept == Matches(p, q) /\ search[k].lines_found < MaxResults
    IN  search' = [search EXCEPT
                     ![k].pc = place, ![k].currentPos = next,
                     ![k].seen = @ \cup {p},
                     ![k].lines_found = IF kept THEN @ + 1 ELSE @,
                     ![k].total_matches = IF Matches(p, q) THEN @ + 1 ELSE @]

InRange_EndIncluded(k) == search[k].currentPos <= tasks[k].end_offset

\* The condition of the loop.
InRange(k) == search[k].currentPos < tasks[k].end_offset

\* std::getline reads a line.  At the end of the file tellg fails: the loop is
\* left.
ReadLine(k) ==
    /\ At(k, "read")
    /\ InRange(k)
    /\ LET p == search[k].currentPos
       IN  /\ p < Len(file)
           /\ \/ \E q \in p .. Len(file) - 1 :
                    NewlineAt(p, q) /\ Examine(k, q, "read", q + 1)
              \/ NoNewline(p) /\ Examine(k, Len(file) - 1, "done", p)
    /\ UNCHANGED <<file, rotated, cutting>>

\* The next line is not in the range, or there is none.
Return(k) ==
    /\ At(k, "read")
    /\ ~InRange(k) \/ search[k].currentPos >= Len(file)
    /\ GoTo(k, "done", search[k].currentPos)

(***************************************************************************)
(* The writer of the log.                                                  *)
(***************************************************************************)

Grow(b) ==
    /\ ~rotated
    /\ Len(file) < MaxBytes
    /\ file' = Append(file, b)
    /\ UNCHANGED <<rotated, cutting, search>>

\* The log is rotated while no Worker has it open.
Rotate(f) ==
    /\ CanRotate /\ ~rotated
    /\ \A k \in DOMAIN search : search[k].pc \in {"queued", "done", "failed"}
    /\ Len(f) < Len(file)
    /\ file' = f
    /\ rotated' = TRUE
    /\ UNCHANGED <<cutting, search>>

-----------------------------------------------------------------------------
SearchTask(k) ==
    ReturnsNothing(k) \/ Seek(k) \/ SkipLine(k) \/ Compile(k) \/ ReadLine(k)
      \/ Return(k)

Next ==
    \/ EnqueueFileChunks
    \/ Dispatch
    \/ \E k \in DOMAIN search : SearchTask(k)
    \/ \E b \in Byte : Grow(b)
    \/ \E f \in Files : Rotate(f)

Spec == Init /\ [][Next]_vars

\* The Master's loop and every call of SearchTask run on; the log's writer may
\* stop or go on for ever.
FairSpec ==
    /\ Spec
    /\ WF_vars(EnqueueFileChunks \/ Dispatch)
    /\ \A k \in 1 .. MaxBytes : WF_vars(k \in DOMAIN search /\ SearchTask(k))

-----------------------------------------------------------------------------
(***************************************************************************)
(* Properties.                                                             *)
(***************************************************************************)

\* The type of every variable.
TypeOK ==
    /\ file \in Seq(Byte)
    /\ rotated \in BOOLEAN
    /\ size \in 0 .. MaxBytes
    /\ currentByte \in Nat
    /\ tasks \in Seq(Chunk)
    /\ search = <<>> \/ search \in [DOMAIN tasks -> Search]

\* The offsets of chunk k, and the lines that start there.
Offsets(k) == tasks[k].start_offset .. tasks[k].end_offset - 1
OwnLines(k) == {p \in Offsets(k) : LineStart(p)}

\* EnqueueFileChunks cuts the file into pieces: when it is done, every byte of
\* the scanned file is in one chunk and none in two.
ChunksTile ==
    /\ \A j, k \in DOMAIN tasks : j # k => Offsets(j) \cap Offsets(k) = {}
    /\ currentByte >= size =>
          UNION {Offsets(k) : k \in DOMAIN tasks} = 0 .. size - 1

\* SearchTask examines exactly the lines that start in its range, although it
\* sees neither the other ranges nor where lines start, and although the log may
\* grow behind its back.
ExaminesOwnLines ==
    \A k \in DOMAIN search :
        search[k].pc = "done" /\ ~rotated => search[k].seen = OwnLines(k)

\* No line is examined by two calls of SearchTask, not even when the log was
\* rotated between them.
NoLineTwice ==
    \A j, k \in DOMAIN search :
        j # k => search[j].seen \cap search[k].seen = {}

\* Every line the file had when it was scanned is examined once all chunks are
\* done: SearchTask and EnqueueFileChunks agree on who has which line.
AllLinesExamined ==
    (/\ search # <<>> /\ ~rotated
     /\ \A k \in DOMAIN search : search[k].pc = "done")
    => UNION {search[k].seen : k \in DOMAIN search}
         = {p \in 0 .. size - 1 : LineStart(p)}

\* The batch SearchTask returns has as many lines as there were matches, up to
\* max_results, which is what the Master's own limit builds on.
BatchCut ==
    \A k \in DOMAIN search :
        search[k].lines_found = Smaller(search[k].total_matches, MaxResults)

\* The line that starts at offset p matches, as far as the first n bytes show.
LineMatches(p, n) ==
    \E i \in p .. n - 1 :
        file[i + 1] = "hit" /\ \A j \in p .. i - 1 : file[j + 1] # "nl"
MatchingLines(n) == {p \in 0 .. size - 1 : LineStart(p) /\ LineMatches(p, n)}

\* As many elements as the total_matches of all chunks add up to.
Counted == UNION {{k} \X (1 .. search[k].total_matches) : k \in DOMAIN search}

\* The total the client is told counts every line that matched when the file was
\* scanned and no line that does not match now; it is exact for a file that has
\* not grown.  Chunk boundaries, full batches and the end of the file make no
\* difference.
TotalExact ==
    (/\ search # <<>> /\ ~rotated
     /\ \A k \in DOMAIN search : search[k].pc = "done")
    => /\ Cardinality(MatchingLines(size)) <= Cardinality(Counted)
       /\ Cardinality(Counted) <= Cardinality(MatchingLines(Len(file)))

\* Every chunk that was sent out is searched to the end, or given up.
SearchTaskReturns ==
    \A k \in 1 .. MaxBytes :
        At(k, "queued") ~> (At(k, "done") \/ At(k, "failed"))
=============================================================================
