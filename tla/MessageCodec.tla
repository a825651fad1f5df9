---------------------------- MODULE MessageCodec ----------------------------
(***************************************************************************)
(* How a ChunkResult crosses the network: the << and >> of message<T>,     *)
(* which push and pop raw values at the END of the body, SerializeBatch on *)
(* the Worker, and on the Master OnMessage and DeserializeBatch, which pop *)
(* the numbers and then read the lines from the FRONT of the same body     *)
(* without any check of its length.  The two sides agree on the order, the *)
(* widths and the counts, or the Master reads something else.              *)
(*                                                                         *)
(* A body is a sequence of digits of base Base; uint32_t and uint64_t are  *)
(* W32 and W64 digits wide, least significant first.                       *)
(***************************************************************************)
EXTENDS Integers, SequencesExt

CONSTANTS
    Base, W32, W64,
    Chars,          \* the bytes lines are made of
    LineLengths,    \* the lengths of lines considered
    MaxLines,       \* bound: lines of a batch
    Numbers         \* the ids and totals considered

Byte == 0 .. Base - 1

\* The number of values of w digits.
Power[w \in Nat] == IF w = 0 THEN 1 ELSE Base * Power[w - 1]

ASSUME CodecAssumption ==
    /\ Base \in Nat \ {0, 1} /\ W32 \in Nat \ {0} /\ W64 \in Nat \ {0}
    /\ Chars \subseteq Byte /\ LineLengths \subseteq Nat /\ MaxLines \in Nat
    /\ Numbers \subseteq 0 .. Power[W64] - 1

VARIABLES
    batch,      \* the Worker's ChunkResult
    body,       \* msg.body
    size,       \* msg.header.size
    result,     \* what the Master has read
    offset,     \* offset in DeserializeBatch
    step,       \* where the message is
    i           \* the lines or numbers the step has dealt with

vars == <<batch, body, size, result, offset, step, i>>

Line == UNION {[1 .. n -> Chars] : n \in LineLengths}

\* The bytes of a value of w digits, and back.
Encode(v, w) == [k \in 1 .. w |-> (v \div Power[k - 1]) % Base]
UpTo(bytes) ==
    LET upTo[k \in 0 .. Len(bytes)] ==
            IF k = 0 THEN 0 ELSE upTo[k - 1] + bytes[k] * Power[k - 1]
    IN  upTo
Decode(bytes) == UpTo(bytes)[Len(bytes)]

\* uint32_t size(): the length of a body is cut to 32 bits.
Size(bytes) == Len(bytes) % Power[W32]

ChunkResult == [lines : SeqOf(Line, MaxLines), lines_found : 0 .. MaxLines,
                total_matches : Numbers, search_id : Numbers, task_id : Numbers]
NoResult == [lines |-> <<>>, lines_found |-> 0, total_matches |-> 0,
             search_id |-> 0, task_id |-> 0]

\* The bytes of the first lines with their lengths in front.
LinesLength(lines) ==
    LET upTo[k \in 0 .. Len(lines)] ==
            IF k = 0 THEN 0 ELSE upTo[k - 1] + (W32 + Len(lines[k]))
    IN  upTo

\* The body has less than 2^32 bytes.  As built a chunk has 5 MB: at most as many
\* lines start in it, each of which adds 4 bytes of length and a file name of at
\* most 255 bytes with its ": ", 1.4 GB in all.  Only the last line may leave the
\* chunk, and would have to be gigabytes long.
Fits(b) == LinesLength(b.lines)[Len(b.lines)] + (W32 + 3 * W64) < Power[W32]

Init ==
    /\ batch \in {b \in ChunkResult : b.lines_found = Len(b.lines) /\ Fits(b)}
    /\ body = <<>> /\ size = 0
    /\ result = NoResult
    /\ offset = 0 /\ step = "serialize" /\ i = 0

-----------------------------------------------------------------------------
(***************************************************************************)
(* SerializeBatch on the Worker.                                           *)
(***************************************************************************)

\* The loop over the lines: each goes behind its length.
SerializeLine ==
    /\ step = "serialize" /\ i < Len(batch.lines)
    /\ LET line == batch.lines[i + 1]
       IN  body' = body \o Encode(Len(line), W32) \o line
    /\ i' = i + 1
    /\ UNCHANGED <<batch, size, result, offset, step>>

LinesSerialized ==
    /\ step = "serialize" /\ i = Len(batch.lines)
    /\ size' = Size(body)
    /\ step' = "push" /\ i' = 0
    /\ UNCHANGED <<batch, body, result, offset>>

\* The numbers in the order in which they are pushed, and how wide they are.
Pushed_Swapped == <<"lines_found", "total_matches", "task_id", "search_id">>
Pushed == <<"lines_found", "total_matches", "search_id", "task_id">>
Width(field) == IF field = "lines_found" THEN W32 ELSE W64

\* msg << field.
Push ==
    /\ step = "push" /\ i < Len(Pushed)
    /\ body' = body \o Encode(batch[Pushed[i + 1]], Width(Pushed[i + 1]))
    /\ size' = Size(body')
    /\ i' = i + 1
    /\ UNCHANGED <<batch, result, offset, step>>

\* SendTaskDone: the Master reads a body of as many bytes as the header says.
SendTaskDone ==
    /\ step = "push" /\ i = Len(Pushed)
    /\ body' = SubSeq(body, 1, size)
    /\ step' = "pop" /\ i' = 0
    /\ UNCHANGED <<batch, size, result, offset>>

(***************************************************************************)
(* OnMessage and DeserializeBatch on the Master.                           *)
(***************************************************************************)

\* OnMessage pops the task id, DeserializeBatch the rest.
Popped == <<"task_id", "search_id", "total_matches", "lines_found">>

\* msg >> field: the last bytes of the body.  (A body that is too short throws.)
Pop ==
    /\ step = "pop" /\ i < Len(Popped)
    /\ LET field == Popped[i + 1]
           start == Len(body) - Width(field)
       IN  /\ start >= 0
           /\ result' = [result EXCEPT
                           ![field] = Decode(SubSeq(body, start + 1, Len(body)))]
           /\ body' = SubSeq(body, 1, start)
           /\ size' = Size(body')
    /\ i' = i + 1
    /\ UNCHANGED <<batch, offset, step>>

NumbersRead ==
    /\ step = "pop" /\ i = Len(Popped)
    /\ step' = "lines" /\ i' = 0
    /\ UNCHANGED <<batch, body, size, result, offset>>

\* The loop of DeserializeBatch over the lines.
LengthAt(o) == Decode(SubSeq(body, o + 1, o + W32))
ReadLine ==
    /\ step = "lines" /\ i < result.lines_found
    /\ LET from == offset + W32
           next == from + LengthAt(offset)
       IN  /\ result' = [result EXCEPT
                           !.lines = Append(@, SubSeq(body, from + 1, next))]
           /\ offset' = next
    /\ i' = i + 1
    /\ UNCHANGED <<batch, body, size, step>>

\* The loop ends and the batch is complete.
Deserialized ==
    /\ step = "lines" /\ i = result.lines_found
    /\ step' = "done"
    /\ UNCHANGED <<batch, body, size, result, offset, i>>

Next ==
    \/ SerializeLine \/ LinesSerialized \/ Push \/ SendTaskDone
    \/ Pop \/ NumbersRead \/ ReadLine \/ Deserialized

Spec == Init /\ [][Next]_vars

-----------------------------------------------------------------------------
\* DeserializeBatch reads lengths and lines with no check of the body's end: what
\* it reads is always inside the body, and at the end it has read all of it.  No
\* pop throws.
InsideBody ==
    /\ step = "pop" /\ i < Len(Popped) => Len(body) >= Width(Popped[i + 1])
    /\ step = "lines" /\ i < result.lines_found =>
          /\ offset + W32 <= Len(body)
          /\ offset + W32 + LengthAt(offset) <= Len(body)
    /\ step = "done" => offset = Len(body)

\* The Master works on the batch the Worker found, without ever reading outside
\* the body: the stack order, the widths and the counts of SerializeBatch and
\* DeserializeBatch fit each other.
RoundTrip == InsideBody /\ (step = "done" => result = batch)
=============================================================================
