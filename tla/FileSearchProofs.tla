-------------------------- MODULE FileSearchProofs --------------------------
(***************************************************************************)
(* For every file, every chunk size and every growth of the file while it  *)
(* is searched: the chunks tile the file, and each line is examined by the *)
(* one chunk it starts in.                                                 *)
(*                                                                         *)
(* ChunksTile becomes inductive with CutInv, what is true between two      *)
(* turns of the loop of EnqueueFileChunks.  The lines need SearchInv: how  *)
(* far each call of SearchTask is, and that currentPos, where it matters,  *)
(* is the start of a line.                                                 *)
(***************************************************************************)
EXTENDS FileSearch, FiniteSetTheorems, SequenceTheorems, TLAPS

Reading == {"compile", "read"}

\* The chunks cut so far are disjoint, in order, and cover what lies behind the
\* loop variable.
CutInv ==
    /\ \A k \in DOMAIN tasks :
          /\ tasks[k].start_offset < tasks[k].end_offset
          /\ tasks[k].end_offset <= size
          /\ tasks[k].end_offset <= currentByte
    /\ \A j, k \in DOMAIN tasks :
          j < k => tasks[j].end_offset <= tasks[k].start_offset
    /\ \A p \in 0 .. size - 1 :
          p < currentByte => \E k \in DOMAIN tasks : p \in Offsets(k)
    /\ search # <<>> => currentByte >= size

\* The scanned bytes are still there.
FileInv ==
    /\ Len(file) <= MaxBytes
    /\ ~rotated => size <= Len(file)

\* SearchTask stays in its range, rotated or not.
StaysInRange(k) ==
    /\ search[k].seen \subseteq Offsets(k)
    /\ search[k].pc \in Reading \cup {"skip"} =>
          search[k].currentPos >= tasks[k].start_offset

\* What SearchTask has examined, at each of its control points.
Progress(k) ==
    /\ search[k].pc \in {"queued", "skip", "compile"} => search[k].seen = {}
    /\ search[k].pc = "skip" =>
          /\ search[k].currentPos = tasks[k].start_offset
          /\ ~LineStart(tasks[k].start_offset)
    /\ search[k].pc \in Reading =>
          /\ \A p \in Offsets(k) :
                IF p < search[k].currentPos
                THEN p \in search[k].seen <=> LineStart(p)
                ELSE p \notin search[k].seen
          /\ search[k].currentPos < tasks[k].end_offset =>
                LineStart(search[k].currentPos)
    /\ search[k].pc = "done" => search[k].seen = OwnLines(k)

SearchInv ==
    \A k \in DOMAIN search :
        /\ StaysInRange(k)
        /\ ~rotated => Progress(k)

FileSearchInv == TypeOK /\ CutInv /\ FileInv /\ SearchInv /\ BatchCut

-----------------------------------------------------------------------------
\* Files are sequences of at most MaxBytes bytes.
LEMMA FilesAreSequences ==
    ASSUME NEW f \in Files
    PROVE  f \in Seq(Byte) /\ Len(f) \in 0 .. MaxBytes
<1>1. PICK n \in 0 .. MaxBytes : f \in [1 .. n -> Byte]
  BY DEF Files
<1>2. n \in Nat
  BY <1>1, FileAssumption
<1> QED
  BY <1>1, <1>2

\* Once they are sent out, every chunk has a search and nothing is cut any more.
LEMMA SearchedChunks ==
    ASSUME TypeOK, CutInv, NEW k \in DOMAIN search
    PROVE  /\ search # <<>> /\ search \in [DOMAIN tasks -> Search]
           /\ k \in DOMAIN tasks /\ search[k] \in Search
           /\ tasks[k].start_offset \in Nat /\ tasks[k].end_offset \in Nat
           /\ tasks[k].start_offset < tasks[k].end_offset
           /\ tasks[k].end_offset <= size /\ size <= currentByte
           /\ size \in Nat /\ currentByte \in Nat /\ size < Eof
<1>1. search # <<>>
  OBVIOUS
<1>2. search \in [DOMAIN tasks -> Search]
  BY <1>1 DEF TypeOK
<1>3. k \in DOMAIN tasks /\ search[k] \in Search
  BY <1>2
<1>4. tasks[k] \in Chunk
  BY <1>3, ElementOfSeq, LenProperties DEF TypeOK
<1> QED
  BY <1>1, <1>2, <1>3, <1>4, FileAssumption DEF TypeOK, CutInv, Chunk

\* The initial states.
LEMMA FileSearchInit == Init => FileSearchInv
<1> SUFFICES ASSUME Init PROVE FileSearchInv
  OBVIOUS
<1>1. file \in Seq(Byte) /\ Len(file) \in 0 .. MaxBytes
  BY FilesAreSequences DEF Init
<1>2. DOMAIN tasks = {} /\ DOMAIN search = {}
  BY DEF Init
<1>3. TypeOK
  BY <1>1, EmptySeq DEF Init, TypeOK
<1>4. CutInv
  BY <1>1, <1>2 DEF Init, CutInv
<1>5. FileInv
  BY <1>1 DEF Init, FileInv
<1> QED
  BY <1>2, <1>3, <1>4, <1>5 DEF FileSearchInv, SearchInv, BatchCut

\* A turn of the Master's loop adds a chunk behind all others.
LEMMA CutStep ==
    ASSUME FileSearchInv, EnqueueFileChunks
    PROVE  FileSearchInv'
<1> USE DEF FileSearchInv
<1>1. /\ currentByte \in Nat /\ size \in Nat /\ currentByte < size
      /\ ChunkSize \in Nat \ {0} /\ tasks \in Seq(Chunk)
  BY FileAssumption DEF EnqueueFileChunks, TypeOK
<1>2. search = <<>> /\ search' = <<>> /\ DOMAIN search' = {}
  BY <1>1 DEF EnqueueFileChunks, CutInv
<1>3. PICK e : e = [start_offset |-> currentByte,
                    end_offset |-> Smaller(currentByte + ChunkSize, size)]
  OBVIOUS
<1>4. /\ e \in Chunk /\ e.start_offset = currentByte
      /\ e.end_offset \in Nat /\ e.end_offset <= size
      /\ e.end_offset <= currentByte + ChunkSize
      /\ currentByte < e.end_offset
      /\ e.end_offset = size \/ e.end_offset = currentByte + ChunkSize
  BY <1>1, <1>3 DEF Smaller, Chunk
<1>5. /\ tasks' = Append(tasks, e) /\ currentByte' = currentByte + ChunkSize
      /\ UNCHANGED <<file, rotated, size>>
  BY <1>3 DEF EnqueueFileChunks
<1>6. PICK n \in Nat : n = Len(tasks)
  BY <1>1, LenProperties
<1>7. /\ tasks' \in Seq(Chunk) /\ DOMAIN tasks = 1 .. n
      /\ DOMAIN tasks' = 1 .. n + 1
      /\ tasks'[n + 1] = e /\ \A i \in 1 .. n : tasks'[i] = tasks[i]
  BY <1>1, <1>4, <1>5, <1>6, AppendProperties, LenProperties
<1>8. \A i \in 1 .. n : /\ tasks[i].start_offset \in Nat
                        /\ tasks[i].end_offset \in Nat
  <2>1. \A i \in 1 .. n : tasks[i] \in Chunk
    BY <1>1, <1>6, ElementOfSeq
  <2> QED
    BY <2>1 DEF Chunk
<1>9. TypeOK'
  BY <1>1, <1>2, <1>5, <1>7 DEF TypeOK
<1>10. CutInv'
  <2>1. \A k \in DOMAIN tasks' :
          /\ tasks'[k].start_offset < tasks'[k].end_offset
          /\ tasks'[k].end_offset <= size'
          /\ tasks'[k].end_offset <= currentByte'
    BY <1>1, <1>4, <1>5, <1>6, <1>7, <1>8 DEF CutInv
  <2>2. \A j, k \in DOMAIN tasks' :
          j < k => tasks'[j].end_offset <= tasks'[k].start_offset
    <3> SUFFICES ASSUME NEW j \in 1 .. n + 1, NEW k \in 1 .. n + 1, j < k
                 PROVE  tasks'[j].end_offset <= tasks'[k].start_offset
      BY <1>7
    <3>1. j \in 1 .. n /\ tasks'[j] = tasks[j]
      BY <1>6, <1>7
    <3>2. CASE k = n + 1
      BY <1>4, <1>7, <3>1, <3>2 DEF CutInv
    <3>3. CASE k # n + 1
      <4>1. k \in 1 .. n /\ tasks'[k] = tasks[k]
        BY <1>6, <1>7, <3>3
      <4> QED
        BY <1>7, <3>1, <4>1 DEF CutInv
    <3> QED
      BY <3>2, <3>3
  <2>3. ASSUME NEW p \in 0 .. size' - 1, p < currentByte'
        PROVE  \E k \in DOMAIN tasks' : p \in Offsets(k)'
    <3>1. CASE p < currentByte
      <4>1. PICK k \in DOMAIN tasks : p \in Offsets(k)
        BY <1>5, <3>1, <2>3 DEF CutInv
      <4>2. k \in DOMAIN tasks' /\ tasks'[k] = tasks[k]
        BY <1>6, <1>7
      <4> QED
        BY <4>1, <4>2 DEF Offsets
    <3>2. CASE p >= currentByte
      <4>1. p \in e.start_offset .. e.end_offset - 1
        BY <1>1, <1>4, <1>5, <2>3, <3>2
      <4>2. n + 1 \in DOMAIN tasks' /\ p \in Offsets(n + 1)'
        BY <1>6, <1>7, <4>1 DEF Offsets
      <4> QED
        BY <4>2
    <3> QED
      BY <1>1, <1>5, <3>1, <3>2
  <2> QED
    BY <1>2, <2>1, <2>2, <2>3 DEF CutInv
<1> QED
  BY <1>2, <1>5, <1>9, <1>10 DEF FileInv, SearchInv, BatchCut

\* The chunks are sent out and nothing is examined yet.
LEMMA DispatchStep ==
    ASSUME FileSearchInv, Dispatch
    PROVE  FileSearchInv'
<1> USE DEF FileSearchInv
<1>1. PICK fresh : /\ fresh = [pc |-> "queued", currentPos |-> 0, seen |-> {},
                               lines_found |-> 0, total_matches |-> 0]
                   /\ search' = [k \in DOMAIN tasks |-> fresh]
  BY DEF Dispatch
<1>2. fresh \in Search /\ UNCHANGED <<file, rotated, size, currentByte, tasks>>
  BY <1>1 DEF Search, Dispatch, cutting
<1>3. TypeOK'
  BY <1>1, <1>2 DEF TypeOK
<1>4. CutInv' /\ FileInv'
  <2>1. currentByte >= size
    BY DEF Dispatch
  <2>2. UNCHANGED <<tasks, size, currentByte>> /\ \A k : Offsets(k)' = Offsets(k)
    BY <1>2 DEF Offsets
  <2> QED
    BY <1>2, <2>1, <2>2 DEF CutInv, FileInv
<1>5. DOMAIN search' = DOMAIN tasks /\ \A k \in DOMAIN search' : search'[k] = fresh
  BY <1>1
<1>6. SearchInv'
  BY <1>1, <1>5 DEF SearchInv, StaysInRange, Progress, Reading
<1>7. BatchCut'
  BY <1>1, <1>5, FileAssumption DEF BatchCut, Smaller
<1> QED
  BY <1>3, <1>4, <1>6, <1>7

\* A step of one SearchTask call has to be shown right for that call only.
LEMMA OneSearch ==
    ASSUME FileSearchInv, NEW k \in DOMAIN search,
           UNCHANGED <<file, rotated, size, currentByte, tasks>>,
           search' \in [DOMAIN tasks -> Search],
           \A j \in DOMAIN search \ {k} : search'[j] = search[j],
           StaysInRange(k)', ~rotated => Progress(k)',
           search'[k].lines_found = Smaller(search'[k].total_matches, MaxResults)
    PROVE  FileSearchInv'
<1> USE DEF FileSearchInv
<1>1. DOMAIN search' = DOMAIN search /\ search' # <<>> /\ search # <<>>
  BY SearchedChunks
<1>2. \A j : /\ Offsets(j)' = Offsets(j) /\ OwnLines(j)' = OwnLines(j)
             /\ LineStart(j)' = LineStart(j)
  BY DEF Offsets, OwnLines, LineStart
<1>3. TypeOK'
  BY DEF TypeOK
<1>4. CutInv' /\ FileInv'
  BY <1>1, <1>2 DEF CutInv, FileInv
<1>5. SearchInv'
  <2> SUFFICES ASSUME NEW j \in DOMAIN search, j # k
               PROVE  StaysInRange(j)' /\ (~rotated => Progress(j)')
    BY <1>1 DEF SearchInv
  <2>1. search'[j] = search[j]
    OBVIOUS
  <2>2. StaysInRange(j)'
    BY <1>2, <2>1 DEF SearchInv, StaysInRange
  <2>3. ASSUME ~rotated PROVE Progress(j)'
    <3>1. Progress(j)
      BY <2>3 DEF SearchInv
    <3> QED
      BY <1>2, <2>1, <3>1 DEF Progress, LineStart
  <2> QED
    BY <2>2, <2>3
<1>6. BatchCut'
  BY <1>1 DEF BatchCut
<1> QED
  BY <1>3, <1>4, <1>5, <1>6

\* A call that moves on without examining a line.
LEMMA Moves ==
    ASSUME FileSearchInv, NEW k \in DOMAIN search, NEW place, NEW p \in Nat,
           place \in {"skip", "compile", "read", "done"}, GoTo(k, place, p)
    PROVE  /\ UNCHANGED <<file, rotated, size, currentByte, tasks>>
           /\ search' \in [DOMAIN tasks -> Search]
           /\ \A j \in DOMAIN search \ {k} : search'[j] = search[j]
           /\ search'[k].pc = place /\ search'[k].currentPos = p
           /\ search'[k].seen = search[k].seen
           /\ search'[k].lines_found
                = Smaller(search'[k].total_matches, MaxResults)
<1>1. search \in [DOMAIN tasks -> Search] /\ k \in DOMAIN tasks
  BY SearchedChunks DEF FileSearchInv
<1>2. search' = [search EXCEPT ![k].pc = place, ![k].currentPos = p]
  BY DEF GoTo
<1>3. search' \in [DOMAIN tasks -> Search]
  BY <1>1, <1>2 DEF Search
<1>4. /\ search'[k].lines_found = search[k].lines_found
      /\ search'[k].total_matches = search[k].total_matches
      /\ search'[k].pc = place /\ search'[k].currentPos = p
      /\ search'[k].seen = search[k].seen
  BY <1>1, <1>2 DEF Search
<1> QED
  BY <1>1, <1>2, <1>3, <1>4 DEF GoTo, cutting, FileSearchInv, BatchCut

\* Behind a line that starts at p and ends at q no line starts before q + 1.
LEMMA NextLine ==
    ASSUME NEW p \in Nat, NEW q \in Nat, p <= q, NewlineAt(p, q)
    PROVE  /\ LineStart(q + 1)
           /\ \A i \in p + 1 .. q : ~LineStart(i)
<1>1. \A i \in p + 1 .. q : i # 0 /\ i - 1 \in p .. q - 1 /\ (i - 1) + 1 = i
  OBVIOUS
<1> QED
  BY <1>1 DEF NewlineAt, LineStart

\* Behind the last line none starts at all.
LEMMA LastLine ==
    ASSUME file \in Seq(Byte), NEW p \in Nat, NoNewline(p)
    PROVE  \A i \in p + 1 .. Len(file) : ~LineStart(i)
<1>1. Len(file) \in Nat
  BY LenProperties
<1>2. \A i \in p + 1 .. Len(file) :
        i # 0 /\ i - 1 \in p .. Len(file) - 1 /\ (i - 1) + 1 = i
  BY <1>1
<1> QED
  BY <1>2 DEF NoNewline, LineStart

\* A call that gives up keeps the empty result it has.
LEMMA ReturnsNothingStep ==
    ASSUME FileSearchInv, NEW k \in DOMAIN search, ReturnsNothing(k)
    PROVE  FileSearchInv'
<1>1. search \in [DOMAIN tasks -> Search] /\ k \in DOMAIN tasks
  BY SearchedChunks DEF FileSearchInv
<1>2. search' = [search EXCEPT ![k].pc = "failed"]
  BY DEF ReturnsNothing
<1>3. search' \in [DOMAIN tasks -> Search]
  BY <1>1, <1>2 DEF Search
<1>4. /\ search'[k].lines_found = search[k].lines_found
      /\ search'[k].total_matches = search[k].total_matches
      /\ search'[k].pc = "failed" /\ search'[k].seen = search[k].seen
  BY <1>1, <1>2 DEF Search
<1>5. UNCHANGED <<file, rotated, size, currentByte, tasks>>
  BY DEF ReturnsNothing, cutting
<1>6. StaysInRange(k)' /\ Progress(k)'
  BY <1>4, <1>5
  DEF FileSearchInv, SearchInv, StaysInRange, Progress, Reading, Offsets
<1>7. \A j \in DOMAIN search \ {k} : search'[j] = search[j]
  BY <1>1, <1>2
<1>8. search'[k].lines_found = Smaller(search'[k].total_matches, MaxResults)
  BY <1>4 DEF FileSearchInv, BatchCut
<1> QED
  BY <1>3, <1>5, <1>6, <1>7, <1>8, OneSearch

\* The start of the range is a line start, or is inside a line.
LEMMA SeekStep ==
    ASSUME FileSearchInv, NEW k \in DOMAIN search, Seek(k)
    PROVE  FileSearchInv'
<1>1. PICK s \in Nat : s = tasks[k].start_offset
  BY SearchedChunks DEF FileSearchInv
<1>2. /\ s < tasks[k].end_offset /\ tasks[k].end_offset \in Nat
      /\ tasks[k].end_offset <= size /\ size \in Nat /\ size < Eof /\ Eof \in Nat
  BY <1>1, SearchedChunks, FileAssumption DEF FileSearchInv
<1>3. search[k].pc = "queued" /\ (~rotated => search[k].seen = {} /\ size <= Len(file))
      /\ search[k].seen \subseteq Offsets(k)
  BY DEF Seek, At, FileSearchInv, SearchInv, Progress, StaysInRange, FileInv
<1>4. PICK place \in {"skip", "compile"}, p \in {s, Eof} :
        /\ GoTo(k, place, p)
        /\ ~rotated => p = s /\ (place = "compile" <=> LineStart(s))
  <2>1. CASE s = 0
    BY <1>1, <2>1 DEF Seek, LineStart
  <2>2. CASE s # 0 /\ s <= Len(file)
    BY <1>1, <2>2 DEF Seek, LineStart
  <2>3. CASE s # 0 /\ ~(s <= Len(file))
    <3>1. Len(file) \in Nat
      BY LenProperties DEF FileSearchInv, TypeOK
    <3>2. rotated
      BY <1>2, <1>3, <2>3, <3>1
    <3> QED
      BY <1>1, <2>3, <3>2 DEF Seek
  <2> QED
    BY <2>1, <2>2, <2>3
<1>5. p \in Nat /\ p >= s
  BY <1>2, <1>4
<1>6. /\ UNCHANGED <<file, rotated, size, currentByte, tasks>>
      /\ search' \in [DOMAIN tasks -> Search]
      /\ \A j \in DOMAIN search \ {k} : search'[j] = search[j]
      /\ search'[k].pc = place /\ search'[k].currentPos = p
      /\ search'[k].seen = search[k].seen
      /\ search'[k].lines_found
           = Smaller(search'[k].total_matches, MaxResults)
  BY <1>4, <1>5, Moves
<1>7. StaysInRange(k)'
  BY <1>1, <1>3, <1>5, <1>6 DEF StaysInRange, Offsets
<1>8. ASSUME ~rotated PROVE Progress(k)'
  <2>1. \A i \in Offsets(k) : ~(i < p)
    BY <1>1, <1>2, <1>4, <1>8 DEF Offsets
  <2> QED
    BY <1>1, <1>3, <1>4, <1>6, <1>8, <2>1
    DEF Progress, Reading, Offsets, LineStart
<1> QED
  BY <1>6, <1>7, <1>8, OneSearch

\* Skipping ends at the start of the next line.
LEMMA SkipLineStep ==
    ASSUME FileSearchInv, NEW k \in DOMAIN search, SkipLine(k)
    PROVE  FileSearchInv'
<1>1. PICK s \in Nat, p \in Nat, e \in Nat :
        /\ s = tasks[k].start_offset /\ p = search[k].currentPos
        /\ e = tasks[k].end_offset
  BY SearchedChunks DEF FileSearchInv, Search
<1>2. e <= size /\ size \in Nat /\ size < Eof /\ Eof \in Nat /\ s < e
  BY <1>1, SearchedChunks, FileAssumption DEF FileSearchInv
<1>3. /\ search[k].pc = "skip" /\ p >= s /\ search[k].seen \subseteq Offsets(k)
      /\ ~rotated => /\ p = s /\ search[k].seen = {} /\ ~LineStart(s)
                     /\ size <= Len(file)
  BY <1>1
  DEF SkipLine, At, FileSearchInv, SearchInv, Progress, StaysInRange, FileInv,
      Reading
<1>4. file \in Seq(Byte) /\ Len(file) \in Nat
  BY LenProperties DEF FileSearchInv, TypeOK
<1>5. PICK next \in Nat :
        /\ GoTo(k, "compile", next) /\ next >= s
        /\ ~rotated => /\ \A i \in p + 1 .. Smaller(next, e) - 1 : ~LineStart(i)
                       /\ next < e => LineStart(next)
  <2>1. CASE \E q \in p .. Len(file) - 1 :
                NewlineAt(p, q) /\ GoTo(k, "compile", q + 1)
    <3>1. PICK q \in p .. Len(file) - 1 :
                NewlineAt(p, q) /\ GoTo(k, "compile", q + 1)
      BY <2>1
    <3>2. q \in Nat /\ p <= q /\ q + 1 \in Nat /\ q + 1 >= s
      BY <1>3, <1>4, <3>1
    <3>3. LineStart(q + 1) /\ \A i \in p + 1 .. q : ~LineStart(i)
      BY <3>1, <3>2, NextLine
    <3>4. \A i \in p + 1 .. Smaller(q + 1, e) - 1 : i \in p + 1 .. q
      BY <3>2 DEF Smaller
    <3> QED
      BY <3>1, <3>2, <3>3, <3>4
  <2>2. CASE NoNewline(p) /\ GoTo(k, "compile", Eof)
    <3>1. \A i \in p + 1 .. Len(file) : ~LineStart(i)
      BY <1>4, <2>2, LastLine
    <3>2. ~rotated => \A i \in p + 1 .. Smaller(Eof, e) - 1 :
                         i \in p + 1 .. Len(file)
      BY <1>2, <1>3, <1>4 DEF Smaller
    <3>3. Eof >= s /\ ~(Eof < e)
      BY <1>2
    <3> QED
      BY <1>2, <2>2, <3>1, <3>2, <3>3
  <2> QED
    BY <1>1, <2>1, <2>2 DEF SkipLine
<1>6. /\ UNCHANGED <<file, rotated, size, currentByte, tasks>>
      /\ search' \in [DOMAIN tasks -> Search]
      /\ \A j \in DOMAIN search \ {k} : search'[j] = search[j]
      /\ search'[k].pc = "compile" /\ search'[k].currentPos = next
      /\ search'[k].seen = search[k].seen
      /\ search'[k].lines_found
           = Smaller(search'[k].total_matches, MaxResults)
  BY <1>5, Moves
<1>7. StaysInRange(k)'
  BY <1>1, <1>3, <1>5, <1>6 DEF StaysInRange, Offsets
<1>8. ASSUME ~rotated PROVE Progress(k)'
  <2>1. \A i \in s .. e - 1 : i < next => ~LineStart(i)
    BY <1>3, <1>5, <1>8 DEF Smaller
  <2> QED
    BY <1>1, <1>3, <1>5, <1>6, <1>8, <2>1
    DEF Progress, Reading, Offsets, LineStart
<1> QED
  BY <1>6, <1>7, <1>8, OneSearch

\* Compiling the expression examines nothing.
LEMMA CompileStep ==
    ASSUME FileSearchInv, NEW k \in DOMAIN search, Compile(k)
    PROVE  FileSearchInv'
<1>1. PICK p \in Nat : p = search[k].currentPos
  BY SearchedChunks DEF FileSearchInv, Search
<1>2. search[k].pc = "compile" /\ GoTo(k, "read", p)
  BY <1>1 DEF Compile, At
<1>3. /\ UNCHANGED <<file, rotated, size, currentByte, tasks>>
      /\ search' \in [DOMAIN tasks -> Search]
      /\ \A j \in DOMAIN search \ {k} : search'[j] = search[j]
      /\ search'[k].pc = "read" /\ search'[k].currentPos = p
      /\ search'[k].seen = search[k].seen
      /\ search'[k].lines_found
           = Smaller(search'[k].total_matches, MaxResults)
  BY <1>2, Moves
<1>4. StaysInRange(k)'
  BY <1>1, <1>2, <1>3
  DEF FileSearchInv, SearchInv, StaysInRange, Offsets, Reading
<1>5. ASSUME ~rotated PROVE Progress(k)'
  BY <1>1, <1>2, <1>3, <1>5
  DEF FileSearchInv, SearchInv, Progress, Reading, Offsets, LineStart
<1> QED
  BY <1>3, <1>4, <1>5, OneSearch

\* The line read is one of the chunk's own, and the first it has not examined.
LEMMA ReadLineStep ==
    ASSUME FileSearchInv, NEW k \in DOMAIN search, ReadLine(k)
    PROVE  FileSearchInv'
<1>1. PICK s \in Nat, p \in Nat, e \in Nat, seen \in SUBSET Nat :
        /\ s = tasks[k].start_offset /\ p = search[k].currentPos
        /\ e = tasks[k].end_offset /\ seen = search[k].seen
  BY SearchedChunks DEF FileSearchInv, Search
<1>2. e <= size /\ size \in Nat /\ s < e
  BY <1>1, SearchedChunks DEF FileSearchInv
<1>3. /\ search[k].pc = "read" /\ s <= p /\ p < e /\ seen \subseteq Offsets(k)
      /\ Offsets(k) = s .. e - 1
      /\ ~rotated =>
           /\ \A i \in s .. e - 1 : IF i < p THEN i \in seen <=> LineStart(i)
                                     ELSE i \notin seen
           /\ LineStart(p) /\ size <= Len(file)
  BY <1>1
  DEF ReadLine, InRange, At, FileSearchInv, SearchInv, Progress, StaysInRange,
      FileInv, Reading, Offsets
<1>4. file \in Seq(Byte) /\ Len(file) \in Nat /\ p < Len(file)
  BY <1>1, LenProperties DEF FileSearchInv, TypeOK, ReadLine
<1>5. PICK q \in Nat, place \in {"read", "done"}, next \in Nat :
        /\ Examine(k, q, place, next)
        /\ \/ place = "read" /\ next = q + 1 /\ p <= q /\ NewlineAt(p, q)
           \/ place = "done" /\ NoNewline(p)
  <2>1. CASE \E q \in p .. Len(file) - 1 :
                NewlineAt(p, q) /\ Examine(k, q, "read", q + 1)
    <3>1. PICK q \in p .. Len(file) - 1 :
                NewlineAt(p, q) /\ Examine(k, q, "read", q + 1)
      BY <2>1
    <3>2. q \in Nat /\ p <= q /\ q + 1 \in Nat
      BY <1>4, <3>1
    <3> QED
      BY <3>1, <3>2
  <2>2. CASE NoNewline(p) /\ Examine(k, Len(file) - 1, "done", p)
    <3>1. Len(file) - 1 \in Nat
      BY <1>4
    <3> QED
      BY <2>2, <3>1
  <2> QED
    BY <1>1, <2>1, <2>2 DEF ReadLine
<1>6. search \in [DOMAIN tasks -> Search] /\ k \in DOMAIN tasks
  BY SearchedChunks DEF FileSearchInv
<1>7. PICK found \in Nat, total \in Nat :
        /\ search' = [search EXCEPT ![k].pc = place, ![k].currentPos = next,
                                    ![k].seen = seen \cup {p},
                                    ![k].lines_found = found,
                                    ![k].total_matches = total]
        /\ found = Smaller(total, MaxResults)
  <2>1. PICK f \in Nat, t \in Nat : /\ f = search[k].lines_found
                                    /\ t = search[k].total_matches
    BY <1>6 DEF Search
  <2>2. f = Smaller(t, MaxResults)
    BY <2>1 DEF FileSearchInv, BatchCut
  <2>3. PICK found, total :
          /\ found = IF Matches(p, q) /\ f < MaxResults THEN f + 1 ELSE f
          /\ total = IF Matches(p, q) THEN t + 1 ELSE t
    OBVIOUS
  <2>4. found \in Nat /\ total \in Nat /\ found = Smaller(total, MaxResults)
    BY <2>1, <2>2, <2>3, FileAssumption DEF Smaller
  <2>5. search' = [search EXCEPT ![k].pc = place, ![k].currentPos = next,
                                 ![k].seen = seen \cup {p},
                                 ![k].lines_found = found,
                                 ![k].total_matches = total]
    BY <1>1, <1>5, <2>1, <2>3 DEF Examine
  <2> QED
    BY <2>4, <2>5
<1>8. search' \in [DOMAIN tasks -> Search]
  BY <1>6, <1>7 DEF Search
<1>9. /\ search'[k].pc = place /\ search'[k].currentPos = next
      /\ search'[k].seen = seen \cup {p} /\ search'[k].lines_found = found
      /\ search'[k].total_matches = total
      /\ \A j \in DOMAIN search \ {k} : search'[j] = search[j]
  BY <1>6, <1>7 DEF Search
<1>10. UNCHANGED <<file, rotated, size, currentByte, tasks>>
  BY DEF ReadLine, cutting
<1>11. StaysInRange(k)'
  <2>1. place = "read" => next >= s
    BY <1>3, <1>5
  <2>2. p \in s .. e - 1
    BY <1>3
  <2>3. seen \cup {p} \subseteq Offsets(k)
    BY <1>3, <2>2
  <2> QED
    BY <1>1, <1>5, <1>9, <1>10, <2>1, <2>3 DEF StaysInRange, Offsets, Reading
<1>12. ASSUME ~rotated PROVE Progress(k)'
  <2>1. CASE place = "read"
    <3>1. next = q + 1 /\ LineStart(next) /\ \A i \in p + 1 .. q : ~LineStart(i)
      BY <1>5, <2>1, NextLine
    <3>2. \A i \in s .. e - 1 :
            IF i < next THEN i \in seen \cup {p} <=> LineStart(i)
                        ELSE i \notin seen \cup {p}
      BY <1>3, <1>5, <1>12, <2>1, <3>1
    <3> QED
      BY <1>1, <1>3, <1>9, <1>10, <2>1, <3>1, <3>2
      DEF Progress, Reading, Offsets, LineStart
  <2>2. CASE place = "done"
    <3>1. \A i \in p + 1 .. Len(file) : ~LineStart(i)
      BY <1>4, <1>5, <2>2, LastLine
    <3>2. \A i \in s .. e - 1 : i \in seen \cup {p} <=> LineStart(i)
      BY <1>2, <1>3, <1>4, <1>12, <3>1
    <3>3. seen \cup {p} = OwnLines(k)
      <4>1. p \in s .. e - 1
        BY <1>3
      <4>2. seen \cup {p} \subseteq s .. e - 1
        BY <1>3, <4>1
      <4> QED
        BY <1>3, <3>2, <4>2 DEF OwnLines
    <3>4. OwnLines(k)' = OwnLines(k)
      BY <1>10 DEF OwnLines, Offsets, LineStart
    <3> QED
      BY <1>9, <2>2, <3>3, <3>4 DEF Progress, Reading
  <2> QED
    BY <1>5, <2>1, <2>2
<1>13. search'[k].lines_found = Smaller(search'[k].total_matches, MaxResults)
  BY <1>7, <1>9
<1> QED
  BY <1>8, <1>9, <1>10, <1>11, <1>12, <1>13, OneSearch

\* A call that returns has examined every line that starts in its range.
LEMMA ReturnStep ==
    ASSUME FileSearchInv, NEW k \in DOMAIN search, Return(k)
    PROVE  FileSearchInv'
<1>1. PICK s \in Nat, p \in Nat, e \in Nat :
        /\ s = tasks[k].start_offset /\ p = search[k].currentPos
        /\ e = tasks[k].end_offset
  BY SearchedChunks DEF FileSearchInv, Search
<1>2. search[k].pc = "read" /\ GoTo(k, "done", p)
  BY <1>1 DEF Return, At
<1>3. /\ UNCHANGED <<file, rotated, size, currentByte, tasks>>
      /\ search' \in [DOMAIN tasks -> Search]
      /\ \A j \in DOMAIN search \ {k} : search'[j] = search[j]
      /\ search'[k].pc = "done" /\ search'[k].currentPos = p
      /\ search'[k].seen = search[k].seen
      /\ search'[k].lines_found
           = Smaller(search'[k].total_matches, MaxResults)
  BY <1>2, Moves
<1>4. StaysInRange(k)'
  BY <1>2, <1>3 DEF FileSearchInv, SearchInv, StaysInRange, Offsets, Reading
<1>5. ASSUME ~rotated PROVE Progress(k)'
  <2>1. ~(p < e)
    <3>1. e <= size /\ size \in Nat /\ size <= Len(file) /\ Len(file) \in Nat
      BY <1>1, <1>5, SearchedChunks, LenProperties
      DEF FileSearchInv, FileInv, TypeOK
    <3> QED
      BY <1>1, <3>1 DEF Return, InRange
  <2>2. \A i \in Offsets(k) : i \in search[k].seen <=> LineStart(i)
    BY <1>1, <1>2, <1>5, <2>1
    DEF FileSearchInv, SearchInv, Progress, Reading, Offsets
  <2>3. search[k].seen \subseteq Offsets(k)
    BY DEF FileSearchInv, SearchInv, StaysInRange
  <2>4. search[k].seen = OwnLines(k) /\ OwnLines(k)' = OwnLines(k)
    BY <1>3, <2>2, <2>3 DEF OwnLines, Offsets, LineStart
  <2> QED
    BY <1>3, <2>4 DEF Progress, Reading
<1> QED
  BY <1>3, <1>4, <1>5, OneSearch

\* What is appended to the log does not move the lines that were there.
LEMMA GrowStep ==
    ASSUME FileSearchInv, NEW b \in Byte, Grow(b)
    PROVE  FileSearchInv'
<1>1. /\ file \in Seq(Byte) /\ file' = Append(file, b) /\ ~rotated
      /\ Len(file) < MaxBytes
      /\ UNCHANGED <<rotated, size, currentByte, tasks, search>>
  BY DEF Grow, FileSearchInv, TypeOK, cutting
<1>2. PICK n \in Nat : n = Len(file)
  BY <1>1, LenProperties
<1>3. /\ file' \in Seq(Byte) /\ Len(file') = n + 1
      /\ \A i \in 1 .. n : file'[i] = file[i]
  BY <1>1, <1>2, AppendProperties
<1>4. \A j : Offsets(j)' = Offsets(j)
  BY <1>1 DEF Offsets
<1>5. TypeOK' /\ CutInv' /\ BatchCut'
  BY <1>1, <1>3, <1>4 DEF FileSearchInv, TypeOK, CutInv, BatchCut
<1>6. FileInv'
  BY <1>1, <1>2, <1>3, FileAssumption DEF FileSearchInv, FileInv, TypeOK
<1>7. ASSUME NEW k \in DOMAIN search
      PROVE  StaysInRange(k)' /\ Progress(k)'
  <2>1. /\ tasks[k].start_offset \in Nat /\ tasks[k].end_offset \in Nat
        /\ tasks[k].start_offset < tasks[k].end_offset
        /\ tasks[k].end_offset <= n /\ search[k].currentPos \in Nat
    BY <1>1, <1>2, <1>7, SearchedChunks DEF FileSearchInv, FileInv, Search
  <2>2. \A i \in 0 .. n : LineStart(i)' = LineStart(i)
    BY <1>2, <1>3 DEF LineStart
  <2>3. \A i \in Offsets(k) : LineStart(i)' = LineStart(i)
    BY <1>2, <2>1, <2>2 DEF Offsets
  <2>4. StaysInRange(k) /\ Progress(k)
    BY <1>1, <1>7 DEF FileSearchInv, SearchInv
  <2>5. StaysInRange(k)'
    BY <1>1, <1>4, <2>4 DEF StaysInRange
  <2>6. OwnLines(k)' = OwnLines(k)
    BY <1>4, <2>3 DEF OwnLines
  <2>7. /\ LineStart(tasks[k].start_offset)' = LineStart(tasks[k].start_offset)
        /\ search[k].currentPos < tasks[k].end_offset =>
              LineStart(search[k].currentPos)' = LineStart(search[k].currentPos)
    BY <1>1, <1>2, <1>3, <2>1 DEF LineStart
  <2>8. Progress(k)'
    BY <1>1, <1>4, <2>3, <2>4, <2>6, <2>7 DEF Progress, LineStart
  <2> QED
    BY <2>5, <2>8
<1> QED
  BY <1>1, <1>5, <1>6, <1>7 DEF FileSearchInv, SearchInv

\* After a rotation only the ranges keep the calls apart.
LEMMA RotateStep ==
    ASSUME FileSearchInv, NEW f \in Files, Rotate(f)
    PROVE  FileSearchInv'
<1>1. /\ file' \in Seq(Byte) /\ Len(file') \in 0 .. MaxBytes /\ rotated' = TRUE
      /\ UNCHANGED <<size, currentByte, tasks, search>>
  BY FilesAreSequences DEF Rotate, cutting
<1>2. \A j : Offsets(j)' = Offsets(j)
  BY <1>1 DEF Offsets
<1>3. TypeOK' /\ CutInv' /\ BatchCut'
  BY <1>1, <1>2 DEF FileSearchInv, TypeOK, CutInv, BatchCut
<1>4. FileInv' /\ SearchInv'
  BY <1>1, <1>2, FileAssumption
  DEF FileSearchInv, FileInv, SearchInv, StaysInRange
<1> QED
  BY <1>3, <1>4 DEF FileSearchInv

\* FileSearchInv is an invariant of the Master's cutting, of all SearchTask calls
\* and of the log's writer together.
THEOREM FileSearchInvariance == Spec => []FileSearchInv
<1>1. FileSearchInv /\ [Next]_vars => FileSearchInv'
  <2> SUFFICES ASSUME FileSearchInv, [Next]_vars
               PROVE  FileSearchInv'
    OBVIOUS
  <2>1. ASSUME NEW k \in DOMAIN search, SearchTask(k)
        PROVE  FileSearchInv'
    BY <2>1, ReturnsNothingStep, SeekStep, SkipLineStep, CompileStep,
       ReadLineStep, ReturnStep DEF SearchTask
  <2>2. CASE UNCHANGED vars
    BY <2>2
    DEF vars, FileSearchInv, TypeOK, CutInv, FileInv, SearchInv, StaysInRange,
        Progress, BatchCut, Offsets, OwnLines, LineStart
  <2> QED
    BY <2>1, <2>2, CutStep, DispatchStep, GrowStep, RotateStep DEF Next
<1> QED
  BY <1>1, FileSearchInit, PTL DEF Spec

\* TypeOK holds for every file and chunk size.
THEOREM FileSearchTypeCorrect == Spec => []TypeOK
  BY FileSearchInvariance, PTL DEF FileSearchInv

\* EnqueueFileChunks cuts any file into disjoint chunks that miss no byte.
THEOREM ChunksTileFile == Spec => []ChunksTile
<1>1. FileSearchInv => ChunksTile
  <2> SUFFICES ASSUME FileSearchInv PROVE ChunksTile
    OBVIOUS
  <2>1. /\ tasks \in Seq(Chunk) /\ size \in Nat /\ currentByte \in Nat
        /\ Len(tasks) \in Nat /\ DOMAIN tasks = 1 .. Len(tasks)
    BY LenProperties DEF FileSearchInv, TypeOK
  <2>2. \A k \in DOMAIN tasks : /\ tasks[k].start_offset \in Nat
                                /\ tasks[k].end_offset \in Nat
    <3>1. \A k \in DOMAIN tasks : tasks[k] \in Chunk
      BY <2>1, ElementOfSeq
    <3> QED
      BY <3>1 DEF Chunk
  <2>3. ASSUME NEW j \in DOMAIN tasks, NEW k \in DOMAIN tasks, j # k
        PROVE  Offsets(j) \cap Offsets(k) = {}
    <3>1. j < k \/ k < j
      BY <2>1, <2>3
    <3>2. \/ tasks[j].end_offset <= tasks[k].start_offset
          \/ tasks[k].end_offset <= tasks[j].start_offset
      BY <3>1 DEF FileSearchInv, CutInv
    <3> QED
      BY <2>2, <3>2 DEF Offsets
  <2>4. ASSUME currentByte >= size
        PROVE  UNION {Offsets(k) : k \in DOMAIN tasks} = 0 .. size - 1
    <3>1. \A k \in DOMAIN tasks : Offsets(k) \subseteq 0 .. size - 1
      BY <2>1, <2>2 DEF FileSearchInv, CutInv, Offsets
    <3>2. \A p \in 0 .. size - 1 : \E k \in DOMAIN tasks : p \in Offsets(k)
      BY <2>1, <2>4 DEF FileSearchInv, CutInv
    <3> QED
      BY <3>1, <3>2
  <2> QED
    BY <2>3, <2>4 DEF ChunksTile
<1> QED
  BY <1>1, FileSearchInvariance, PTL

\* Every call of SearchTask that was not overtaken by a rotation has examined the
\* lines that start in its range, and no others.
THEOREM OwnLinesExamined == Spec => []ExaminesOwnLines
<1>1. FileSearchInv => ExaminesOwnLines
  BY DEF FileSearchInv, SearchInv, Progress, ExaminesOwnLines
<1> QED
  BY <1>1, FileSearchInvariance, PTL

\* No two calls of SearchTask examine the same line.
THEOREM LinesExaminedOnce == Spec => []NoLineTwice
<1>1. FileSearchInv /\ ChunksTile => NoLineTwice
  <2> SUFFICES ASSUME FileSearchInv, ChunksTile,
                      NEW j \in DOMAIN search, NEW k \in DOMAIN search, j # k
               PROVE  search[j].seen \cap search[k].seen = {}
    BY DEF NoLineTwice
  <2>1. j \in DOMAIN tasks /\ k \in DOMAIN tasks
    BY SearchedChunks DEF FileSearchInv
  <2>2. Offsets(j) \cap Offsets(k) = {}
    BY <2>1 DEF ChunksTile
  <2>3. search[j].seen \subseteq Offsets(j) /\ search[k].seen \subseteq Offsets(k)
    BY DEF FileSearchInv, SearchInv, StaysInRange
  <2> QED
    BY <2>2, <2>3
<1> QED
  BY <1>1, FileSearchInvariance, ChunksTileFile, PTL

\* Once all calls of SearchTask are done, every line of the scanned file has been
\* examined.
THEOREM EveryLineExamined == Spec => []AllLinesExamined
<1>1. FileSearchInv /\ ChunksTile /\ ExaminesOwnLines => AllLinesExamined
  <2> SUFFICES ASSUME FileSearchInv, ChunksTile, ExaminesOwnLines,
                      search # <<>>, ~rotated,
                      \A k \in DOMAIN search : search[k].pc = "done"
               PROVE  UNION {search[k].seen : k \in DOMAIN search}
                        = {p \in 0 .. size - 1 : LineStart(p)}
    BY DEF AllLinesExamined
  <2>1. DOMAIN search = DOMAIN tasks /\ currentByte >= size
    BY DEF FileSearchInv, TypeOK, CutInv
  <2>2. \A k \in DOMAIN tasks : search[k].seen = OwnLines(k)
    BY <2>1 DEF ExaminesOwnLines
  <2>3. UNION {Offsets(k) : k \in DOMAIN tasks} = 0 .. size - 1
    BY <2>1 DEF ChunksTile
  <2> QED
    BY <2>1, <2>2, <2>3 DEF OwnLines
<1> QED
  BY <1>1, FileSearchInvariance, ChunksTileFile, OwnLinesExamined, PTL

\* The batch of every SearchTask call is its matches, cut at max_results.
THEOREM BatchesCut == Spec => []BatchCut
  BY FileSearchInvariance, PTL DEF FileSearchInv

-----------------------------------------------------------------------------
(***************************************************************************)
(* What is counted.                                                        *)
(***************************************************************************)
Found(k, n) == {p \in search[k].seen : LineMatches(p, n)}

\* A call has counted the lines it examined that match, as far as it could see
\* them: at least as far as the file was scanned, at most as far as it is now.
CountInv ==
    ~rotated =>
      \A k \in DOMAIN search :
         /\ Cardinality(Found(k, size)) <= search[k].total_matches
         /\ search[k].total_matches <= Cardinality(Found(k, Len(file)))

LEMMA SeenFinite ==
    ASSUME FileSearchInv, NEW k \in DOMAIN search
    PROVE  /\ search[k].seen \subseteq 0 .. size - 1 /\ search[k].seen \subseteq Nat
           /\ IsFiniteSet(search[k].seen) /\ size \in Nat
           /\ search[k].total_matches \in Nat
           /\ \A S \in SUBSET search[k].seen : IsFiniteSet(S) /\ Cardinality(S) \in Nat
<1>1. /\ size \in Nat /\ tasks[k].start_offset \in Nat /\ tasks[k].end_offset \in Nat
      /\ tasks[k].end_offset <= size /\ search[k] \in Search
  BY SearchedChunks DEF FileSearchInv
<1>2. search[k].seen \subseteq Offsets(k)
  BY DEF FileSearchInv, SearchInv, StaysInRange
<1>3. Offsets(k) \subseteq 0 .. size - 1
  BY <1>1 DEF Offsets
<1>4. IsFiniteSet(0 .. size - 1)
  BY <1>1, FS_Interval
<1>5. \A S \in SUBSET search[k].seen : IsFiniteSet(S) /\ Cardinality(S) \in Nat
  <2> TAKE S \in SUBSET search[k].seen
  <2>1. S \in SUBSET (0 .. size - 1)
    BY <1>2, <1>3
  <2>2. IsFiniteSet(S)
    BY <1>4, <2>1, FS_Subset
  <2> QED
    BY <2>2, FS_CardinalityType
<1>6. search[k].total_matches \in Nat
  BY <1>1 DEF Search
<1> QED
  BY <1>1, <1>2, <1>3, <1>5, <1>6

\* The more of a line is seen, the more it matches.
LEMMA SeesMore ==
    ASSUME NEW p \in Nat, NEW n \in Nat, NEW m \in Nat, n <= m, LineMatches(p, n)
    PROVE  LineMatches(p, m)
<1>1. \A i \in p .. n - 1 : i \in p .. m - 1
  OBVIOUS
<1> QED
  BY <1>1 DEF LineMatches

\* Steps that examine nothing and leave the file alone.
LEMMA CountsStay ==
    ASSUME CountInv, UNCHANGED <<file, rotated, size>>, DOMAIN search' = DOMAIN search,
           \A k \in DOMAIN search : /\ search'[k].seen = search[k].seen
                                    /\ search'[k].total_matches = search[k].total_matches
    PROVE  CountInv'
<1>1. \A p, n : LineMatches(p, n)' = LineMatches(p, n)
  BY DEF LineMatches
<1>2. \A k \in DOMAIN search : /\ Found(k, size)' = Found(k, size)
                               /\ Found(k, Len(file))' = Found(k, Len(file))
  BY <1>1 DEF Found
<1> QED
  BY <1>2 DEF CountInv

LEMMA MovesCounts ==
    ASSUME FileSearchInv, CountInv, NEW k \in DOMAIN search,
           \/ ReturnsNothing(k) \/ Seek(k) \/ SkipLine(k) \/ Compile(k) \/ Return(k)
    PROVE  CountInv'
<1>1. search \in [DOMAIN tasks -> Search] /\ k \in DOMAIN tasks
  BY SearchedChunks DEF FileSearchInv
<1>2. \/ search' = [search EXCEPT ![k].pc = "failed"]
      \/ \E place, p : search' = [search EXCEPT ![k].pc = place, ![k].currentPos = p]
  BY DEF ReturnsNothing, Seek, SkipLine, Compile, Return, GoTo
<1>3. UNCHANGED <<file, rotated, size>>
  BY DEF ReturnsNothing, Seek, SkipLine, Compile, Return, GoTo, cutting
<1> DEFINE Kept(j) == /\ search'[j].seen = search[j].seen
                      /\ search'[j].total_matches = search[j].total_matches
<1>4. DOMAIN search' = DOMAIN search /\ \A j \in DOMAIN search : Kept(j)
  <2>1. CASE search' = [search EXCEPT ![k].pc = "failed"]
    BY <1>1, <2>1 DEF Search
  <2>2. ASSUME NEW place, NEW p,
               search' = [search EXCEPT ![k].pc = place, ![k].currentPos = p]
        PROVE  DOMAIN search' = DOMAIN search /\ \A j \in DOMAIN search : Kept(j)
    BY <1>1, <2>2 DEF Search
  <2> QED
    BY <1>2, <2>1, <2>2
<1> QED
  BY <1>3, <1>4, CountsStay

\* The line that is read matches if and only if a byte of it does.
LEMMA LineRead ==
    ASSUME file \in Seq(Byte), NEW p \in Nat, NEW q \in Nat,
           \/ p <= q /\ q < Len(file) /\ NewlineAt(p, q)
           \/ NoNewline(p) /\ q = Len(file) - 1
    PROVE  Matches(p, q) <=> LineMatches(p, Len(file))
<1>1. Len(file) \in Nat
  BY LenProperties
<1>2. CASE p <= q /\ q < Len(file) /\ NewlineAt(p, q)
  <2>1. ASSUME NEW x \in p .. q, file[x + 1] = "hit"
        PROVE  LineMatches(p, Len(file))
    <3>1. x \in p .. Len(file) - 1 /\ \A j \in p .. x - 1 : j \in p .. q - 1
      BY <1>1, <1>2
    <3> QED
      BY <1>2, <2>1, <3>1 DEF LineMatches, NewlineAt
  <2>2. ASSUME NEW x \in p .. Len(file) - 1, file[x + 1] = "hit",
               \A j \in p .. x - 1 : file[j + 1] # "nl"
        PROVE  Matches(p, q)
    <3>1. ~(q \in p .. x - 1)
      BY <1>2, <2>2 DEF NewlineAt
    <3>2. x \in p .. q
      BY <1>1, <1>2, <3>1
    <3> QED
      BY <2>2, <3>2 DEF Matches
  <2> QED
    BY <2>1, <2>2 DEF Matches, LineMatches
<1>3. CASE NoNewline(p) /\ q = Len(file) - 1
  <2>1. \A x \in p .. q : \A j \in p .. x - 1 : j \in p .. Len(file) - 1
    BY <1>1, <1>3
  <2> QED
    BY <1>3, <2>1 DEF Matches, LineMatches, NoNewline
<1> QED
  BY <1>2, <1>3

LEMMA ReadLineCounts ==
    ASSUME FileSearchInv, CountInv, NEW k \in DOMAIN search, ReadLine(k)
    PROVE  CountInv'
<1> SUFFICES ASSUME ~rotated
             PROVE  CountInv'
  BY DEF ReadLine, CountInv
<1>1. /\ search \in [DOMAIN tasks -> Search] /\ k \in DOMAIN tasks
      /\ tasks[k].start_offset \in Nat /\ tasks[k].end_offset \in Nat /\ size \in Nat
  BY SearchedChunks DEF FileSearchInv
<1>2. file \in Seq(Byte) /\ Len(file) \in Nat /\ size <= Len(file)
  BY LenProperties DEF FileSearchInv, TypeOK, FileInv
<1>3. PICK p \in Nat : p = search[k].currentPos
  BY <1>1 DEF Search
<1>4. PICK q \in Nat, place \in {"read", "done"}, next \in Nat :
        /\ Examine(k, q, place, next)
        /\ \/ p <= q /\ q < Len(file) /\ NewlineAt(p, q)
           \/ NoNewline(p) /\ q = Len(file) - 1
  <2>1. p < Len(file)
    BY <1>3 DEF ReadLine
  <2>2. /\ Len(file) - 1 \in Nat
        /\ \A q \in p .. Len(file) - 1 : /\ q \in Nat /\ q + 1 \in Nat
                                        /\ p <= q /\ q < Len(file)
    BY <1>2, <2>1
  <2> QED
    BY <1>3, <2>2 DEF ReadLine
<1>5. PICK t \in Nat, seen \in SUBSET Nat :
         t = search[k].total_matches /\ seen = search[k].seen
  BY <1>1 DEF Search
<1>6. /\ search'[k].seen = seen \cup {p}
      /\ search'[k].total_matches = IF Matches(p, q) THEN t + 1 ELSE t
      /\ DOMAIN search' = DOMAIN search
      /\ \A j \in DOMAIN search \ {k} : search'[j] = search[j]
  BY <1>1, <1>3, <1>4, <1>5 DEF Examine, Search
<1>7. p \notin seen
  <2>1. /\ search[k].pc = "read" /\ p < tasks[k].end_offset
        /\ tasks[k].start_offset <= p /\ Progress(k)
    BY <1>3 DEF ReadLine, InRange, At, FileSearchInv, SearchInv, StaysInRange, Reading
  <2>2. p \in Offsets(k)
    BY <1>1, <2>1 DEF Offsets
  <2> QED
    BY <1>3, <1>5, <2>1, <2>2 DEF Progress, Reading
<1>8. file' = file /\ size' = size /\ rotated' = rotated
  BY DEF ReadLine, cutting
<1>9. \A x, n : LineMatches(x, n)' = LineMatches(x, n)
  BY <1>8 DEF LineMatches
<1>10. ASSUME NEW n \in Nat
       PROVE  LET old == {x \in seen : LineMatches(x, n)}
                  new == {x \in seen \cup {p} : LineMatches(x, n)}
              IN  /\ Cardinality(old) \in Nat
                  /\ Cardinality(new)
                        = IF LineMatches(p, n) THEN Cardinality(old) + 1 ELSE Cardinality(old)
  <2> DEFINE old == {x \in seen : LineMatches(x, n)}
             new == {x \in seen \cup {p} : LineMatches(x, n)}
  <2>1. IsFiniteSet(old) /\ Cardinality(old) \in Nat
    <3>1. old \in SUBSET search[k].seen
      BY <1>5
    <3> QED
      BY <3>1, SeenFinite
  <2>2. CASE LineMatches(p, n)
    <3>1. new = old \cup {p} /\ p \notin old
      BY <1>7, <2>2
    <3> HIDE DEF old, new
    <3>2. Cardinality(old \cup {p}) = Cardinality(old) + 1
      BY <2>1, <3>1, FS_AddElement
    <3> QED
      BY <2>1, <2>2, <3>1, <3>2 DEF old, new
  <2>3. CASE ~LineMatches(p, n)
    <3>1. new = old
      BY <2>3
    <3> QED
      BY <2>1, <2>3, <3>1
  <2> QED
    BY <2>2, <2>3
<1>11. /\ Cardinality(Found(k, size)) <= t
       /\ t <= Cardinality(Found(k, Len(file)))
  BY <1>5 DEF CountInv
<1>12. /\ Found(k, size)' = {x \in seen \cup {p} : LineMatches(x, size)}
       /\ Found(k, Len(file))' = {x \in seen \cup {p} : LineMatches(x, Len(file))}
       /\ Found(k, size) = {x \in seen : LineMatches(x, size)}
       /\ Found(k, Len(file)) = {x \in seen : LineMatches(x, Len(file))}
  BY <1>5, <1>6, <1>8, <1>9 DEF Found
<1>13. Matches(p, q) <=> LineMatches(p, Len(file))
  BY <1>2, <1>4, LineRead
<1>14. LineMatches(p, size) => LineMatches(p, Len(file))
  BY <1>1, <1>2, SeesMore
<1>15. PICK a \in Nat, b \in Nat :
          /\ a = Cardinality(Found(k, size)) /\ b = Cardinality(Found(k, Len(file)))
          /\ Cardinality(Found(k, size)') = IF LineMatches(p, size) THEN a + 1 ELSE a
          /\ Cardinality(Found(k, Len(file))')
                = IF LineMatches(p, Len(file)) THEN b + 1 ELSE b
  BY <1>1, <1>2, <1>10, <1>12
<1>16. /\ Cardinality(Found(k, size)') <= search'[k].total_matches
       /\ search'[k].total_matches <= Cardinality(Found(k, Len(file))')
  BY <1>6, <1>11, <1>13, <1>14, <1>15
<1>17. \A j \in DOMAIN search \ {k} : /\ Found(j, size)' = Found(j, size)
                                     /\ Found(j, Len(file))' = Found(j, Len(file))
  BY <1>6, <1>8, <1>9 DEF Found
<1> QED
  BY <1>6, <1>16, <1>17 DEF CountInv

\* A file that grows keeps the bytes that were scanned, and its lines match as
\* before or more.
LEMMA GrowCounts ==
    ASSUME FileSearchInv, CountInv, NEW b \in Byte, Grow(b)
    PROVE  CountInv'
<1>1. /\ file \in Seq(Byte) /\ file' = Append(file, b) /\ ~rotated
      /\ UNCHANGED <<rotated, size, search>>
  BY DEF Grow, FileSearchInv, TypeOK, cutting
<1>2. PICK n \in Nat : n = Len(file)
  BY <1>1, LenProperties
<1>3. Len(file') = n + 1 /\ \A x \in 1 .. n : file'[x] = file[x]
  BY <1>1, <1>2, AppendProperties
<1>4. size \in Nat /\ size <= n
  BY <1>1, <1>2 DEF FileSearchInv, TypeOK, FileInv
<1>5. ASSUME NEW p \in Nat, NEW m \in 0 .. n
      PROVE  LineMatches(p, m)' <=> LineMatches(p, m)
  <2>1. \A x \in p .. m - 1 :
           file'[x + 1] = file[x + 1] /\ \A j \in p .. x - 1 : file'[j + 1] = file[j + 1]
    <3>1. \A x \in p .. m - 1 :
             x + 1 \in 1 .. n /\ \A j \in p .. x - 1 : j + 1 \in 1 .. n
      OBVIOUS
    <3> QED
      BY <1>3, <3>1
  <2> QED
    BY <2>1 DEF LineMatches
<1>6. ASSUME NEW p \in Nat, LineMatches(p, n)
      PROVE  LineMatches(p, n + 1)'
  <2>1. PICK x \in p .. n - 1 :
           file[x + 1] = "hit" /\ \A j \in p .. x - 1 : file[j + 1] # "nl"
    BY <1>6 DEF LineMatches
  <2>2. /\ x \in p .. (n + 1) - 1 /\ x + 1 \in 1 .. n
        /\ \A j \in p .. x - 1 : j + 1 \in 1 .. n
    BY <2>1
  <2> QED
    BY <1>3, <2>1, <2>2 DEF LineMatches
<1>7. ASSUME NEW k \in DOMAIN search
      PROVE  /\ Found(k, size)' = Found(k, size)
             /\ Cardinality(Found(k, Len(file))) <= Cardinality(Found(k, Len(file))')
             /\ Cardinality(Found(k, Len(file))) \in Nat
             /\ Cardinality(Found(k, Len(file))') \in Nat
  <2>1. search[k].seen \subseteq Nat
    BY SeenFinite
  <2>2. Found(k, size)' = Found(k, size)
    BY <1>1, <1>4, <1>5, <2>1 DEF Found
  <2>3. PICK old, new : old = Found(k, Len(file)) /\ new = Found(k, Len(file))'
    OBVIOUS
  <2>4. old \subseteq new /\ old \subseteq search[k].seen /\ new \subseteq search[k].seen
    <3>1. new = {p \in search[k].seen : LineMatches(p, n + 1)'}
      BY <1>1, <1>2, <1>3, <2>3 DEF Found, LineMatches
    <3>2. old = {p \in search[k].seen : LineMatches(p, n)}
      BY <1>2, <2>3 DEF Found
    <3> QED
      BY <1>6, <2>1, <3>1, <3>2
  <2>5. IsFiniteSet(new) /\ Cardinality(new) \in Nat /\ Cardinality(old) \in Nat
    BY <2>4, SeenFinite
  <2>6. Cardinality(old) <= Cardinality(new)
    BY <2>4, <2>5, FS_Subset
  <2> QED
    BY <2>2, <2>3, <2>5, <2>6
<1>8. \A k \in DOMAIN search : search[k].total_matches \in Nat
  BY SeenFinite
<1> QED
  BY <1>1, <1>7, <1>8 DEF CountInv

LEMMA DispatchCounts ==
    ASSUME Dispatch
    PROVE  CountInv'
<1>1. \A k \in DOMAIN search' : search'[k].seen = {} /\ search'[k].total_matches = 0
  BY DEF Dispatch
<1>2. Cardinality({}) = 0
  BY FS_EmptySet
<1>3. ASSUME NEW k \in DOMAIN search'
      PROVE  /\ Cardinality(Found(k, size))' <= search'[k].total_matches
             /\ search'[k].total_matches <= Cardinality(Found(k, Len(file)))'
  <2>1. Found(k, size)' = {} /\ Found(k, Len(file))' = {}
    BY <1>1 DEF Found
  <2>2. Cardinality(Found(k, size))' = 0 /\ Cardinality(Found(k, Len(file)))' = 0
    BY <1>2, <2>1
  <2> QED
    BY <1>1, <2>2
<1> QED
  BY <1>3 DEF CountInv

LEMMA StepCounts == FileSearchInv /\ CountInv /\ [Next]_vars => CountInv'
<1> SUFFICES ASSUME FileSearchInv, CountInv, [Next]_vars
             PROVE  CountInv'
  OBVIOUS
<1>1. ASSUME NEW k \in DOMAIN search, SearchTask(k)
      PROVE  CountInv'
  BY <1>1, MovesCounts, ReadLineCounts DEF SearchTask
<1>2. CASE UNCHANGED vars \/ EnqueueFileChunks
  <2>1. UNCHANGED <<file, rotated, size, search>>
    BY <1>2 DEF vars, EnqueueFileChunks
  <2> QED
    BY <2>1, CountsStay
<1>3. ASSUME NEW f \in Files, Rotate(f)
      PROVE  CountInv'
  BY <1>3 DEF Rotate, CountInv
<1> QED
  BY <1>1, <1>2, <1>3, DispatchCounts, GrowCounts DEF Next

\* What is counted of the parts is counted of the whole: n different elements of
\* each part make as many different elements of all of them.
Pairs(D, t) == UNION {{k} \X (1 .. t[k]) : k \in D}

LEMMA PairsAre ==
    ASSUME NEW D, NEW t
    PROVE  \A x : x \in Pairs(D, t) <=> \E k \in D : \E n \in 1 .. t[k] : x = <<k, n>>
  BY DEF Pairs

LEMMA IntoPart ==
    ASSUME NEW S, IsFiniteSet(S), NEW n \in Nat, n <= Cardinality(S)
    PROVE  \E f \in [1 .. n -> S] : \A a, b \in 1 .. n : f[a] = f[b] => a = b
<1>1. Cardinality(S) \in Nat /\ ExistsBijection(1 .. Cardinality(S), S)
  BY FS_CardinalityType
<1>2. PICK g \in [1 .. Cardinality(S) -> S] :
         \A a, b \in 1 .. Cardinality(S) : g[a] = g[b] => a = b
  BY <1>1 DEF ExistsBijection, Bijection, Injection, IsInjective
<1>3. \A a \in 1 .. n : a \in 1 .. Cardinality(S)
  BY <1>1
<1> DEFINE f == [a \in 1 .. n |-> g[a]]
<1>4. f \in [1 .. n -> S] /\ \A a, b \in 1 .. n : f[a] = f[b] => a = b
  BY <1>2, <1>3
<1> QED
  BY <1>4

LEMMA FromPart ==
    ASSUME NEW S, IsFiniteSet(S), NEW n \in Nat, Cardinality(S) <= n
    PROVE  \E f \in [S -> 1 .. n] : \A a, b \in S : f[a] = f[b] => a = b
<1>1. Cardinality(S) \in Nat /\ ExistsBijection(1 .. Cardinality(S), S)
  BY FS_CardinalityType
<1>2. PICK g \in [1 .. Cardinality(S) -> S] :
         \A s \in S : \E a \in 1 .. Cardinality(S) : g[a] = s
  BY <1>1 DEF ExistsBijection, Bijection, Surjection
<1>3. \A a \in 1 .. Cardinality(S) : a \in 1 .. n
  BY <1>1
<1> DEFINE f == [s \in S |-> CHOOSE a \in 1 .. Cardinality(S) : g[a] = s]
<1>4. \A s \in S : f[s] \in 1 .. Cardinality(S) /\ g[f[s]] = s
  BY <1>2
<1>5. f \in [S -> 1 .. n]
  BY <1>3, <1>4
<1>6. \A a, b \in S : f[a] = f[b] => a = b
  BY <1>4
<1> QED
  BY <1>5, <1>6

LEMMA PairsUpper ==
    ASSUME NEW D, NEW t \in [D -> Nat], NEW A, NEW B, IsFiniteSet(B),
           \A k \in D : A[k] \subseteq B /\ t[k] <= Cardinality(A[k]),
           \A j, k \in D : j # k => A[j] \cap A[k] = {}
    PROVE  IsFiniteSet(Pairs(D, t)) /\ Cardinality(Pairs(D, t)) <= Cardinality(B)
<1> DEFINE Into(k, f) == f \in [1 .. t[k] -> A[k]]
                         /\ \A a, b \in 1 .. t[k] : f[a] = f[b] => a = b
           g == [k \in D |-> CHOOSE f : Into(k, f)]
           h == [x \in Pairs(D, t) |-> g[x[1]][x[2]]]
<1>1. \A k \in D : Into(k, g[k])
  <2> SUFFICES ASSUME NEW k \in D
               PROVE  \E f : Into(k, f)
    BY Zenon
  <2>1. IsFiniteSet(A[k]) /\ t[k] \in Nat
    BY FS_Subset
  <2> QED
    BY <2>1, IntoPart
<1> HIDE DEF g
<1>2. ASSUME NEW x \in Pairs(D, t)
      PROVE  x[1] \in D /\ x[2] \in 1 .. t[x[1]] /\ x = <<x[1], x[2]>>
  <2>1. PICK k \in D : \E n \in 1 .. t[k] : x = <<k, n>>
    BY PairsAre
  <2>2. PICK n \in 1 .. t[k] : x = <<k, n>>
    BY <2>1
  <2> QED
    BY <2>1, <2>2
<1>3. ASSUME NEW x \in Pairs(D, t)
      PROVE  h[x] = g[x[1]][x[2]] /\ h[x] \in A[x[1]] /\ h[x] \in B
  BY <1>1, <1>2
<1> HIDE DEF h
<1>4. h \in [Pairs(D, t) -> B]
  BY <1>3 DEF h
<1>5. ASSUME NEW x \in Pairs(D, t), NEW y \in Pairs(D, t), h[x] = h[y]
      PROVE  x = y
  <2>1. x[1] = y[1]
    BY <1>2, <1>3, <1>5
  <2>2. x[2] = y[2]
    BY <1>1, <1>2, <1>3, <1>5, <2>1
  <2> QED
    BY <1>2, <2>1, <2>2
<1>6. h \in Injection(Pairs(D, t), B)
  BY <1>4, <1>5 DEF Injection, IsInjective
<1> QED
  BY <1>6, FS_Injection

LEMMA PairsLower ==
    ASSUME NEW D, NEW t \in [D -> Nat], NEW A, NEW B, IsFiniteSet(Pairs(D, t)),
           \A k \in D : IsFiniteSet(A[k]) /\ Cardinality(A[k]) <= t[k],
           \A p \in B : \E k \in D : p \in A[k]
    PROVE  Cardinality(B) <= Cardinality(Pairs(D, t))
<1> DEFINE From(k, f) == f \in [A[k] -> 1 .. t[k]]
                         /\ \A a, b \in A[k] : f[a] = f[b] => a = b
           g == [k \in D |-> CHOOSE f : From(k, f)]
           o == [p \in B |-> CHOOSE k \in D : p \in A[k]]
           h == [p \in B |-> <<o[p], g[o[p]][p]>>]
<1>1. \A k \in D : From(k, g[k])
  <2> SUFFICES ASSUME NEW k \in D
               PROVE  \E f : From(k, f)
    BY Zenon
  <2> QED
    BY FromPart
<1>2. \A p \in B : o[p] \in D /\ p \in A[o[p]]
  OBVIOUS
<1> HIDE DEF g, o
<1>3. ASSUME NEW p \in B
      PROVE  h[p] = <<o[p], g[o[p]][p]>> /\ h[p] \in Pairs(D, t)
  <2>1. g[o[p]][p] \in 1 .. t[o[p]]
    BY <1>1, <1>2
  <2> QED
    BY <1>2, <2>1, PairsAre
<1> HIDE DEF h
<1>4. h \in [B -> Pairs(D, t)]
  BY <1>3 DEF h
<1>5. ASSUME NEW p \in B, NEW q \in B, h[p] = h[q]
      PROVE  p = q
  <2>1. o[p] = o[q] /\ g[o[p]][p] = g[o[q]][q]
    BY <1>3, <1>5
  <2> QED
    BY <1>1, <1>2, <2>1
<1>6. h \in Injection(B, Pairs(D, t))
  BY <1>4, <1>5 DEF Injection, IsInjective
<1> QED
  BY <1>6, FS_Injection

\* The total of a search counts every line that matched when the file was scanned,
\* and no line that does not match, for every file, chunk size and growth of the file.
THEOREM TotalsExact == Spec => []TotalExact
<1>1. Init => CountInv
  BY DEF Init, CountInv
<1>2. Spec => []CountInv
  BY <1>1, StepCounts, FileSearchInvariance, PTL DEF Spec
<1>3. FileSearchInv /\ CountInv /\ NoLineTwice /\ AllLinesExamined => TotalExact
  <2> SUFFICES ASSUME FileSearchInv, CountInv, NoLineTwice, AllLinesExamined,
                      search # <<>>, ~rotated,
                      \A k \in DOMAIN search : search[k].pc = "done"
               PROVE  /\ Cardinality(MatchingLines(size)) <= Cardinality(Counted)
                      /\ Cardinality(Counted) <= Cardinality(MatchingLines(Len(file)))
    BY DEF TotalExact
  <2> DEFINE D == DOMAIN search
             t == [k \in D |-> search[k].total_matches]
             A(n) == [k \in D |-> Found(k, n)]
  <2>1. UNION {search[k].seen : k \in D} = {p \in 0 .. size - 1 : LineStart(p)}
    BY DEF AllLinesExamined
  <2>2. ASSUME NEW n
        PROVE  /\ \A k \in D : /\ A(n)[k] \subseteq MatchingLines(n)
                               /\ IsFiniteSet(A(n)[k])
               /\ \A j, k \in D : j # k => A(n)[j] \cap A(n)[k] = {}
               /\ \A p \in MatchingLines(n) : \E k \in D : p \in A(n)[k]
               /\ IsFiniteSet(MatchingLines(n))
    <3>1. \A k \in D : A(n)[k] \subseteq MatchingLines(n)
      BY <2>1 DEF Found, MatchingLines
    <3>2. \A k \in D : IsFiniteSet(A(n)[k])
      BY SeenFinite DEF Found
    <3>3. \A j, k \in D : j # k => A(n)[j] \cap A(n)[k] = {}
      BY DEF Found, NoLineTwice
    <3>4. \A p \in MatchingLines(n) : \E k \in D : p \in A(n)[k]
      BY <2>1 DEF Found, MatchingLines
    <3>5. IsFiniteSet(MatchingLines(n))
      <4>1. size \in Nat
        BY DEF FileSearchInv, TypeOK
      <4>2. IsFiniteSet(0 .. size - 1) /\ MatchingLines(n) \subseteq 0 .. size - 1
        BY <4>1, FS_Interval DEF MatchingLines
      <4> QED
        BY <4>2, FS_Subset
    <3> QED
      BY <3>1, <3>2, <3>3, <3>4, <3>5
  <2>3. /\ t \in [D -> Nat]
        /\ \A k \in D : /\ Cardinality(A(size)[k]) <= t[k]
                        /\ t[k] <= Cardinality(A(Len(file))[k])
    BY SeenFinite DEF CountInv
  <2>4. Counted = Pairs(D, t)
    BY DEF Counted, Pairs
  <2> HIDE DEF D, t, A
  <2>5. /\ IsFiniteSet(Pairs(D, t))
        /\ Cardinality(Pairs(D, t)) <= Cardinality(MatchingLines(Len(file)))
    BY <2>2, <2>3, PairsUpper
  <2>6. Cardinality(MatchingLines(size)) <= Cardinality(Pairs(D, t))
    BY <2>2, <2>3, <2>5, PairsLower
  <2> QED
    BY <2>4, <2>5, <2>6
<1> QED
  BY <1>2, <1>3, FileSearchInvariance, LinesExaminedOnce, EveryLineExamined, PTL
=============================================================================
