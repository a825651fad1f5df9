-------------------------- MODULE DirectoryScanProofs --------------------------
(***************************************************************************)
(* What a search that was accepted has searched, for every tree of files.  *)
(*                                                                         *)
(* The argument: an entry that an iterator has not come to is pending, and *)
(* so is everything below it.  No two pending entries have a node in       *)
(* common, none has a searched file below it, and as long as nothing has   *)
(* been counted in scan_errors every wanted file is searched, overlooked   *)
(* or below a pending entry.                                               *)
(***************************************************************************)
EXTENDS DirectoryScan, SequenceTheorems, TLAPS

-----------------------------------------------------------------------------
(***************************************************************************)
(* The tree.                                                               *)
(***************************************************************************)

LEMMA BelowSelf == \A n \in Node : n \in Below[n] /\ Below[n] \subseteq Node
  BY DEF Below, Closed

\* Below[n] is closed, and in every closed set that has n.
LEMMA BelowClosed ==
    ASSUME NEW n \in Node, NEW m \in Node, Parent[m] \in Below[n]
    PROVE  m \in Below[n]
  BY ScanAssumption DEF Below, Closed

LEMMA BelowLeast ==
    ASSUME NEW n \in Node, NEW S, S \subseteq Node, n \in S,
           \A m \in Node : Parent[m] \in S => m \in S
    PROVE  Below[n] \subseteq S
  BY DEF Below, Closed

\* What is below a node is the node, or in a directory below it.
LEMMA BelowParent ==
    ASSUME NEW n \in Node, NEW m \in Below[n], m # n
    PROVE  Parent[m] \in Below[n]
<1> DEFINE S == {x \in Below[n] : x = n \/ Parent[x] \in Below[n]}
<1>1. n \in S /\ S \subseteq Node
  BY BelowSelf
<1>2. \A x \in Node : Parent[x] \in S => x \in S
  BY BelowClosed
<1>3. Below[n] \subseteq S
  <2> HIDE DEF S
  <2> QED
    BY <1>1, <1>2, BelowLeast
<1> QED
  BY <1>3

LEMMA BelowTransitive ==
    ASSUME NEW n \in Node, NEW m \in Below[n]
    PROVE  Below[m] \subseteq Below[n]
<1>1. m \in Node /\ Below[n] \subseteq Node
  BY BelowSelf
<1>2. \A x \in Node : Parent[x] \in Below[n] => x \in Below[n]
  BY BelowClosed
<1> QED
  BY <1>1, <1>2, BelowLeast

LEMMA EntryFacts ==
    ASSUME NEW d \in Node, NEW e \in Entries(d)
    PROVE  /\ e \in Node /\ e # d /\ Parent[e] = d /\ Kind[d] = "directory"
           /\ Below[e] \subseteq Below[d] /\ d \notin Below[e]
<1>1. e \in Node /\ e # d /\ Parent[e] = d
  BY DEF Entries
<1>2. d \notin Below[e] /\ Kind[d] = "directory"
  BY <1>1, TreeAssumption
<1>3. e \in Below[d]
  BY <1>1, BelowSelf, BelowClosed
<1> QED
  BY <1>1, <1>2, <1>3, BelowTransitive

\* A node and what is below its entries is all that is below it.
LEMMA BelowEntries ==
    ASSUME NEW d \in Node, NEW m \in Below[d], m # d
    PROVE  \E e \in Entries(d) : m \in Below[e]
<1> DEFINE S == {d} \cup UNION {Below[e] : e \in Entries(d)}
<1>1. Entries(d) \subseteq Node
  BY DEF Entries
<1>2. d \in S /\ S \subseteq Node
  BY <1>1, BelowSelf
<1>3. ASSUME NEW x \in Node, Parent[x] \in S PROVE x \in S
  <2>1. CASE Parent[x] = d
    <3>1. x = d \/ x \in Entries(d)
      BY <2>1 DEF Entries
    <3> QED
      BY <3>1, BelowSelf
  <2>2. CASE Parent[x] # d
    <3>1. PICK e \in Entries(d) : Parent[x] \in Below[e]
      BY <1>3, <2>2
    <3>2. x \in Below[e]
      BY <1>1, <3>1, BelowClosed
    <3> QED
      BY <3>2
  <2> QED
    BY <2>1, <2>2
<1>4. Below[d] \subseteq S
  <2> HIDE DEF S
  <2> QED
    BY <1>2, <1>3, BelowLeast
<1> QED
  BY <1>4

LEMMA BelowLeaf ==
    ASSUME NEW n \in Node, Kind[n] # "directory"
    PROVE  Below[n] = {n}
<1>1. Entries(n) = {}
  BY EntryFacts
<1> QED
  BY <1>1, BelowSelf, BelowEntries

\* Two entries of a directory have nothing below them in common.
LEMMA EntriesApart ==
    ASSUME NEW d \in Node, NEW e \in Entries(d), NEW f \in Entries(d), e # f
    PROVE  Below[e] \cap Below[f] = {}
<1>1. /\ e \in Node /\ f \in Node /\ Parent[e] = d /\ Parent[f] = d
      /\ d \notin Below[e] /\ d \notin Below[f]
  BY EntryFacts
<1> DEFINE S == Below[e] \ Below[f]
<1>2. e \in S /\ S \subseteq Node
  BY <1>1, BelowSelf, BelowParent
<1>3. ASSUME NEW x \in Node, Parent[x] \in S PROVE x \in S
  <2>1. x \in Below[e]
    BY <1>1, <1>3, BelowClosed
  <2>2. x # f
    BY <1>1, <1>3
  <2>3. x \notin Below[f]
    BY <1>1, <1>3, <2>2, BelowParent
  <2> QED
    BY <2>1, <2>3
<1>4. Below[e] \subseteq S
  <2> HIDE DEF S
  <2> QED
    BY <1>1, <1>2, <1>3, BelowLeast
<1> QED
  BY <1>4

-----------------------------------------------------------------------------
(***************************************************************************)
(* The stack of calls.                                                     *)
(***************************************************************************)
Frame == [dir: Node, rest: SUBSET Node]

Frames(s) == s \in Seq(Frame) /\ \A i \in DOMAIN s : s[i].rest \subseteq Entries(s[i].dir)

\* No two pending entries have a node in common.
Apart(s) ==
    \A i, j \in DOMAIN s : \A e \in s[i].rest, f \in s[j].rest :
        (i = j /\ e = f) \/ Below[e] \cap Below[f] = {}

\* f is a pending entry or below one.
Under(s, f) == \E i \in DOMAIN s : \E e \in s[i].rest : f \in Below[e]

LEMMA PushedFrame ==
    ASSUME NEW s \in Seq(Frame), NEW x \in Frame
    PROVE  /\ <<x>> \o s \in Seq(Frame) /\ (<<x>> \o s)[1] = x
           /\ 1 \in DOMAIN (<<x>> \o s)
           /\ \A i \in DOMAIN s : /\ i + 1 \in DOMAIN (<<x>> \o s)
                                  /\ (<<x>> \o s)[i + 1] = s[i]
           /\ \A i \in DOMAIN (<<x>> \o s) : i = 1 \/ i - 1 \in DOMAIN s
           /\ DOMAIN (<<x>> \o s) \subseteq Int /\ DOMAIN s \subseteq Int
           /\ \A i \in DOMAIN s : i + 1 # 1
<1>1. /\ <<x>> \in Seq(Frame) /\ Len(<<x>>) = 1 /\ <<x>>[1] = x
  OBVIOUS
<1>2. /\ <<x>> \o s \in Seq(Frame) /\ Len(<<x>> \o s) = 1 + Len(s)
      /\ \A i \in 1 .. 1 + Len(s) :
            (<<x>> \o s)[i] = IF i <= 1 THEN <<x>>[i] ELSE s[i - 1]
  BY <1>1, ConcatProperties
<1>3. PICK n \in Nat, t \in Seq(Frame) : n = Len(s) /\ t = <<x>> \o s
  BY <1>2, LenProperties
<1>4. /\ DOMAIN s = 1 .. n /\ DOMAIN t = 1 .. 1 + n
      /\ \A i \in 1 .. 1 + n : t[i] = IF i <= 1 THEN <<x>>[i] ELSE s[i - 1]
  BY <1>2, <1>3, LenProperties
<1>5. \A i \in 1 .. n : t[i + 1] = s[i]
  <2> TAKE i \in 1 .. n
  <2>1. i + 1 \in 1 .. 1 + n /\ ~(i + 1 <= 1) /\ (i + 1) - 1 = i
    OBVIOUS
  <2> QED
    BY <1>4, <2>1
<1> QED
  BY <1>1, <1>2, <1>3, <1>4, <1>5

LEMMA PoppedFrame ==
    ASSUME NEW s \in Seq(Frame), s # <<>>
    PROVE  /\ Tail(s) \in Seq(Frame) /\ Head(s) = s[1] /\ s[1] \in Frame
           /\ 1 \in DOMAIN s
           /\ \A i \in DOMAIN Tail(s) : /\ i + 1 \in DOMAIN s /\ i + 1 # 1
                                        /\ Tail(s)[i] = s[i + 1]
           /\ \A i \in DOMAIN s : i = 1 \/ i - 1 \in DOMAIN Tail(s)
           /\ DOMAIN s \subseteq Int /\ DOMAIN Tail(s) \subseteq Int
<1>1. /\ Len(s) \in Nat /\ Len(s) >= 1 /\ DOMAIN s = 1 .. Len(s) /\ Head(s) = s[1]
      /\ Tail(s) \in Seq(Frame) /\ Len(Tail(s)) = Len(s) - 1 /\ s[1] \in Frame
      /\ DOMAIN Tail(s) = 1 .. Len(Tail(s))
  BY HeadTailProperties, EmptySeq, LenProperties, ElementOfSeq
<1>2. PICK n \in Nat : n = Len(s)
  BY <1>1
<1>3. /\ n >= 1 /\ DOMAIN s = 1 .. n /\ DOMAIN Tail(s) = 1 .. n - 1
      /\ \A i \in 1 .. n - 1 : Tail(s)[i] = s[i + 1]
  BY <1>1, <1>2
<1>4. \A i \in DOMAIN Tail(s) : i + 1 \in DOMAIN s /\ i + 1 # 1 /\ Tail(s)[i] = s[i + 1]
  BY <1>3
<1>5. /\ 1 \in DOMAIN s /\ DOMAIN s \subseteq Int /\ DOMAIN Tail(s) \subseteq Int
      /\ \A i \in DOMAIN s : i = 1 \/ i - 1 \in DOMAIN Tail(s)
  BY <1>3
<1> QED
  BY <1>1, <1>4, <1>5

\* The call on top returns: what it had not come to is no longer pending.
LEMMA Dropped ==
    ASSUME NEW s, Frames(s), Apart(s), s # <<>>
    PROVE  /\ Frames(Tail(s)) /\ Apart(Tail(s))
           /\ \A f : Under(Tail(s), f) => Under(s, f)
           /\ \A f : Under(s, f) /\ ~Under(Tail(s), f) =>
                       \E e \in Head(s).rest : f \in Below[e]
<1>1. PICK t : t = Tail(s)
  OBVIOUS
<1>2. /\ t \in Seq(Frame) /\ Head(s) = s[1] /\ DOMAIN s \subseteq Int
      /\ DOMAIN t \subseteq Int
      /\ \A i \in DOMAIN t : i + 1 \in DOMAIN s /\ t[i] = s[i + 1]
      /\ \A i \in DOMAIN s : i = 1 \/ i - 1 \in DOMAIN t
  BY <1>1, PoppedFrame DEF Frames
<1>3. Frames(t)
  BY <1>2 DEF Frames
<1>4. Apart(t)
  <2> SUFFICES ASSUME NEW i \in DOMAIN t, NEW j \in DOMAIN t,
                      NEW e \in t[i].rest, NEW f \in t[j].rest, ~(i = j /\ e = f)
               PROVE  Below[e] \cap Below[f] = {}
    BY DEF Apart
  <2>1. i + 1 = j + 1 => i = j
    BY <1>2
  <2>2. e \in s[i + 1].rest /\ f \in s[j + 1].rest /\ i + 1 \in DOMAIN s /\ j + 1 \in DOMAIN s
    BY <1>2
  <2> QED
    BY <2>1, <2>2 DEF Apart
<1>5. \A f : Under(t, f) => Under(s, f)
  BY <1>2 DEF Under
<1>6. ASSUME NEW f, Under(s, f), ~Under(t, f) PROVE \E e \in s[1].rest : f \in Below[e]
  <2>1. PICK i \in DOMAIN s : \E e \in s[i].rest : f \in Below[e]
    BY <1>6 DEF Under
  <2>11. PICK e \in s[i].rest : f \in Below[e]
    BY <2>1
  <2>2. i # 1 => i - 1 \in DOMAIN t /\ t[i - 1] = s[i]
    <3>1. i \in Int /\ (i - 1) + 1 = i
      BY <1>2
    <3> QED
      BY <1>2, <3>1
  <2> QED
    BY <1>6, <2>11, <2>2 DEF Under
<1> QED
  BY <1>1, <1>2, <1>3, <1>4, <1>5, <1>6

\* A call of ScanDirectoryRecursively: what was below e but e itself is pending.
Opening(s, e) == <<[dir |-> e, rest |-> Entries(e)]>> \o s

LEMMA Opened ==
    ASSUME NEW s, Frames(s), Apart(s), NEW e \in Node, \A f \in Below[e] : ~Under(s, f),
           NEW t, t = Opening(s, e)
    PROVE  /\ Frames(t) /\ Apart(t)
           /\ \A f : Under(t, f) => Under(s, f) \/ f \in Below[e]
           /\ \A f : Under(s, f) \/ (f \in Below[e] /\ f # e) => Under(t, f)
<1>1. PICK x : x = [dir |-> e, rest |-> Entries(e)]
  OBVIOUS
<1>2. x \in Frame /\ x.dir = e /\ x.rest = Entries(e)
  BY <1>1 DEF Frame, Entries
<1>3. /\ t \in Seq(Frame) /\ t[1] = x /\ 1 \in DOMAIN t
      /\ \A i \in DOMAIN s : i + 1 \in DOMAIN t /\ t[i + 1] = s[i]
      /\ \A i \in DOMAIN t : i = 1 \/ i - 1 \in DOMAIN s
      /\ DOMAIN t \subseteq Int /\ DOMAIN s \subseteq Int
  BY <1>1, <1>2, PushedFrame DEF Frames, Opening
<1>31. t[1].rest = Entries(e)
  BY <1>2, <1>3
<1>4. \A i \in DOMAIN t : i # 1 => i - 1 \in DOMAIN s /\ t[i] = s[i - 1]
  <2> SUFFICES ASSUME NEW i \in DOMAIN t, i # 1
               PROVE  i - 1 \in DOMAIN s /\ t[i] = s[i - 1]
    OBVIOUS
  <2>1. i \in Int /\ i - 1 \in DOMAIN s /\ (i - 1) + 1 = i
    BY <1>3
  <2> QED
    BY <1>3, <2>1
<1>5. Frames(t)
  <2> SUFFICES ASSUME NEW i \in DOMAIN t PROVE t[i].rest \subseteq Entries(t[i].dir)
    BY <1>3 DEF Frames
  <2>1. CASE i = 1
    BY <1>2, <1>3, <2>1
  <2>2. CASE i # 1
    <3>1. PICK j \in DOMAIN s : t[i] = s[j]
      BY <1>4, <2>2
    <3> QED
      BY <3>1 DEF Frames
  <2> QED
    BY <2>1, <2>2
<1>6. \A d \in Entries(e) : d \in Node /\ Below[d] \subseteq Below[e]
  BY EntryFacts
<1>7. Apart(t)
  <2> SUFFICES ASSUME NEW i \in DOMAIN t, NEW j \in DOMAIN t,
                      NEW d \in t[i].rest, NEW f \in t[j].rest, ~(i = j /\ d = f)
               PROVE  Below[d] \cap Below[f] = {}
    BY DEF Apart
  <2>1. CASE i = 1 /\ j = 1
    BY <1>31, <2>1, EntriesApart
  <2>2. CASE i = 1 /\ j # 1
    <3>1. Below[d] \subseteq Below[e]
      BY <1>31, <1>6, <2>2
    <3>2. \A m \in Below[f] : Under(s, m)
      <4>1. PICK k \in DOMAIN s : t[j] = s[k]
        BY <1>4, <2>2
      <4> QED
        BY <4>1 DEF Under
    <3> QED
      BY <3>1, <3>2
  <2>3. CASE i # 1 /\ j = 1
    <3>1. Below[f] \subseteq Below[e]
      BY <1>31, <1>6, <2>3
    <3>2. \A m \in Below[d] : Under(s, m)
      <4>1. PICK k \in DOMAIN s : t[i] = s[k]
        BY <1>4, <2>3
      <4> QED
        BY <4>1 DEF Under
    <3> QED
      BY <3>1, <3>2
  <2>4. CASE i # 1 /\ j # 1
    <3>1. i - 1 = j - 1 => i = j
      BY <1>3
    <3>2. /\ i - 1 \in DOMAIN s /\ j - 1 \in DOMAIN s
          /\ d \in s[i - 1].rest /\ f \in s[j - 1].rest
      BY <1>4, <2>4
    <3> QED
      BY <3>1, <3>2 DEF Apart
  <2> QED
    BY <2>1, <2>2, <2>3, <2>4
<1>8. ASSUME NEW f, Under(t, f) PROVE Under(s, f) \/ f \in Below[e]
  <2>1. PICK i \in DOMAIN t : \E d \in t[i].rest : f \in Below[d]
    BY <1>8 DEF Under
  <2>11. PICK d \in t[i].rest : f \in Below[d]
    BY <2>1
  <2>2. CASE i = 1
    BY <1>2, <1>3, <1>6, <2>11, <2>2
  <2>3. CASE i # 1
    BY <1>4, <2>11, <2>3 DEF Under
  <2> QED
    BY <2>2, <2>3
<1>9. ASSUME NEW f, Under(s, f) PROVE Under(t, f)
  BY <1>3, <1>9 DEF Under
<1>10. ASSUME NEW f, f \in Below[e], f # e PROVE Under(t, f)
  <2>1. PICK d \in Entries(e) : f \in Below[d]
    BY <1>10, BelowEntries
  <2> QED
    BY <1>2, <1>3, <2>1 DEF Under
<1> QED
  BY <1>5, <1>7, <1>8, <1>9, <1>10

\* The iterator on top goes on from e: exactly what is below e is no longer pending.
Passing(s, e) == <<[dir |-> Head(s).dir, rest |-> Head(s).rest \ {e}]>> \o Tail(s)

LEMMA Passed ==
    ASSUME NEW s, Frames(s), Apart(s), s # <<>>, NEW e, e \in Head(s).rest,
           NEW t, t = Passing(s, e)
    PROVE  /\ Frames(t) /\ Apart(t) /\ e \in Node
           /\ \A f \in Below[e] : Under(s, f) /\ ~Under(t, f)
           /\ \A f : Under(t, f) => Under(s, f)
           /\ \A f : Under(s, f) => Under(t, f) \/ f \in Below[e]
<1>1. PICK x : x = [dir |-> Head(s).dir, rest |-> Head(s).rest \ {e}]
  OBVIOUS
<1>2. /\ Tail(s) \in Seq(Frame) /\ Head(s) = s[1] /\ s[1] \in Frame /\ 1 \in DOMAIN s
      /\ \A i \in DOMAIN Tail(s) : i + 1 \in DOMAIN s /\ i + 1 # 1
                                   /\ Tail(s)[i] = s[i + 1]
      /\ \A i \in DOMAIN s : i = 1 \/ i - 1 \in DOMAIN Tail(s)
      /\ DOMAIN s \subseteq Int
  BY PoppedFrame DEF Frames
<1>3. x \in Frame /\ x.dir = s[1].dir /\ x.rest = s[1].rest \ {e}
  BY <1>1, <1>2 DEF Frame
<1>4. /\ t \in Seq(Frame) /\ t[1] = x /\ 1 \in DOMAIN t
      /\ \A i \in DOMAIN Tail(s) : i + 1 \in DOMAIN t /\ t[i + 1] = Tail(s)[i]
      /\ \A i \in DOMAIN t : i = 1 \/ i - 1 \in DOMAIN Tail(s)
      /\ DOMAIN t \subseteq Int
  BY <1>1, <1>2, <1>3, PushedFrame DEF Passing
<1>5. \A i \in DOMAIN s : i \in DOMAIN t /\ (i # 1 => t[i] = s[i])
  <2> TAKE i \in DOMAIN s
  <2>1. CASE i = 1
    BY <1>4, <2>1
  <2>2. CASE i # 1
    <3>1. i \in Int /\ i - 1 \in DOMAIN Tail(s)
      BY <1>2, <2>2
    <3>2. (i - 1) + 1 \in DOMAIN t /\ t[(i - 1) + 1] = s[(i - 1) + 1]
      BY <1>2, <1>4, <3>1
    <3> QED
      BY <3>1, <3>2
  <2> QED
    BY <2>1, <2>2
<1>6. \A i \in DOMAIN t : i \in DOMAIN s
  <2> TAKE i \in DOMAIN t
  <2>1. CASE i = 1
    BY <1>2, <2>1
  <2>2. CASE i # 1
    <3>1. i \in Int /\ i - 1 \in DOMAIN Tail(s)
      BY <1>4, <2>2
    <3>2. (i - 1) + 1 \in DOMAIN s
      BY <1>2, <3>1
    <3> QED
      BY <3>1, <3>2
  <2> QED
    BY <2>1, <2>2
<1>7. \A i \in DOMAIN t : \A d \in t[i].rest : d \in s[i].rest /\ ~(i = 1 /\ d = e)
  BY <1>3, <1>4, <1>5, <1>6
<1>8. \A i \in DOMAIN s : \A d \in s[i].rest : (i = 1 /\ d = e) \/ d \in t[i].rest
  BY <1>3, <1>4, <1>5
<1>9. Frames(t)
  BY <1>3, <1>4, <1>5, <1>6 DEF Frames
<1>10. Apart(t)
  BY <1>6, <1>7 DEF Apart
<1>11. e \in Node
  BY <1>2 DEF Frame
<1>12. \A f \in Below[e] : Under(s, f)
  BY <1>2 DEF Under
<1>13. ASSUME NEW f, Under(t, f) PROVE Under(s, f) /\ f \notin Below[e]
  <2>1. PICK i \in DOMAIN t : \E d \in t[i].rest : f \in Below[d]
    BY <1>13 DEF Under
  <2>11. PICK d \in t[i].rest : f \in Below[d]
    BY <2>1
  <2>2. i \in DOMAIN s /\ d \in s[i].rest /\ ~(i = 1 /\ d = e)
    BY <1>6, <1>7
  <2>3. Below[d] \cap Below[e] = {}
    BY <1>2, <2>2 DEF Apart
  <2> QED
    BY <2>11, <2>2, <2>3 DEF Under
<1>14. ASSUME NEW f, Under(s, f) PROVE Under(t, f) \/ f \in Below[e]
  BY <1>5, <1>8, <1>14 DEF Under
<1> QED
  BY <1>9, <1>10, <1>11, <1>12, <1>13, <1>14

-----------------------------------------------------------------------------
(***************************************************************************)
(* The inductive invariant.                                                *)
(***************************************************************************)
Searched(tasks, f) == \E k \in DOMAIN tasks : tasks[k] = f
Distinct(tasks) == \A i, j \in DOMAIN tasks : tasks[i] = tasks[j] => i = j

\* The calls under way are those of one scan, inside the input directory.
ShapeInv ==
    /\ target \in Node /\ newTasks \in Seq(Node) /\ overlooked \subseteq Node
    /\ scan_errors \in Nat /\ result \in {"checks", "scan", "throws", "accepted"}
    /\ Frames(stack) /\ Apart(stack)
    /\ stack # <<>> => result = "scan"
    /\ result = "checks" => scan_errors = 0
    /\ IF result \in {"scan", "accepted"} THEN target \in Below[Base] ELSE newTasks = <<>>

\* A file that is cut into tasks is no longer pending.
TasksInv ==
    /\ Distinct(newTasks)
    /\ \A f : Searched(newTasks, f) => f \in Below[target] /\ ~Under(stack, f)
    /\ \A f : Under(stack, f) => f \in Below[target]

\* What is not counted is searched, overlooked or pending.
CoverInv ==
    result \in {"scan", "accepted"} /\ scan_errors = 0 =>
        \A f \in Wanted : Searched(newTasks, f) \/ f \in Overlooked \/ Under(stack, f)

DoneInv == result = "accepted" /\ newTasks = <<>> => scan_errors = 0

ScanInv == ShapeInv /\ TasksInv /\ CoverInv /\ DoneInv

LEMMA NothingUnder == Frames(<<>>) /\ Apart(<<>>) /\ \A f : ~Under(<<>>, f)
<1>1. <<>> \in Seq(Frame) /\ DOMAIN <<>> = {}
  BY EmptySeq
<1> QED
  BY <1>1 DEF Frames, Apart, Under

LEMMA NothingSearched == <<>> \in Seq(Node) /\ Distinct(<<>>) /\ \A f : ~Searched(<<>>, f)
<1>1. <<>> \in Seq(Node) /\ DOMAIN <<>> = {}
  BY EmptySeq
<1> QED
  BY <1>1 DEF Distinct, Searched

LEMMA OneMore ==
    ASSUME NEW s \in Seq(Node), NEW e \in Node
    PROVE  /\ Append(s, e) \in Seq(Node) /\ Append(s, e) # <<>>
           /\ \A f : Searched(Append(s, e), f) <=> Searched(s, f) \/ f = e
           /\ Distinct(s) /\ ~Searched(s, e) => Distinct(Append(s, e))
<1>1. /\ DOMAIN s = 1 .. Len(s) /\ Len(s) \in Nat /\ Append(s, e) \in Seq(Node)
      /\ DOMAIN Append(s, e) = 1 .. Len(s) + 1
      /\ \A i \in 1 .. Len(s) : Append(s, e)[i] = s[i]
      /\ Append(s, e)[Len(s) + 1] = e
  BY AppendProperties
<1>2. PICK n \in Nat, a \in Seq(Node) : n = Len(s) /\ a = Append(s, e)
  BY <1>1
<1>3. /\ DOMAIN s = 1 .. n /\ DOMAIN a = 1 .. n + 1 /\ a[n + 1] = e
      /\ \A i \in 1 .. n : a[i] = s[i]
  BY <1>1, <1>2
<1>4. /\ n + 1 \in DOMAIN a /\ \A i \in DOMAIN s : i \in DOMAIN a
      /\ \A i \in DOMAIN a : i \in DOMAIN s \/ i = n + 1
  BY <1>3
<1>5. \A f : Searched(a, f) <=> Searched(s, f) \/ f = e
  BY <1>3, <1>4 DEF Searched
<1>6. Distinct(s) /\ ~Searched(s, e) => Distinct(a)
  BY <1>3, <1>4 DEF Searched, Distinct
<1>7. a # <<>>
  BY <1>4, EmptySeq
<1> QED
  BY <1>1, <1>2, <1>5, <1>6, <1>7

-----------------------------------------------------------------------------
\* The loop has been at e, without a call for it: its task is added, or not; what
\* was wanted below it is the task, is overlooked or is counted as an error.
LEMMA EntryDone ==
    ASSUME ScanInv, NEW e \in Listed, stack' = After(e), UNCHANGED <<target, result>>,
           overlooked \subseteq overlooked', overlooked' \subseteq Node,
           scan_errors' \in {scan_errors, scan_errors + 1},
           newTasks' = newTasks \/ newTasks' = Append(newTasks, e),
           scan_errors' = scan_errors =>
              \A f \in Below[e] : Kind[f] \in {"file", "long"} =>
                  Searched(newTasks', f) \/ f \in Overlooked'
    PROVE  ScanInv'
<1>1. stack # <<>> /\ e \in Head(stack).rest /\ result = "scan"
  BY DEF Listed, ScanInv, ShapeInv
<1>2. /\ Frames(stack') /\ Apart(stack') /\ e \in Node
      /\ \A f \in Below[e] : Under(stack, f) /\ ~Under(stack', f)
      /\ \A f : Under(stack', f) => Under(stack, f)
      /\ \A f : Under(stack, f) => Under(stack', f) \/ f \in Below[e]
  <2>1. Frames(stack) /\ Apart(stack)
    BY DEF ScanInv, ShapeInv
  <2>2. stack' = Passing(stack, e)
    BY <1>1 DEF After, Listed, Passing
  <2> QED
    BY <1>1, <2>1, <2>2, Passed
<1>3. e \in Below[e] /\ Under(stack, e) /\ ~Under(stack', e) /\ e \in Below[target]
      /\ ~Searched(newTasks, e)
  BY <1>2, BelowSelf DEF ScanInv, TasksInv
<1>4. /\ newTasks' \in Seq(Node) /\ Distinct(newTasks')
      /\ \A f : Searched(newTasks, f) => Searched(newTasks', f)
      /\ \A f : Searched(newTasks', f) => Searched(newTasks, f) \/ f = e
  <2>1. newTasks \in Seq(Node) /\ Distinct(newTasks)
    BY DEF ScanInv, ShapeInv, TasksInv
  <2>2. CASE newTasks' = newTasks
    BY <2>1, <2>2
  <2>3. CASE newTasks' = Append(newTasks, e)
    BY <1>2, <1>3, <2>1, <2>3, OneMore
  <2> QED
    BY <2>2, <2>3
<1>5. ShapeInv'
  <2>1. scan_errors' \in Nat
    BY DEF ScanInv, ShapeInv
  <2> QED
    BY <1>1, <1>2, <1>4, <2>1 DEF ScanInv, ShapeInv
<1>6. TasksInv'
  BY <1>2, <1>3, <1>4 DEF ScanInv, TasksInv
<1>7. CoverInv'
  <2> SUFFICES ASSUME scan_errors' = 0, NEW f \in Wanted
               PROVE  Searched(newTasks', f) \/ f \in Overlooked' \/ Under(stack', f)
    BY DEF CoverInv, Wanted
  <2>1. scan_errors' = scan_errors /\ scan_errors = 0
    BY DEF ScanInv, ShapeInv
  <2>2. Searched(newTasks, f) \/ f \in Overlooked \/ Under(stack, f)
    BY <1>1, <2>1 DEF ScanInv, CoverInv
  <2>3. Overlooked \subseteq Overlooked'
    BY DEF Overlooked
  <2>4. f \in Below[e] => Searched(newTasks', f) \/ f \in Overlooked'
    BY <2>1 DEF Wanted
  <2> QED
    BY <1>2, <1>4, <2>2, <2>3, <2>4
<1>8. DoneInv'
  BY <1>1 DEF DoneInv
<1> QED
  BY <1>5, <1>6, <1>7, <1>8 DEF ScanInv

LEMMA EntrySteps ==
    ASSUME ScanInv, NEW e \in Listed,
           Skip(e) \/ CannotExamine(e) \/ Overlook(e) \/ ProcessSingleFile(e)
    PROVE  ScanInv'
<1>0. e \in Node /\ scan_errors \in Nat /\ newTasks \in Seq(Node) /\ overlooked \subseteq Node
  <2>1. stack # <<>> /\ e \in Head(stack).rest
    BY DEF Listed
  <2>2. Head(stack) \in Frame
    BY <2>1, PoppedFrame DEF ScanInv, ShapeInv, Frames
  <2> QED
    BY <2>1, <2>2 DEF Frame, ScanInv, ShapeInv
<1>1. scan_errors + 1 # scan_errors
  BY <1>0
<1>2. CASE Skip(e)
  <2>1. Kind[e] \in {"symlink", "other"} /\ Below[e] = {e}
    BY <1>0, <1>2, BelowLeaf DEF Skip
  <2> QED
    BY <1>0, <1>2, <2>1, EntryDone DEF Skip
<1>3. CASE CannotExamine(e)
  BY <1>0, <1>1, <1>3, EntryDone DEF CannotExamine
<1>4. CASE Overlook(e)
  <2>1. Below[e] \subseteq Overlooked'
    BY <1>4 DEF Overlook, Overlooked
  <2> QED
    BY <1>0, <1>4, <2>1, EntryDone DEF Overlook
<1>5. CASE ProcessSingleFile(e)
  <2>1. Kind[e] \in Regular => Below[e] = {e}
    BY <1>0, BelowLeaf DEF Regular
  <2>2. /\ stack' = After(e) /\ UNCHANGED <<target, result, overlooked>>
        /\ \/ scan_errors' = scan_errors + 1 /\ UNCHANGED newTasks
           \/ Kind[e] = "empty" /\ UNCHANGED <<newTasks, scan_errors>>
           \/ Kind[e] = "file" /\ newTasks' = Append(newTasks, e) /\ UNCHANGED scan_errors
    BY <1>5 DEF ProcessSingleFile
  <2>3. CASE scan_errors' = scan_errors + 1 /\ UNCHANGED newTasks
    BY <1>0, <1>1, <2>2, <2>3, EntryDone
  <2>4. CASE Kind[e] = "empty" /\ UNCHANGED <<newTasks, scan_errors>>
    BY <1>0, <2>1, <2>2, <2>4, EntryDone DEF Regular
  <2>5. CASE Kind[e] = "file" /\ newTasks' = Append(newTasks, e) /\ UNCHANGED scan_errors
    <3>1. Searched(newTasks', e)
      BY <1>0, <2>5, OneMore
    <3> QED
      BY <1>0, <2>1, <2>2, <2>5, <3>1, EntryDone DEF Regular
  <2> QED
    BY <2>2, <2>3, <2>4, <2>5
<1> QED
  BY <1>2, <1>3, <1>4, <1>5

\* A nested call: the directory cannot be opened, or its entries are pending.
LEMMA DescendStep ==
    ASSUME ScanInv, NEW e \in Listed, Descend(e)
    PROVE  ScanInv'
<1>1. /\ Kind[e] = "directory" /\ UNCHANGED <<target, newTasks, result, overlooked>>
      /\ Open(e, After(e))
  BY DEF Descend
<1>2. CASE stack' = After(e) /\ scan_errors' = scan_errors + 1
  <2>1. scan_errors + 1 # scan_errors /\ overlooked \subseteq Node
    BY DEF ScanInv, ShapeInv
  <2> QED
    BY <1>1, <1>2, <2>1, EntryDone
<1>3. CASE /\ stack' = <<[dir |-> e, rest |-> Entries(e)]>> \o After(e)
           /\ UNCHANGED scan_errors
  <2>1. stack # <<>> /\ e \in Head(stack).rest /\ result = "scan"
    BY DEF Listed, ScanInv, ShapeInv
  <2>2. PICK s : s = After(e)
    OBVIOUS
  <2>3. /\ Frames(s) /\ Apart(s) /\ e \in Node
        /\ \A f \in Below[e] : Under(stack, f) /\ ~Under(s, f)
        /\ \A f : Under(s, f) => Under(stack, f)
        /\ \A f : Under(stack, f) => Under(s, f) \/ f \in Below[e]
    <3>1. Frames(stack) /\ Apart(stack)
      BY DEF ScanInv, ShapeInv
    <3>2. s = Passing(stack, e)
      BY <2>1, <2>2 DEF After, Listed, Passing
    <3> QED
      BY <2>1, <3>1, <3>2, Passed
  <2>4. /\ Frames(stack') /\ Apart(stack')
        /\ \A f : Under(stack', f) => Under(s, f) \/ f \in Below[e]
        /\ \A f : Under(s, f) \/ (f \in Below[e] /\ f # e) => Under(stack', f)
    <3>1. stack' = Opening(s, e)
      BY <1>3, <2>2 DEF Opening
    <3> QED
      BY <2>3, <3>1, Opened
  <2>5. /\ \A f : Under(stack', f) => Under(stack, f)
        /\ \A f : Under(stack, f) => Under(stack', f) \/ f = e
    BY <2>3, <2>4
  <2>6. ShapeInv'
    BY <1>1, <1>3, <2>1, <2>4 DEF ScanInv, ShapeInv
  <2>7. TasksInv'
    BY <1>1, <2>5 DEF ScanInv, TasksInv
  <2>8. CoverInv'
    <3> SUFFICES ASSUME scan_errors = 0, NEW f \in Wanted
                 PROVE  Searched(newTasks, f) \/ f \in Overlooked \/ Under(stack', f)
      BY <1>1, <1>3 DEF CoverInv, Wanted, Overlooked
    <3>1. f # e
      BY <1>1 DEF Wanted
    <3> QED
      BY <2>1, <2>5, <3>1 DEF ScanInv, CoverInv
  <2>9. DoneInv'
    BY <1>1, <2>1 DEF DoneInv
  <2> QED
    BY <2>6, <2>7, <2>8, <2>9 DEF ScanInv
<1> QED
  BY <1>1, <1>2, <1>3 DEF Open

LEMMA ReturnSteps ==
    ASSUME ScanInv, IncrementFails \/ Return
    PROVE  ScanInv'
<1>1. /\ stack # <<>> /\ stack' = Tail(stack)
      /\ UNCHANGED <<target, newTasks, result, overlooked>>
      /\ \/ scan_errors' = scan_errors + 1
         \/ scan_errors' = scan_errors /\ Head(stack).rest = {}
  BY DEF IncrementFails, Return
<1>2. /\ Frames(stack') /\ Apart(stack')
      /\ \A f : Under(stack', f) => Under(stack, f)
      /\ Head(stack).rest = {} => \A f : Under(stack, f) => Under(stack', f)
  BY <1>1, Dropped DEF ScanInv, ShapeInv
<1>3. result = "scan" /\ scan_errors \in Nat
  BY <1>1 DEF ScanInv, ShapeInv
<1>4. ShapeInv'
  <2>1. scan_errors' \in Nat
    BY <1>1, <1>3
  <2> QED
    BY <1>1, <1>2, <1>3, <2>1 DEF ScanInv, ShapeInv
<1>5. TasksInv'
  BY <1>1, <1>2 DEF ScanInv, TasksInv
<1>6. CoverInv'
  <2> SUFFICES ASSUME scan_errors' = 0, NEW f \in Wanted
               PROVE  Searched(newTasks, f) \/ f \in Overlooked \/ Under(stack', f)
    BY <1>1 DEF CoverInv, Wanted, Overlooked
  <2>1. scan_errors = 0 /\ Head(stack).rest = {}
    BY <1>1, <1>3
  <2> QED
    BY <1>2, <1>3, <2>1 DEF ScanInv, CoverInv
<1>7. DoneInv'
  BY <1>1, <1>3 DEF DoneInv
<1> QED
  BY <1>4, <1>5, <1>6, <1>7 DEF ScanInv

-----------------------------------------------------------------------------
\* The checks of StartSearch, and the end of the scan.
LEMMA StartSteps ==
    ASSUME ScanInv, StartSearch
    PROVE  ScanInv'
<1>0. /\ Base \in Node /\ scan_errors \in Nat /\ overlooked \subseteq Node
      /\ newTasks \in Seq(Node) /\ target \in Node /\ Frames(stack) /\ Apart(stack)
      /\ result = "checks" => stack = <<>> /\ newTasks = <<>> /\ scan_errors = 0
  BY ScanAssumption DEF ScanInv, ShapeInv
<1>1. CASE Refuse
  <2>1. /\ result' = "throws" /\ result = "checks"
        /\ UNCHANGED <<target, stack, newTasks, scan_errors, overlooked>>
    BY <1>1 DEF Refuse
  <2> QED
    BY <1>0, <2>1 DEF ScanInv, ShapeInv, TasksInv, CoverInv, DoneInv
<1>2. ASSUME NEW f \in Canonical(target) PROVE f \in Below[Base] /\ f \in Node
  BY <1>0, BelowSelf DEF Canonical
<1>3. CASE SearchFile
  <2>1. PICK f \in Canonical(target) :
           /\ target' = f
           /\ \/ Kind[f] = "file" /\ newTasks' = Append(newTasks, f)
              \/ Kind[f] = "empty" /\ UNCHANGED newTasks
    BY <1>3 DEF SearchFile
  <2>2. /\ result = "checks" /\ result' = "accepted" /\ f \in Node /\ f \in Below[Base]
        /\ UNCHANGED <<stack, scan_errors, overlooked>>
        /\ stack = <<>> /\ newTasks = <<>> /\ scan_errors = 0
    BY <1>0, <1>2, <1>3 DEF SearchFile
  <2>3. Below[f] = {f}
    BY <2>1, <2>2, BelowLeaf
  <2>4. /\ newTasks' \in Seq(Node) /\ Distinct(newTasks')
        /\ \A g : Searched(newTasks', g) => g = f
        /\ Kind[f] \in {"file", "long"} => Searched(newTasks', f)
    <3>1. CASE Kind[f] = "file" /\ newTasks' = Append(newTasks, f)
      BY <2>2, <3>1, NothingSearched, OneMore
    <3>2. CASE Kind[f] = "empty" /\ UNCHANGED newTasks
      BY <2>2, <3>2, NothingSearched
    <3> QED
      BY <2>1, <3>1, <3>2
  <2>5. \A g : ~Under(stack', g)
    BY <2>2, NothingUnder
  <2>6. ShapeInv'
    BY <1>0, <2>1, <2>2, <2>4 DEF ShapeInv
  <2>7. TasksInv'
    BY <2>1, <2>3, <2>4, <2>5 DEF TasksInv
  <2>8. CoverInv'
    BY <2>1, <2>3, <2>4 DEF CoverInv, Wanted
  <2> QED
    BY <2>2, <2>6, <2>7, <2>8 DEF ScanInv, DoneInv
<1>4. CASE SearchDirectory
  <2>1. PICK d \in Canonical(target) :
           Kind[d] = "directory" /\ target' = d /\ Open(d, <<>>)
    BY <1>4 DEF SearchDirectory
  <2>2. /\ result = "checks" /\ result' = "scan" /\ d \in Node /\ d \in Below[Base]
        /\ UNCHANGED <<newTasks, overlooked>>
        /\ stack = <<>> /\ newTasks = <<>> /\ scan_errors = 0
    BY <1>0, <1>2, <1>4 DEF SearchDirectory
  <2>3. /\ Frames(stack') /\ Apart(stack') /\ scan_errors' \in Nat
        /\ \A g : Under(stack', g) => g \in Below[d]
        /\ scan_errors' = 0 => \A g \in Below[d] : g # d => Under(stack', g)
    <3>1. CASE stack' = <<>> /\ scan_errors' = scan_errors + 1
      BY <2>2, <3>1, NothingUnder
    <3>2. CASE stack' = <<[dir |-> d, rest |-> Entries(d)]>> \o <<>> /\ UNCHANGED scan_errors
      <4>1. PICK s : s = <<>>
        OBVIOUS
      <4>2. Frames(s) /\ Apart(s) /\ \A g : ~Under(s, g)
        BY <4>1, NothingUnder
      <4>3. stack' = Opening(s, d)
        BY <3>2, <4>1 DEF Opening
      <4>4. /\ Frames(stack') /\ Apart(stack')
            /\ \A f : Under(stack', f) => Under(s, f) \/ f \in Below[d]
            /\ \A f : Under(s, f) \/ (f \in Below[d] /\ f # d) => Under(stack', f)
        BY <2>2, <4>2, <4>3, Opened
      <4> QED
        BY <1>0, <2>2, <3>2, <4>2, <4>4
    <3> QED
      BY <2>1, <3>1, <3>2 DEF Open
  <2>4. \A g : ~Searched(newTasks', g)
    BY <2>2, NothingSearched
  <2>5. ShapeInv'
    BY <1>0, <2>1, <2>2, <2>3 DEF ShapeInv
  <2>6. TasksInv'
    BY <2>1, <2>2, <2>3, <2>4, NothingSearched DEF TasksInv
  <2>7. CoverInv'
    BY <2>1, <2>3 DEF CoverInv, Wanted
  <2> QED
    BY <2>2, <2>5, <2>6, <2>7 DEF ScanInv, DoneInv
<1>5. CASE FinishScan
  <2>1. /\ result = "scan" /\ stack = <<>>
        /\ result' = IF newTasks = <<>> /\ scan_errors > 0 THEN "throws" ELSE "accepted"
        /\ UNCHANGED <<target, stack, newTasks, scan_errors, overlooked>>
    BY <1>5 DEF FinishScan
  <2>2. ShapeInv'
    BY <1>0, <2>1 DEF ScanInv, ShapeInv
  <2>3. TasksInv'
    BY <2>1 DEF ScanInv, TasksInv
  <2>4. CoverInv'
    BY <2>1 DEF ScanInv, CoverInv, Wanted, Overlooked
  <2>5. DoneInv'
    BY <1>0, <2>1 DEF DoneInv
  <2> QED
    BY <2>2, <2>3, <2>4, <2>5 DEF ScanInv
<1> QED
  BY <1>1, <1>3, <1>4, <1>5 DEF StartSearch

LEMMA ScanInvInit == Init => ScanInv
  BY NothingUnder, NothingSearched
  DEF Init, ScanInv, ShapeInv, TasksInv, CoverInv, DoneInv

LEMMA ScanInvariant == Spec => []ScanInv
<1>1. ScanInv /\ [Next]_vars => ScanInv'
  <2> SUFFICES ASSUME ScanInv, [Next]_vars PROVE ScanInv'
    OBVIOUS
  <2>1. CASE UNCHANGED vars
    BY <2>1 DEF vars, ScanInv, ShapeInv, TasksInv, CoverInv, DoneInv, Wanted, Overlooked
  <2> QED
    BY <2>1, StartSteps, EntrySteps, DescendStep, ReturnSteps
    DEF Next, ScanDirectoryRecursively
<1> QED
  BY <1>1, ScanInvInit, PTL DEF Spec

-----------------------------------------------------------------------------
\* Whatever fails in StartSearch's scan, and however deep, an accepted search with
\* scan_errors = 0 searches every file below its path, but for those in a directory
\* whose is_directory error the next call has overwritten.
THEOREM NothingLostSilently == Spec => []NoSilentLoss
<1>1. ScanInv => NoSilentLoss
  <2> SUFFICES ASSUME ScanInv, result = "accepted", scan_errors = 0
               PROVE  Wanted \subseteq Range(newTasks) \cup Overlooked
    BY DEF NoSilentLoss
  <2>1. \A f : ~Under(stack, f)
    BY NothingUnder DEF ScanInv, ShapeInv
  <2> QED
    BY <2>1 DEF ScanInv, CoverInv, Searched, Range
<1> QED
  BY <1>1, ScanInvariant, PTL

\* StartSearch accepts a search without a task, which is Done at once, only when
\* there was nothing to search: with an error on the way it throws.
THEOREM DoneAtOnceIsEmpty == Spec => []DoneAtOnceMeansEmpty
<1>1. ScanInv => DoneAtOnceMeansEmpty
  <2> SUFFICES ASSUME ScanInv, result = "accepted", newTasks = <<>>
               PROVE  Wanted \subseteq Overlooked
    BY DEF DoneAtOnceMeansEmpty
  <2>1. \A f : ~Under(stack, f) /\ ~Searched(newTasks, f)
    BY NothingUnder, NothingSearched DEF ScanInv, ShapeInv
  <2> QED
    BY <2>1 DEF ScanInv, CoverInv, DoneInv
<1> QED
  BY <1>1, ScanInvariant, PTL

\* A search cuts no file into tasks twice, and none outside m_input_dir, whatever
\* the links it meets lead to.
THEOREM FilesOwnAndOnce == Spec => []OwnFilesOnce
<1>1. ScanInv => OwnFilesOnce
  <2> SUFFICES ASSUME ScanInv PROVE OwnFilesOnce
    OBVIOUS
  <2>1. \A f : Searched(newTasks, f) => f \in Below[Base]
    <3>1. CASE result \in {"scan", "accepted"}
      BY <3>1, BelowTransitive, ScanAssumption DEF ScanInv, ShapeInv, TasksInv
    <3>2. CASE result \notin {"scan", "accepted"}
      BY <3>2, NothingSearched DEF ScanInv, ShapeInv
    <3> QED
      BY <3>1, <3>2
  <2> QED
    BY <2>1 DEF ScanInv, TasksInv, Distinct, Searched, OwnFilesOnce, Range
<1> QED
  BY <1>1, ScanInvariant, PTL
=============================================================================
