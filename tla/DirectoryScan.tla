---------------------------- MODULE DirectoryScan ----------------------------
(***************************************************************************)
(* How StartSearch finds the files of a search: the path checks, then      *)
(* ScanDirectoryRecursively and ProcessSingleFile, whose loop goes on      *)
(* after an error and counts it in scan_errors.                            *)
(*                                                                         *)
(* The file system is a tree.  Every call to it may fail, and a directory  *)
(* is listed in any order.  The recursion is an explicit stack: a frame is *)
(* a directory and the entries its iterator has not come to.  What an      *)
(* entry is takes three calls (is_symlink, is_directory, is_regular_file), *)
(* each of which sets ec anew, and only the error of the last one made is  *)
(* looked at: an error of is_directory may be gone at the next call.       *)
(***************************************************************************)
EXTENDS Integers, SequencesExt

CONSTANTS
    Node,           \* files, directories and links
    Base,           \* m_input_dir, a directory
    Parent,         \* the directory a node is in; a root's is itself
    Kind,           \* "file", "empty" or "long" (its path) for a regular file,
                    \* "directory", "symlink" or "other"
    Link            \* where a link leads to

Regular == {"file", "empty", "long"}

ASSUME ScanAssumption ==
    /\ IsFiniteSet(Node) /\ Base \in Node
    /\ Parent \in [Node -> Node]
    /\ Kind \in [Node -> Regular \cup {"directory", "symlink", "other"}]
    /\ Link \in [{n \in Node : Kind[n] = "symlink"} -> Node]

VARIABLES
    target,         \* the path asked for, then targetCanon
    stack,          \* the calls of ScanDirectoryRecursively under way
    newTasks,       \* the files that were cut into tasks, in order
    scan_errors,
    result,         \* "checks", "scan", "throws" or "accepted"
    overlooked      \* history: the directories Overlook passed by

vars == <<target, stack, newTasks, scan_errors, result, overlooked>>

Entries(d) == {n \in Node \ {d} : Parent[n] = d}

\* A node and everything below it: the smallest set that has the node and, with a
\* directory, what is in it.
Closed == {S \in SUBSET Node : \A m \in Node : Parent[m] \in S => m \in S}
Below == [n \in Node |-> {m \in Node : \A S \in Closed : n \in S => m \in S}]

\* It is a tree: only a directory has entries, and none is below its own entry.
ASSUME TreeAssumption ==
    \A n \in Node : Parent[n] # n =>
        Kind[Parent[n]] = "directory" /\ Parent[n] \notin Below[n]

Init ==
    /\ target \in Node
    /\ stack = <<>> /\ newTasks = <<>> /\ scan_errors = 0
    /\ result = "checks" /\ overlooked = {}

-----------------------------------------------------------------------------
(***************************************************************************)
(* The checks of StartSearch, and what follows the scan.                   *)
(***************************************************************************)

\* canonical() fails or leads out of the input directory, or there is neither a
\* directory nor a file that can be cut into tasks.
Refuse ==
    /\ result = "checks" /\ result' = "throws"
    /\ UNCHANGED <<target, stack, newTasks, scan_errors, overlooked>>

\* The canonical path, if it is one inside the input directory.
Canonical(n) ==
    {IF Kind[n] = "symlink" THEN Link[n] ELSE n} \cap Below[Base]

\* A file: an empty one is valid and adds no task.
SearchFile ==
    /\ result = "checks" /\ result' = "accepted"
    /\ \E f \in Canonical(target) :
          /\ target' = f
          /\ \/ Kind[f] = "file" /\ newTasks' = Append(newTasks, f)
             \/ Kind[f] = "empty" /\ UNCHANGED newTasks
    /\ UNCHANGED <<stack, scan_errors, overlooked>>

\* A call of ScanDirectoryRecursively, above the calls in below: it opens the
\* directory, or counts an error and returns.
Open(d, below) ==
    \/ /\ stack' = <<[dir |-> d, rest |-> Entries(d)]>> \o below
       /\ UNCHANGED scan_errors
    \/ /\ stack' = below
       /\ scan_errors' = scan_errors + 1

SearchDirectory ==
    /\ result = "checks" /\ result' = "scan"
    /\ \E d \in Canonical(target) :
          Kind[d] = "directory" /\ target' = d /\ Open(d, <<>>)
    /\ UNCHANGED <<newTasks, overlooked>>

FinishScan_AcceptsAll ==
    /\ result = "scan" /\ stack = <<>>
    /\ result' = "accepted"
    /\ UNCHANGED <<target, stack, newTasks, scan_errors, overlooked>>

\* Nothing could be searched and something failed: throw.
FinishScan ==
    /\ result = "scan" /\ stack = <<>>
    /\ result' = IF newTasks = <<>> /\ scan_errors > 0 THEN "throws" ELSE "accepted"
    /\ UNCHANGED <<target, stack, newTasks, scan_errors, overlooked>>

(***************************************************************************)
(* The loop of ScanDirectoryRecursively, for the call on top of the stack. *)
(***************************************************************************)

\* The entries the iterator has not come to, in any order, and the calls under way
\* once it has been at e.
Listed == IF stack = <<>> THEN {} ELSE Head(stack).rest
After(e) == <<[dir |-> Head(stack).dir, rest |-> Listed \ {e}]>> \o Tail(stack)

Skip_NotLinks(e) ==
    /\ stack' = After(e)
    /\ \/ Kind[e] = "other" /\ UNCHANGED newTasks
       \/ /\ Kind[e] = "symlink" /\ Kind[Link[e]] = "file"
          /\ newTasks' = Append(newTasks, Link[e])
    /\ UNCHANGED <<target, scan_errors, result, overlooked>>

\* A link, or something that is neither directory nor file.
Skip(e) ==
    /\ stack' = After(e)
    /\ Kind[e] \in {"symlink", "other"}
    /\ UNCHANGED <<target, newTasks, scan_errors, result, overlooked>>

\* is_symlink fails, or is_regular_file does when it is asked.
CannotExamine(e) ==
    /\ stack' = After(e)
    /\ scan_errors' = scan_errors + 1
    /\ UNCHANGED <<target, newTasks, result, overlooked>>

\* is_directory fails and is_regular_file says no, without an error.
Overlook(e) ==
    /\ stack' = After(e)
    /\ Kind[e] = "directory"
    /\ overlooked' = overlooked \cup {e}
    /\ UNCHANGED <<target, newTasks, scan_errors, result>>

Descend(e) ==
    /\ Open(e, After(e))
    /\ Kind[e] = "directory"
    /\ UNCHANGED <<target, newTasks, result, overlooked>>

\* ProcessSingleFile: file_size fails or the path is too long; the file is empty;
\* or it is cut into tasks.
ProcessSingleFile(e) ==
    /\ stack' = After(e)
    /\ \/ /\ Kind[e] \in Regular
          /\ scan_errors' = scan_errors + 1 /\ UNCHANGED newTasks
       \/ Kind[e] = "empty" /\ UNCHANGED <<newTasks, scan_errors>>
       \/ /\ Kind[e] = "file" /\ newTasks' = Append(newTasks, e)
          /\ UNCHANGED scan_errors
    /\ UNCHANGED <<target, result, overlooked>>

IncrementFails_NotCounted ==
    /\ stack # <<>> /\ Head(stack).rest # Entries(Head(stack).dir)
    /\ stack' = Tail(stack)
    /\ UNCHANGED <<target, newTasks, scan_errors, result, overlooked>>

\* After an entry, it.increment(ec) fails: the rest of the directory is lost.
IncrementFails ==
    /\ stack # <<>> /\ Head(stack).rest # Entries(Head(stack).dir)
    /\ stack' = Tail(stack)
    /\ scan_errors' = scan_errors + 1
    /\ UNCHANGED <<target, newTasks, result, overlooked>>

\* The iterator is at the end.
Return ==
    /\ stack # <<>> /\ Head(stack).rest = {}
    /\ stack' = Tail(stack)
    /\ UNCHANGED <<target, newTasks, scan_errors, result, overlooked>>

-----------------------------------------------------------------------------
StartSearch == Refuse \/ SearchFile \/ SearchDirectory \/ FinishScan

ScanDirectoryRecursively ==
    \/ \E e \in Listed :
          \/ Skip(e) \/ CannotExamine(e) \/ Overlook(e) \/ Descend(e)
          \/ ProcessSingleFile(e)
    \/ IncrementFails \/ Return

Next == StartSearch \/ ScanDirectoryRecursively

Spec == Init /\ [][Next]_vars

-----------------------------------------------------------------------------
(***************************************************************************)
(* Properties.                                                             *)
(***************************************************************************)

\* The files a search of target is about: empty ones have nothing to find.
Wanted == {f \in Below[target] : Kind[f] \in {"file", "long"}}
Overlooked == UNION {Below[d] : d \in overlooked}

\* scan_errors tells whether the search covers what was asked for: a search that is
\* accepted with scan_errors = 0 searches every file below the path.
ScanErrorsTell ==
    result = "accepted" /\ scan_errors = 0 => Wanted \subseteq Range(newTasks)

\* What ScanDirectoryRecursively leaves out it counts, at every call that may fail
\* and at every depth, but for a directory whose error is overwritten.
NoSilentLoss ==
    result = "accepted" /\ scan_errors = 0 =>
        Wanted \subseteq Range(newTasks) \cup Overlooked

\* A search that is accepted without a task, and so Done at once, had nothing to
\* look through: it is not one that could not read anything.
DoneAtOnceMeansEmpty ==
    result = "accepted" /\ newTasks = <<>> => Wanted \subseteq Overlooked

\* No file is searched twice, and none outside the input directory is searched,
\* although links inside it lead to its own files and out of it.
OwnFilesOnce ==
    /\ \A i, j \in DOMAIN newTasks : newTasks[i] = newTasks[j] => i = j
    /\ Range(newTasks) \subseteq Below[Base]
=============================================================================
