--------------------------- MODULE MCDirectoryScan ---------------------------
(***************************************************************************)
(* A tree with an entry of every kind, two levels of directories, a link   *)
(* out of the input directory and one to a file inside it.                 *)
(***************************************************************************)
EXTENDS DirectoryScan

CONSTANTS base, a, b, c, sub, deep, void, long, inner, outer, pipe, outside

AllNodes ==
    {base, a, b, c, sub, deep, void, long, inner, outer, pipe, outside}
TreeParent == [n \in AllNodes |->
    IF n \in {a, inner, pipe, sub} THEN base
    ELSE IF n \in {b, outer, void, deep} THEN sub
    ELSE IF n \in {c, long} THEN deep ELSE n]
TreeKind == [n \in AllNodes |->
    IF n \in {base, sub, deep} THEN "directory"
    ELSE IF n \in {inner, outer} THEN "symlink"
    ELSE CASE n = void -> "empty" [] n = long -> "long" [] n = pipe -> "other"
           [] OTHER -> "file"]
TreeLink == [n \in {inner, outer} |-> IF n = inner THEN b ELSE outside]
=============================================================================
