---------------------------- MODULE MCFileSearch ----------------------------
(***************************************************************************)
(* Instances of FileSearch for TLC.                                        *)
(***************************************************************************)
EXTENDS FileSearch

\* A line without "hit" is an empty line: a third kind of byte would only
\* repeat cases.
NewlineAndHit == {"nl", "hit"}
=============================================================================
