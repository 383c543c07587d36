------------------------------ MODULE MCAsyncFs -------------------------------
(* A file of at most four bytes: two written as a stream, one positional    *)
(* call of two bytes, and two changes by another program.  Two jobs and two *)
(* steps of another program on file systems in which "a" is missing, a      *)
(* file, a link to "b", or a directory, and "b" is missing, a file or a     *)
(* directory.                                                               *)
EXTENDS AsyncFs

CONSTANTS j1, j2

Tree(a, ac, b) ==
  [p \in Paths |-> CASE p = "a" -> a [] p = "a/c" -> ac [] p = "b" -> b [] OTHER -> None]

const_Trees ==
  {Tree(a, None, b) :
     a \in {None, Old("file", "a", "none"), Old("link", "a", "b"), Old("dir", "a", "none")},
     b \in {None, Old("file", "b", "none"), Old("dir", "b", "none")}}
  \cup {Tree(Old("dir", "a", "none"), Old("file", "c", "none"), None)}
==============================================================================
