------------------------------- MODULE AsyncFs -------------------------------
(***************************************************************************)
(* What the runtime does on the file system, through jobs of the pool: on   *)
(* an open file (AsyncFile) or on names (AsyncPaths).  The two share no     *)
(* state, so that a behaviour is about one of them.                         *)
(***************************************************************************)
EXTENDS AsyncFile, AsyncPaths

VARIABLE subject     \* "file" or "names"

fsVars == <<subject, vars, pathsVars>>

FsInit ==
  /\ subject \in {"file", "names"}
  /\ Init
  /\ PathsInit
  /\ subject = "file" => platform = "posix" /\ tree = CHOOSE t \in Trees : TRUE
  /\ subject = "names" => ~windows /\ ~append /\ ~locking /\ file = << >> /\ other = "none"

FsNext ==
  /\ UNCHANGED subject
  /\ \/ subject = "file" /\ Next /\ UNCHANGED pathsVars
     \/ subject = "names" /\ PathsNext /\ UNCHANGED vars

FsSpec == FsInit /\ [][FsNext]_fsVars
==============================================================================
