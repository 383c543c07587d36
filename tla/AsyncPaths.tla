------------------------------ MODULE AsyncPaths ------------------------------
(***************************************************************************)
(* The jobs of the runtime that work on names of the file system: open,    *)
(* query (kind, times, access and canonical path), remove, rename, symlink,*)
(* mkdir and rmdir (thread_pool.c, fs.mbt, dir.mbt).  Each runs in a worker*)
(* thread as the sequence of system calls of its platform, while the other *)
(* job and another program change the same names between any two of them;  *)
(* any call may fail.  The calls themselves are those of a small file      *)
(* system: what each needs of the names, and what it does to them.         *)
(***************************************************************************)
EXTENDS Integers

CONSTANTS
  Jobs,
  Trees,       \* the file systems the jobs may find
  MaxOthers    \* steps of the other program

\* Two names, and one inside each when it is a directory.
Tops == {"a", "b"}
Inside == [a |-> "a/c", b |-> "b/c"]
Children == {Inside[t] : t \in Tops}
Paths == Tops \cup Children
Parent(p) == CHOOSE t \in Tops : Inside[t] = p

\* An entry: who made it and as what, its kind, and where a link points.  A
\* "dirlink" is a Windows link or junction to a directory.
Entry(by, as, kind, to) == [id |-> [by |-> by, as |-> as], kind |-> kind, to |-> to]
Nobody == [by |-> "nobody", as |-> "none"]
None == [id |-> Nobody, kind |-> "none", to |-> "none"]

Old(kind, as, to) == Entry("old", as, kind, to)

\* Every path has its entry, and what has something inside is a directory.
TreeOK(t) ==
  /\ DOMAIN t = Paths
  /\ \A p \in Paths : DOMAIN t[p] = DOMAIN None
  /\ \A p \in Tops : t[Inside[p]] # None => t[p].kind = "dir"

ASSUME PathsAssumption ==
  /\ MaxOthers \in Nat
  /\ \A t \in Trees : TreeOK(t)

VARIABLES
  platform,  \* "windows" or "posix"
  tree,      \* the entry at each path
  job,       \* per job: its operation, its next call, its handle and its outcome
  others     \* steps the other program took

pathsVars == <<platform, tree, job, others>>
Windows == platform = "windows"

Op(kind, path, new, flag) == [kind |-> kind, path |-> path, new |-> new, flag |-> flag]

Ops ==
  {Op("open", p, "none", f) : p \in Tops, f \in {"existing", "create", "new"}}
  \cup {Op(k, p, "none", f) : k \in {"kind", "times"}, p \in Tops, f \in {"follow", "nofollow"}}
  \cup {Op(k, p, "none", "follow") : k \in {"access", "realpath"}, p \in Tops}
  \cup {Op(k, p, "none", "none") : k \in {"remove", "rmdir"}, p \in {"a", "a/c"}}
  \cup {Op("rename", pq[1], pq[2], f) :
          pq \in {<<"a", "b">>, <<"b", "a">>, <<"a/c", "b">>}, f \in {"replace", "keep"}}
  \cup {Op("symlink", "a", "b", f) : f \in {"force", "relative", "absolute"}}
  \cup {Op("mkdir", p, "none", f) : p \in {"a", "a/c"}, f \in {"plain", "recursive"}}

Unsubmitted ==
  [op |-> Op("none", "none", "none", "none"), pc |-> "new", held |-> Nobody, alone |-> FALSE,
   then |-> "none", did |-> {}, left |-> FALSE, ok |-> FALSE]

PathsInit ==
  /\ platform \in {"windows", "posix"}
  /\ tree \in Trees
  /\ job = [j \in Jobs |-> Unsubmitted]
  /\ others = 0

------------------------------------------------------------------------------
(* The file system. *)

Reachable(p) == p \in Children => tree[Parent(p)].kind = "dir"
Free(p) == Reachable(p) /\ tree[p] = None
Empty(p) == p \in Tops => tree[Inside[p]] = None

\* Somebody has the entry open and shares it with nobody (Windows).
Locked(p) == \E k \in Jobs : job[k].alone /\ job[k].held = tree[p].id

\* A handle that is not shared cannot be had while another can read, write or delete.
OpensAlone(p) ==
  /\ tree[p] # None
  /\ \A k \in Jobs : job[k].held = tree[p].id => job[k].op.kind \in {"kind", "times", "realpath"}

\* What a call that follows links finds at p.
Followed(p) == IF tree[p].kind \in {"link", "dirlink"} THEN tree[p].to ELSE p

Put(p, e) == tree' = [tree EXCEPT ![p] = e]
Drop(p) == tree' = [tree EXCEPT ![p] = None]

\* An entry goes from p to q, a directory with what is in it.
Moved(p, q) ==
  IF p = q THEN tree ELSE
  [x \in Paths |->
     CASE x = q -> tree[p]
       [] x = p -> None
       [] x \in Children /\ Parent(x) = q /\ p \in Tops -> tree[Inside[p]]
       [] x \in Children /\ Parent(x) = p -> None
       [] OTHER -> tree[x]]

\* unlink and DeleteFileW; rmdir and RemoveDirectoryW.
Unlinks(p) == tree[p].kind \in {"file", "link"} /\ ~Locked(p)
RemovesDirectory(p) ==
  /\ (tree[p].kind = "dir" /\ Empty(p)) \/ (tree[p].kind = "dirlink" /\ Windows)
  /\ ~Locked(p)

\* A file or a link replaces one; a directory replaces an empty one, not on Windows.
Replaces(p, q) ==
  \/ tree[p].kind \in {"file", "link"} /\ tree[q].kind \in {"file", "link"}
  \/ tree[p].kind = "dir" /\ tree[q].kind = "dir" /\ Empty(q) /\ ~Windows

\* Mutation: the flag that forbids to replace is not passed on.
RenamesAnyway(p, q, flag) ==
  /\ tree[p] # None /\ Reachable(q) /\ ~Locked(p) /\ ~Locked(q)
  /\ p = q \/ tree[q] = None \/ Replaces(p, q)

\* rename, SetFileInformationByHandle and MoveFileExW take the entry at p to q.
Renames(p, q, flag) ==
  /\ tree[p] # None /\ Reachable(q) /\ ~Locked(p) /\ ~Locked(q)
  /\ p = q \/ tree[q] = None \/ (flag = "replace" /\ Replaces(p, q))

------------------------------------------------------------------------------
(* A job. *)

Doing(j, kind, pc) == job[j].op.kind = kind /\ job[j].pc = pc
Path(j) == job[j].op.path
Flag(j) == job[j].op.flag

Go(j, pc) == job' = [job EXCEPT ![j].pc = pc]
GoWith(j, pc, id) == job' = [job EXCEPT ![j].pc = pc, ![j].held = id]

\* The worker function returns, with err or without.
Succeeds(j, did) == job' = [job EXCEPT ![j].pc = "done", ![j].ok = TRUE, ![j].did = @ \cup did]
Errs(j) == job' = [job EXCEPT ![j].pc = "done", ![j].held = Nobody, ![j].alone = FALSE]
Fails(j) == Errs(j) /\ UNCHANGED tree

Submit(j) ==
  /\ job[j].pc = "new"
  /\ \E o \in Ops : job' = [job EXCEPT ![j].op = o, ![j].pc = "call"]
  /\ UNCHANGED <<platform, tree, others>>

\* open_job_worker: open or CreateFileW, then the file's information by handle.
OpenCall(j) ==
  /\ Doing(j, "open", "call")
  /\ LET p == Followed(Path(j)) IN
     \/ /\ Reachable(p) /\ tree[p].kind \in {"file", "dir"} /\ ~Locked(p) /\ Flag(j) # "new"
        /\ GoWith(j, "stat", tree[p].id)
        /\ UNCHANGED tree
     \/ /\ Free(p) /\ Flag(j) # "existing" /\ (Flag(j) = "new" => p = Path(j))
        /\ Put(p, Entry(j, "own", "file", "none"))
        /\ job' = [job EXCEPT ![j].pc = "stat", ![j].held = [by |-> j, as |-> "own"],
                              ![j].did = {"made"}]
     \/ Fails(j)

OpenStat(j) ==
  /\ Doing(j, "open", "stat")
  /\ \/ Succeeds(j, {}) /\ UNCHANGED tree
     \/ Fails(j)

\* The name a query is about, links followed if it says so.
Asked(j) == IF Flag(j) = "follow" THEN Followed(Path(j)) ELSE Path(j)

\* One call by name; on Windows a handle, which is asked and closed.
ByName(j) ==
  /\ tree[Asked(j)] # None
  /\ IF Windows THEN GoWith(j, "ask", tree[Asked(j)].id) ELSE Succeeds(j, {})
  /\ UNCHANGED tree

Closes(j) ==
  /\ job' = [job EXCEPT ![j].pc = "done", ![j].ok = TRUE, ![j].held = Nobody]
  /\ UNCHANGED tree

\* file_kind_by_path_job_worker, and moonbitlang_async_kind_of_fd of its handle
KindOfHandle(j) == Closes(j) \/ Fails(j)

Kind(j) ==
  \/ Doing(j, "kind", "call") /\ (ByName(j) \/ Fails(j))
  \/ Doing(j, "kind", "ask") /\ KindOfHandle(j)

\* file_time_by_path_job_worker
Times(j) ==
  \/ Doing(j, "times", "call") /\ (ByName(j) \/ Fails(j))
  \/ Doing(j, "times", "ask") /\ (Closes(j) \/ Fails(j))

\* access_job_worker: the handle is asked for with the access itself, so that one who
\* shares with nobody is in the way.
Access(j) ==
  \/ Doing(j, "access", "call") /\ ((~Locked(Asked(j)) /\ ByName(j)) \/ Fails(j))
  \/ Doing(j, "access", "ask") /\ Closes(j)

\* realpath_job_worker: a name that is too long for the job's own buffer is asked
\* for again, with a buffer of the length the first answer told.
Realpath(j) ==
  \/ Doing(j, "realpath", "call") /\ (ByName(j) \/ Fails(j))
  \/ Doing(j, "realpath", "ask") /\ (Closes(j) \/ Fails(j) \/ (Go(j, "longer") /\ UNCHANGED tree))
  \/ Doing(j, "realpath", "longer") /\ (Closes(j) \/ Fails(j))

\* remove_job_worker: on Windows the attributes decide between two calls.
RemoveJob(j) ==
  \/ /\ Doing(j, "remove", "call")
     /\ \/ /\ ~Windows /\ (Unlinks(Path(j)) \/ RemovesDirectory(Path(j)))
           /\ Drop(Path(j)) /\ Succeeds(j, {"removed"})
        \/ /\ Windows /\ tree[Path(j)] # None
           /\ Go(j, IF tree[Path(j)].kind = "dirlink" THEN "rmdir" ELSE "delete")
           /\ UNCHANGED tree
        \/ Fails(j)
  \/ /\ Doing(j, "remove", "rmdir") \/ Doing(j, "remove", "delete")
     /\ \/ /\ IF job[j].pc = "rmdir" THEN RemovesDirectory(Path(j)) ELSE Unlinks(Path(j))
           /\ Drop(Path(j)) /\ Succeeds(j, {"removed"})
        \/ Fails(j)

\* rmdir_job_worker
Rmdir(j) ==
  /\ Doing(j, "rmdir", "call")
  /\ \/ RemovesDirectory(Path(j)) /\ Drop(Path(j)) /\ Succeeds(j, {"removed"})
     \/ Fails(j)

\* rename_job_worker: one call by name; on Windows a handle, which follows a link,
\* is renamed, and where that is not supported one call by name.
RenameByName(j) ==
  /\ Renames(Path(j), job[j].op.new, Flag(j))
  /\ tree' = Moved(Path(j), job[j].op.new)
  /\ Succeeds(j, {"moved"})

Rename(j) ==
  \/ /\ Doing(j, "rename", "call")
     /\ \/ ~Windows /\ RenameByName(j)
        \/ LET p == Followed(Path(j)) IN
             /\ Windows /\ tree[p] # None /\ ~Locked(p)
             /\ GoWith(j, "set", tree[p].id) /\ UNCHANGED tree
        \/ Fails(j)
  \/ /\ Doing(j, "rename", "set")
     /\ \/ \E p \in Paths :
             /\ tree[p].id = job[j].held /\ Renames(p, job[j].op.new, Flag(j))
             /\ tree' = Moved(p, job[j].op.new)
             /\ job' = [job EXCEPT ![j].pc = "done", ![j].ok = TRUE, ![j].held = Nobody,
                           ![j].did = {IF p = Path(j) THEN "moved" ELSE "elsewhere"}]
        \/ GoWith(j, "move", Nobody) /\ UNCHANGED tree
        \/ Fails(j)
  \/ /\ Doing(j, "rename", "move")
     /\ RenameByName(j) \/ Fails(j)

------------------------------------------------------------------------------
(* symlink_job_worker *)

IsDir(p) == tree[p].kind \in {"dir", "dirlink"}

\* On Windows a junction, if the target is a directory and its path absolute.
SymlinkCall(j) ==
  /\ Doing(j, "symlink", "call")
  /\ IF Windows
     THEN /\ job' = [job EXCEPT
                ![j].pc = IF Flag(j) = "absolute" /\ IsDir(job[j].op.new) THEN "mkdir" ELSE "link",
                ![j].then = IF IsDir(job[j].op.new) THEN "dirlink" ELSE "link"]
          /\ UNCHANGED tree
     ELSE \/ /\ Free(Path(j))
             /\ Put(Path(j), Entry(j, "own", "link", job[j].op.new))
             /\ Succeeds(j, {"made"})
          \/ Fails(j)

\* A junction is a directory that becomes a reparse point.
JunctionMkdir(j) ==
  /\ Doing(j, "symlink", "mkdir")
  /\ \/ /\ Free(Path(j))
        /\ Put(Path(j), Entry(j, "dir", "dir", "none"))
        /\ job' = [job EXCEPT ![j].pc = "point", ![j].did = {"made"}]
     \/ Fails(j)

\* Mutation: the directory stays when it cannot be opened.
PointUncleaned(j) ==
  /\ Doing(j, "symlink", "point")
  /\ \/ /\ OpensAlone(Path(j))
        /\ job' = [job EXCEPT ![j].pc = "set", ![j].held = tree[Path(j)].id, ![j].alone = TRUE]
        /\ UNCHANGED tree
     \/ Fails(j)

\* CreateFileW of the new directory, shared with nobody.
JunctionPoint(j) ==
  /\ Doing(j, "symlink", "point")
  /\ \/ /\ OpensAlone(Path(j))
        /\ job' = [job EXCEPT ![j].pc = "set", ![j].held = tree[Path(j)].id, ![j].alone = TRUE]
     \/ job' = [job EXCEPT ![j].pc = "clean", ![j].then = "error"]
  /\ UNCHANGED tree

\* DeviceIoControl and CloseHandle; an invalid parameter means no junctions here.
JunctionSet(j) ==
  /\ Doing(j, "symlink", "set")
  /\ \/ \E p \in Paths :
          /\ tree[p].id = job[j].held /\ tree[p].kind = "dir" /\ Empty(p)
          /\ Put(p, [tree[p] EXCEPT !.kind = "dirlink", !.to = job[j].op.new])
          /\ job' = [job EXCEPT ![j].pc = "done", ![j].ok = TRUE, ![j].held = Nobody,
                                ![j].alone = FALSE]
     \/ /\ \E next \in {job[j].then, "error"} :
             job' = [job EXCEPT ![j].pc = "clean", ![j].held = Nobody, ![j].alone = FALSE,
                                ![j].then = next]
        /\ UNCHANGED tree

\* RemoveDirectoryW of the path, whatever is there by now; its result is not looked at.
JunctionClean(j) ==
  /\ Doing(j, "symlink", "clean")
  /\ LET own == tree[Path(j)].id = [by |-> j, as |-> "dir"]
         ends == job[j].then = "error"
         Goes(left) == job' = [job EXCEPT ![j].pc = IF ends THEN "done" ELSE "link",
                                          ![j].did = IF left THEN @ ELSE {}, ![j].left = left]
     IN \/ RemovesDirectory(Path(j)) /\ Drop(Path(j)) /\ Goes(~own)
        \/ UNCHANGED tree /\ Goes(TRUE)

\* CreateSymbolicLinkW
Symlink(j) ==
  /\ Doing(j, "symlink", "link")
  /\ \/ /\ Free(Path(j))
        /\ Put(Path(j), Entry(j, "own", job[j].then, job[j].op.new))
        /\ Succeeds(j, {"made"})
     \/ Fails(j)

------------------------------------------------------------------------------
(* mkdir_job_worker, and @fs.mkdir with recursive. *)

MakesDirectory(j, p, as) == Free(p) /\ Put(p, Entry(j, as, "dir", "none"))

MkdirCall(j) ==
  /\ Doing(j, "mkdir", "call")
  /\ \/ MakesDirectory(j, Path(j), "own") /\ Succeeds(j, {"made"})
     \/ /\ Flag(j) = "recursive" /\ Path(j) \in Children /\ tree[Parent(Path(j))] = None
        /\ Go(j, "parent") /\ UNCHANGED tree
     \/ Fails(j)

\* The parent is made in turn, and an error of that is the error of the call.
MkdirParent(j) ==
  /\ Doing(j, "mkdir", "parent")
  /\ \/ /\ MakesDirectory(j, Parent(Path(j)), "parent")
        /\ job' = [job EXCEPT ![j].pc = "again", ![j].did = {"parent"}]
     \/ Fails(j)

MkdirAgain(j) ==
  /\ Doing(j, "mkdir", "again")
  /\ \/ MakesDirectory(j, Path(j), "own") /\ Succeeds(j, {"made"})
     \/ Fails(j)

------------------------------------------------------------------------------
\* The other program makes a file or a directory once, and removes what it likes.
Foreign ==
  /\ others < MaxOthers /\ others' = others + 1
  /\ \E p \in Paths :
       \/ /\ Free(p) /\ \A q \in Paths : tree[q].id.by # "other"
          /\ \E kind \in {"file", "dir"} : Put(p, Entry("other", "own", kind, "none"))
       \/ (Unlinks(p) \/ RemovesDirectory(p)) /\ Drop(p)
  /\ UNCHANGED <<platform, job>>

Step(j) ==
  /\ \/ OpenCall(j) \/ OpenStat(j) \/ Kind(j) \/ Times(j) \/ Access(j) \/ Realpath(j)
     \/ RemoveJob(j) \/ Rmdir(j) \/ Rename(j)
     \/ SymlinkCall(j) \/ JunctionMkdir(j) \/ JunctionPoint(j) \/ JunctionSet(j)
     \/ JunctionClean(j) \/ Symlink(j)
     \/ MkdirCall(j) \/ MkdirParent(j) \/ MkdirAgain(j)
  /\ UNCHANGED <<platform, others>>

PathsNext == Foreign \/ \E j \in Jobs : Submit(j) \/ Step(j)

PathsSpec == PathsInit /\ [][PathsNext]_pathsVars

------------------------------------------------------------------------------
\* What a successful job has done, and what a failed one may leave: the file open
\* made before its fstat failed, the parents of a recursive mkdir, and the
\* directory of a junction whose RemoveDirectoryW was refused or met another's.
\* A rename on Windows follows a link and moves the target instead of it.
Wanted(o) ==
  CASE o.kind = "open"    -> {{}, {"made"}}
    [] o.kind \in {"kind", "times", "access", "realpath"} -> {{}}
    [] o.kind = "rename"  -> {{"moved"}, {"elsewhere"}}
    [] o.kind \in {"remove", "rmdir"} -> {{"removed"}}
    [] o.kind = "symlink" -> {{"made"}}
    [] o.kind = "mkdir"   -> {{"made"}, {"made", "parent"}}

MayLeave(j) ==
  CASE job[j].op.kind = "open" -> {"made"}
    [] job[j].op.kind = "mkdir" /\ Flag(j) = "recursive" -> {"parent"}
    [] job[j].op.kind = "symlink" /\ job[j].left -> {"made"}
    [] OTHER -> {}

\* A job is all or nothing, across its calls, its fallbacks and its cleaning up: one
\* that succeeds has done what it was asked, one that fails has left nothing
\* behind, and neither keeps a handle, except that open hands one out.
AllOrNothing ==
  \A j \in Jobs : job[j].pc = "done" =>
    /\ job[j].ok => job[j].did \in Wanted(job[j].op)
    /\ ~job[j].ok => job[j].did \subseteq MayLeave(j)
    /\ job[j].held # Nobody => job[j].ok /\ job[j].op.kind = "open"

Ids == {tree[p].id : p \in Paths} \ {Nobody}
Whereabouts(id) == CHOOSE p \in Paths : tree[p].id = id

\* The step of job j may make the entry at p disappear: it was told to remove it, or
\* to replace it; or it cleans up after a junction, which removes by name.
AskedToRemove(j, p) ==
  \/ job[j].op.kind \in {"remove", "rmdir"} /\ Path(j) = p
  \/ job[j].op.kind = "rename" /\ job[j].op.new = p /\ Flag(j) = "replace"
  \/ Doing(j, "symlink", "clean") /\ Path(j) = p /\ RemovesDirectory(p)

\* No entry disappears that no job was asked to remove or to replace, whoever made it
\* and whatever happens between two calls: a rename takes the entry along, and
\* without replace it spares what is at the new path.
OthersAreSpared ==
  [][\A id \in Ids : id \notin Ids' /\ UNCHANGED others =>
       \E j \in Jobs : job'[j] # job[j] /\ AskedToRemove(j, Whereabouts(id))]_pathsVars
==============================================================================
