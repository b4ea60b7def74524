------------------------------- MODULE FsFiles -------------------------------
(***************************************************************************)
(* std.fs: copying, renaming and removing files and the tests of a path,   *)
(* as built on Unix other than macOS, by callers in different processes    *)
(* that share the directory they work in.  A step is one system call.      *)
(*                                                                         *)
(* The content of a file is a sequence of units of BufSize-th parts of the *)
(* buffer of copy_file.  A directory is empty; a link leads nowhere.       *)
(***************************************************************************)
EXTENDS Integers, Sequences, FiniteSets

CONSTANTS
  Callers,   \* processes
  Paths,     \* the names in the directory
  Inodes,    \* what a name can stand for; bounds how many are ever made
  Units,     \* contents
  BufSize,   \* units in the buffer of copy_file
  Calls,     \* the calls considered: [op, from, to, overwrite]
  MaxCalls,  \* bound: calls made, by all the callers together
  Trees,     \* the initial directories: [node, kind, data]
  None

Kinds   == {"file", "dir", "link"}
Queries == {"exists", "directory_exists", "file_exists",
            "is_directory", "is_file", "is_symlink"}
Ops     == Queries \cup {"copy_file", "rename", "remove_file", "remove_directory",
                         "create_directory"}
Call    == [op : Ops, from : Paths, to : Paths, overwrite : BOOLEAN]
Tree    == [node : [Paths -> Inodes \cup {None}],
            kind : [Inodes -> Kinds \cup {None}], data : [Inodes -> Seq(Units)]]

ASSUME FilesAssumption ==
  /\ BufSize \in Nat \ {0} /\ MaxCalls \in Nat
  /\ Calls \subseteq Call /\ Trees \subseteq Tree
  /\ None \notin Inodes \cup Kinds \cup Call
  /\ \A t \in Trees : \A p \in Paths :
       t.node[p] # None => t.kind[t.node[p]] # None
  /\ \A t \in Trees : \A i \in Inodes : t.kind[i] = None => t.data[i] = <<>>

VARIABLES
  node,      \* path -> what it stands for
  kind,      \* inode -> its kind, None if it was never made
  data,      \* inode -> its content
  readable,  \* inode -> whether its mode lets it be opened for reading
  pc,        \* caller -> the system call it is at
  call,      \* caller -> its current or last call
  src_fd, dst_fd,  \* caller -> the inodes copy_file has open
  rpos, wpos,      \* caller -> the offsets of the two descriptors
  buf,       \* caller -> what read returned
  result,    \* caller -> what its last call returned
  calls,     \* calls made
  spare,     \* caller -> whether a descriptor of the program's own is open
  created,   \* history: caller -> copy_file made its destination
  clean      \* history: caller -> no short write, and nobody else wrote to
             \* either file, since copy_file began

disk    == <<node, kind, data, readable>>
copying == <<src_fd, dst_fd, rpos, wpos, buf>>
history == <<created, clean>>
vars    == <<disk, pc, call, copying, result, calls, spare, history>>

Init ==
  /\ \E t \in Trees : node = t.node /\ kind = t.kind /\ data = t.data
  /\ readable = [i \in Inodes |-> TRUE]
  /\ pc = [c \in Callers |-> "idle"]
  /\ call = [c \in Callers |-> None]
  /\ src_fd = [c \in Callers |-> None] /\ dst_fd = [c \in Callers |-> None]
  /\ rpos = [c \in Callers |-> 0] /\ wpos = [c \in Callers |-> 0]
  /\ buf = [c \in Callers |-> <<>>]
  /\ result = [c \in Callers |-> "none"]
  /\ calls = 0
  /\ spare = [c \in Callers |-> TRUE]
  /\ created = [c \in Callers |-> FALSE]
  /\ clean = [c \in Callers |-> TRUE]

Goto(c, l) == pc' = [pc EXCEPT ![c] = l] /\ UNCHANGED result
Return(c, r) ==
  pc' = [pc EXCEPT ![c] = "idle"] /\ result' = [result EXCEPT ![c] = r]
At(c, l) == pc[c] = l
Made(i) == kind[i] # None

Begin(c, k) ==
  /\ At(c, "idle") /\ calls < MaxCalls
  /\ Goto(c, k.op)
  /\ call' = [call EXCEPT ![c] = k]
  /\ calls' = calls + 1
  /\ src_fd' = [src_fd EXCEPT ![c] = None]
  /\ dst_fd' = [dst_fd EXCEPT ![c] = None]
  /\ rpos' = [rpos EXCEPT ![c] = 0] /\ wpos' = [wpos EXCEPT ![c] = 0]
  /\ buf' = [buf EXCEPT ![c] = <<>>]
  /\ created' = [created EXCEPT ![c] = FALSE]
  /\ clean' = [clean EXCEPT ![c] = TRUE]
  /\ UNCHANGED <<disk, spare>>

---------------------------------------------------------------------------
(* fsL_copy_file: open, open, read and write in turn, close.               *)
SrcOpens(c) ==
  LET i == node[call[c].from] IN i # None /\ kind[i] # "link" /\ readable[i]

OpenSrc(c) ==
  /\ At(c, "copy_file") /\ SrcOpens(c)
  /\ src_fd' = [src_fd EXCEPT ![c] = node[call[c].from]]
  /\ Goto(c, "open_dst")
  /\ UNCHANGED <<disk, call, dst_fd, rpos, wpos, buf, calls, spare, history>>

(* goto ERROR passes over the initialisation of dst_fd: close is called    *)
(* with whatever is there, a descriptor of the program's among the         *)
(* possible values.                                                        *)
NoSrc(c) ==
  /\ At(c, "copy_file") /\ ~ SrcOpens(c)
  /\ spare' \in {spare, [spare EXCEPT ![c] = FALSE]}
  /\ Return(c, "false")
  /\ UNCHANGED <<disk, call, copying, calls, history>>

(* O_CREAT comes without a mode: the file is made readable or not.         *)
CreateDst(c, i) ==
  /\ At(c, "open_dst") /\ node[call[c].to] = None /\ ~ Made(i)
  /\ node' = [node EXCEPT ![call[c].to] = i]
  /\ kind' = [kind EXCEPT ![i] = "file"]
  /\ readable' \in {readable, [readable EXCEPT ![i] = FALSE]}
  /\ dst_fd' = [dst_fd EXCEPT ![c] = i]
  /\ created' = [created EXCEPT ![c] = TRUE]
  /\ Goto(c, "read")
  /\ UNCHANGED <<data, call, src_fd, rpos, wpos, buf, calls, spare, clean>>

(* Mutant: O_EXCL is not set.                                              *)
DstOpensAlways(c) ==
  LET i == node[call[c].to] IN i # None /\ kind[i] = "file"

DstOpens(c) ==
  LET i == node[call[c].to]
  IN  i # None /\ kind[i] = "file" /\ call[c].overwrite

OpenDst(c) ==
  /\ At(c, "open_dst") /\ DstOpens(c)
  /\ dst_fd' = [dst_fd EXCEPT ![c] = node[call[c].to]]
  /\ Goto(c, "read")
  /\ UNCHANGED <<disk, call, src_fd, rpos, wpos, buf, calls, spare, history>>

NoDst(c) ==
  /\ At(c, "open_dst") /\ node[call[c].to] # None /\ ~ DstOpens(c)
  /\ src_fd' = [src_fd EXCEPT ![c] = None]
  /\ Return(c, "false")
  /\ UNCHANGED <<disk, call, dst_fd, rpos, wpos, buf, calls, spare, history>>

(* Both descriptors are closed.                                            *)
CopyReturns(c, r) ==
  /\ Return(c, r)
  /\ src_fd' = [src_fd EXCEPT ![c] = None]
  /\ dst_fd' = [dst_fd EXCEPT ![c] = None]
  /\ UNCHANGED <<disk, call, rpos, wpos, buf, calls, spare, history>>

Rest(c) == SubSeq(data[src_fd[c]], rpos[c] + 1, Len(data[src_fd[c]]))

ReadChunk(c) ==
  /\ At(c, "read") /\ kind[src_fd[c]] = "file" /\ Rest(c) # <<>>
  /\ LET n == IF Len(Rest(c)) < BufSize THEN Len(Rest(c)) ELSE BufSize
     IN  /\ buf' = [buf EXCEPT ![c] = SubSeq(Rest(c), 1, n)]
         /\ rpos' = [rpos EXCEPT ![c] = @ + n]
  /\ Goto(c, "write")
  /\ UNCHANGED <<disk, call, src_fd, dst_fd, wpos, calls, spare, history>>

ReadEnd(c) ==
  /\ At(c, "read") /\ kind[src_fd[c]] = "file" /\ Rest(c) = <<>>
  /\ CopyReturns(c, "true")

(* Mutant: the -1 that read returns is taken for a count.                  *)
ReadFailsUntested(c) ==
  /\ At(c, "read")
  /\ rpos' = [rpos EXCEPT ![c] = @ - 1] /\ Goto(c, "write")
  /\ UNCHANGED <<disk, call, src_fd, dst_fd, wpos, buf, calls, spare, history>>

(* Any read may fail; that of a directory, which can be opened, does.      *)
ReadFails(c) == At(c, "read") /\ CopyReturns(c, "false")

(* d after s is written at offset w.                                       *)
Overwritten(d, w, s) ==
  SubSeq(d, 1, w) \o s \o SubSeq(d, w + Len(s) + 1, Len(d))

(* write writes the n units of the buffer or fewer: only -1 is looked at.  *)
WriteChunk(c) ==
  /\ At(c, "write")
  /\ \E k \in 1..Len(buf[c]) :
       /\ data' = [data EXCEPT
            ![dst_fd[c]] = Overwritten(@, wpos[c], SubSeq(buf[c], 1, k))]
       /\ wpos' = [wpos EXCEPT ![c] = @ + k]
       /\ clean' = [d \in Callers |->
            IF d = c THEN clean[c] /\ k = Len(buf[c])
            ELSE clean[d] /\ dst_fd[c] \notin {src_fd[d], dst_fd[d]}]
  /\ Goto(c, "read")
  /\ UNCHANGED <<node, kind, readable, call, src_fd, dst_fd, rpos, buf, calls,
                 spare, created>>

(* Mutant: the failure of write is not looked at.                          *)
WriteFailsUntested(c) ==
  /\ At(c, "write") /\ Goto(c, "read")
  /\ UNCHANGED <<disk, call, copying, calls, spare, history>>

WriteFails(c) == At(c, "write") /\ CopyReturns(c, "false")

---------------------------------------------------------------------------
(* The calls of one system call.                                           *)
OneStep(c) == UNCHANGED <<data, readable, call, copying, calls, spare, history>>

(* rename and renameat do the same: the flag overwrite changes nothing.    *)
CanRename(c) ==
  LET i == node[call[c].from]  j == node[call[c].to]
  IN  i # None /\ (j # None => (kind[i] = "dir" <=> kind[j] = "dir"))

Renamed(c) ==
  LET from == call[c].from  to == call[c].to
  IN  IF node[from] = node[to] THEN node
      ELSE [node EXCEPT ![to] = node[from], ![from] = None]

Rename(c) ==
  /\ At(c, "rename")
  /\ IF CanRename(c) THEN node' = Renamed(c) /\ Return(c, "true")
     ELSE Return(c, "false") /\ UNCHANGED node
  /\ UNCHANGED kind /\ OneStep(c)

(* remove(path), for a file and for a directory.                           *)
Remove(c, l) ==
  /\ At(c, l)
  /\ node' = [node EXCEPT ![call[c].from] = None]
  /\ Return(c, IF node[call[c].from] = None THEN "false" ELSE "true")
  /\ UNCHANGED kind /\ OneStep(c)

RemoveFile(c) == Remove(c, "remove_file")

(* fs_remove_directory tests the path and then removes what it finds.      *)
TestDirectory(c) ==
  LET i == node[call[c].from] IN
  /\ At(c, "remove_directory")
  /\ IF i # None /\ kind[i] = "dir" THEN Goto(c, "rmdir") ELSE Return(c, "nil")
  /\ UNCHANGED <<node, kind>> /\ OneStep(c)

RemoveDirectory(c) == Remove(c, "rmdir")

CreateDirectory(c) ==
  LET name == call[c].from IN
  /\ At(c, "create_directory")
  /\ IF node[name] # None THEN Return(c, "false") /\ UNCHANGED <<node, kind>>
     ELSE \E i \in Inodes :
            /\ ~ Made(i)
            /\ node' = [node EXCEPT ![name] = i]
            /\ kind' = [kind EXCEPT ![i] = "dir"]
            /\ Return(c, "true")
  /\ OneStep(c)

(* lstat.  Its result, -1, is compared with ENOENT: a path that is not     *)
(* there is a failure, not an answer.                                      *)
Answers(op, k) ==
  CASE op = "exists" -> TRUE
    [] op \in {"directory_exists", "is_directory"} -> k = "dir"
    [] op \in {"file_exists", "is_file", "is_symlink"} -> k = "file"

Query(c) ==
  LET i == node[call[c].from]  op == call[c].op IN
  /\ pc[c] \in Queries
  /\ Return(c, IF i = None THEN "nil"
               ELSE IF Answers(op, kind[i]) THEN "true" ELSE "false")
  /\ UNCHANGED <<disk, call, copying, calls, spare, created, clean>>

---------------------------------------------------------------------------
Step(c) ==
  \/ \E k \in Calls : Begin(c, k)
  \/ OpenSrc(c) \/ NoSrc(c)
  \/ \E i \in Inodes : CreateDst(c, i)
  \/ OpenDst(c) \/ NoDst(c)
  \/ ReadChunk(c) \/ ReadEnd(c) \/ ReadFails(c)
  \/ WriteChunk(c) \/ WriteFails(c)
  \/ Rename(c) \/ RemoveFile(c) \/ TestDirectory(c) \/ RemoveDirectory(c)
  \/ CreateDirectory(c) \/ Query(c)

Next == \E c \in Callers : Step(c)

Spec == Init /\ [][Next]_vars

---------------------------------------------------------------------------
TypeOK ==
  /\ node \in [Paths -> Inodes \cup {None}]
  /\ kind \in [Inodes -> Kinds \cup {None}]
  /\ data \in [Inodes -> Seq(Units)]
  /\ readable \in [Inodes -> BOOLEAN]
  /\ pc \in [Callers -> Ops \cup {"idle", "open_dst", "read", "write", "rmdir"}]
  /\ call \in [Callers -> Calls \cup {None}]
  /\ src_fd \in [Callers -> Inodes \cup {None}]
  /\ dst_fd \in [Callers -> Inodes \cup {None}]
  /\ rpos \in [Callers -> Nat] /\ wpos \in [Callers -> Nat]
  /\ buf \in [Callers -> Seq(Units)]
  /\ result \in [Callers -> {"none", "true", "false", "nil"}]
  /\ calls \in 0..MaxCalls /\ spare \in [Callers -> BOOLEAN]
  /\ created \in [Callers -> BOOLEAN] /\ clean \in [Callers -> BOOLEAN]

(* A file is written only by a copy that may overwrite it or that made it, *)
(* whatever other callers do to the names in between (the flag O_EXCL).    *)
OnlyOwnWrites ==
  [][\A i \in Inodes : data'[i] # data[i] =>
       \E c \in Callers : dst_fd[c] = i /\ (call[c].overwrite \/ created[c])]_vars

Copied(c) == At(c, "read") /\ At(c, "idle")' /\ result'[c] = "true"

(* A copy that made its destination, whose writes were all whole, and that *)
(* was alone on both files leaves them equal when it returns true; reads   *)
(* and writes of it may fail and the names change under it.                *)
FreshCopyExact ==
  [][\A c \in Callers : Copied(c) /\ created[c] /\ clean[c] =>
       data[dst_fd[c]] = data[src_fd[c]]]_vars
=============================================================================
