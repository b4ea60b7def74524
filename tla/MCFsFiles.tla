----------------------------- MODULE MCFsFiles -----------------------------
(* Two callers on the paths p, q and r: a file of three units, a shorter   *)
(* or longer one, a directory, a link, or nothing.                         *)
EXTENDS FsFiles, TLC

CONSTANTS p, q, r, i1, i2, i3, i4, x, y, c1, c2

K(op, from, to, over) == [op |-> op, from |-> from, to |-> to, overwrite |-> over]

CopyCalls ==
  { K("copy_file", p, q, FALSE), K("copy_file", p, q, TRUE),
    K("copy_file", q, r, FALSE), K("copy_file", r, q, TRUE),
    K("rename", p, q, FALSE), K("rename", q, r, FALSE), K("remove_file", q, q, FALSE) }

NameCalls ==
  { K("remove_directory", q, q, FALSE), K("create_directory", q, q, FALSE) }
  \cup { K(op, q, q, FALSE) : op \in {"exists", "is_symlink", "is_directory"} }

AllCalls == CopyCalls \cup NameCalls

Dir(a, b, c) == p :> a @@ q :> b @@ r :> c
T(n, k, d) == [node |-> n, kind |-> k, data |-> d]

Files == i1 :> <<x, x, y>> @@ i2 :> <<y, y, y, y>> @@ i3 :> <<>> @@ i4 :> <<>>
FileKinds(a, b) == i1 :> a @@ i2 :> b @@ i3 :> None @@ i4 :> None

CopyTrees == { T(Dir(i1, i2, None), FileKinds("file", "file"), Files),
               T(Dir(i1, None, i2), FileKinds("file", "dir"), Files) }
AllTrees == CopyTrees
  \cup { T(Dir(i1, i2, None), FileKinds("file", k), Files) : k \in {"dir", "link"} }
=============================================================================
