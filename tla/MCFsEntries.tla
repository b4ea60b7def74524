---------------------------- MODULE MCFsEntries ----------------------------
(* fs.entries with two directories, two handles over two addresses, of one *)
(* and two names: a nested loop, or a handle made after another's stream   *)
(* was closed.                                                             *)
EXTENDS FsEntries, TLC

CONSTANTS h1, h2, p1, p2, n1, n2, n3, a1, a2

TwoPaths == p1 :> {n1, n2} @@ p2 :> {n3}
=============================================================================
