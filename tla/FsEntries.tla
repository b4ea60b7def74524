------------------------------ MODULE FsEntries ------------------------------
(***************************************************************************)
(* std.fs.entries: the handles on directory streams that fs.entries hands  *)
(* out, through next, close, the end of the listing and the collector, on  *)
(* Unix (opendir) and on Windows (FindFirstFile).                          *)
(*                                                                         *)
(* A stream lives at an address the host chooses among the free ones, so   *)
(* that an address given back can be the address of a later stream.  What  *)
(* the C library does with an address that is not open is undefined: it    *)
(* reports an error, aborts, or works on the stream now at that address.   *)
(***************************************************************************)
EXTENDS Integers, Sequences, FiniteSets

CONSTANTS
  Handles,       \* the userdata fs.entries can make
  Addresses,     \* where the host can put a stream
  Paths,         \* the directories
  Names,         \* the names in them
  Listing,       \* path -> the names in it
  MaxOrphans,    \* bound: how often the allocator of Lua fails
  None

Streams == [path : Paths, left : SUBSET Names]

ASSUME EntriesAssumption ==
  /\ Listing \in [Paths -> SUBSET Names] /\ MaxOrphans \in Nat
  /\ None \notin Addresses \cup Names \cup Paths \cup Streams

VARIABLES
  platform,   \* what the library was built for
  stream,     \* address -> the open stream there, None if it is free
  dir,        \* entries_t.dir, or handle
  closed,     \* entries_t.closed
  found,      \* entries_t.wfd while entries_t.first, else None (Windows)
  held,       \* what the program does with the userdata
  orphans,    \* streams whose userdata could not be made
  crashed,    \* the process was aborted
  path,       \* history: the path asked for
  yielded,    \* history: the names next returned, in order
  listing,    \* history: "complete" once next reported the end; "spoiled" once
              \* it reported an error or the program closed the handle
  stopped     \* history: the handles the program closed before their end

host    == <<stream, orphans, crashed>>
entries == <<dir, closed, found>>
history == <<path, yielded, listing, stopped>>
vars    == <<platform, host, entries, held, history>>

Init ==
  /\ platform \in {"unix", "windows"}
  /\ stream = [a \in Addresses |-> None]
  /\ dir = [h \in Handles |-> None]
  /\ closed = [h \in Handles |-> FALSE]
  /\ found = [h \in Handles |-> None]
  /\ held = [h \in Handles |-> "unused"]
  /\ orphans = {} /\ crashed = FALSE
  /\ path = [h \in Handles |-> None]
  /\ yielded = [h \in Handles |-> <<>>]
  /\ listing = [h \in Handles |-> "partial"]
  /\ stopped = {}

IsOpen(a) == stream[a] # None

Open(a, s)    == stream' = [stream EXCEPT ![a] = s]
Release(a)    == stream' = [stream EXCEPT ![a] = None]
CloseDir(a)   == IsOpen(a) /\ Release(a) /\ UNCHANGED crashed
Undefined(a)  == ~ IsOpen(a) /\ UNCHANGED stream /\ crashed' \in BOOLEAN
ClosedAt(h)   == closed' = [closed EXCEPT ![h] = TRUE]
Answer(h, n)  == /\ yielded' = [yielded EXCEPT ![h] = Append(@, n)]
                 /\ UNCHANGED <<path, listing, stopped>>
AnswerEnd(h)  == /\ listing' = [listing EXCEPT ![h] =
                                 IF @ = "spoiled" THEN @ ELSE "complete"]
                 /\ UNCHANGED <<path, yielded, stopped>>
AnswerFail(h) == /\ listing' = [listing EXCEPT ![h] = "spoiled"]
                 /\ UNCHANGED <<path, yielded, stopped>>

---------------------------------------------------------------------------
(* fs_entries.  Finding the stream fails without trace; on Windows finding *)
(* it reads the first name.                                                *)
FirstFound(p) == IF platform = "windows" THEN Listing[p] ELSE {None}

Entries(h, p, a, first) ==
  /\ held[h] = "unused" /\ ~ IsOpen(a) /\ first \in FirstFound(p)
  /\ Open(a, [path |-> p, left |-> Listing[p] \ {first}])
  /\ dir' = [dir EXCEPT ![h] = a]
  /\ found' = [found EXCEPT ![h] = first]
  /\ held' = [held EXCEPT ![h] = "live"]
  /\ path' = [path EXCEPT ![h] = p]
  /\ UNCHANGED <<closed, orphans, crashed, yielded, listing, stopped>>

(* lua_newuserdata raises when there is no memory: the stream stays open.  *)
EntriesRaises(p, a) ==
  /\ \E h \in Handles : held[h] = "unused"
  /\ Cardinality(orphans) < MaxOrphans
  /\ ~ IsOpen(a) /\ Open(a, [path |-> p, left |-> Listing[p]])
  /\ orphans' = orphans \cup {a}
  /\ UNCHANGED <<crashed, entries, held, history>>

---------------------------------------------------------------------------
(* read_dir_next.                                                          *)
Reading(h) == held[h] = "live" /\ ~ closed[h]

NextClosed(h) ==
  /\ held[h] = "live" /\ closed[h] /\ AnswerEnd(h)
  /\ UNCHANGED <<host, entries, held>>

(* Windows: the name that came with the handle, or the failure to convert  *)
(* it.                                                                     *)
(* Mutant: the name is read after it was cleared.                          *)
NextFirstCleared(h) ==
  /\ Reading(h) /\ found[h] # None
  /\ found' = [found EXCEPT ![h] = None]
  /\ Answer(h, None)
  /\ UNCHANGED <<host, dir, closed, held>>

NextFirst(h) ==
  /\ Reading(h) /\ found[h] # None
  /\ found' = [found EXCEPT ![h] = None]
  /\ Answer(h, found[h]) \/ AnswerFail(h)
  /\ UNCHANGED <<host, dir, closed, held>>

NextRead(h, n) ==
  /\ Reading(h) /\ found[h] = None
  /\ IsOpen(dir[h]) /\ n \in stream[dir[h]].left
  /\ stream' = [stream EXCEPT ![dir[h]].left = @ \ {n}]
  /\ Answer(h, n) \/ (platform = "windows" /\ AnswerFail(h))
  /\ UNCHANGED <<orphans, crashed, entries, held>>

(* Mutant: errno is not looked at, an error is the end.                    *)
NextFailsAsEnd(h) ==
  /\ Reading(h) /\ found[h] = None
  /\ CloseDir(dir[h]) /\ ClosedAt(h) /\ AnswerEnd(h)
  /\ UNCHANGED <<orphans, dir, found, held>>

NextFails(h) ==
  /\ Reading(h) /\ found[h] = None /\ IsOpen(dir[h]) /\ AnswerFail(h)
  /\ UNCHANGED <<host, entries, held>>

(* Mutant: closed is not set.                                              *)
NextEndUnmarked(h) ==
  /\ Reading(h) /\ found[h] = None
  /\ IsOpen(dir[h]) /\ stream[dir[h]].left = {}
  /\ CloseDir(dir[h]) /\ AnswerEnd(h)
  /\ UNCHANGED <<orphans, dir, closed, found, held>>

NextEnd(h) ==
  /\ Reading(h) /\ found[h] = None
  /\ IsOpen(dir[h]) /\ stream[dir[h]].left = {}
  /\ CloseDir(dir[h]) /\ ClosedAt(h) /\ AnswerEnd(h)
  /\ UNCHANGED <<orphans, dir, found, held>>

(* readdir on an address that is not open.                                 *)
NextUndefined(h) ==
  /\ Reading(h) /\ found[h] = None
  /\ Undefined(dir[h]) /\ AnswerFail(h)
  /\ UNCHANGED <<orphans, entries, held>>

---------------------------------------------------------------------------
(* read_dir_close.  On Unix it leaves closed as it is.                     *)
CloseUnix(h) ==
  /\ IF closed[h] THEN UNCHANGED <<stream, crashed>>
     ELSE CloseDir(dir[h]) \/ Undefined(dir[h])
  /\ UNCHANGED closed

(* Mutant: closed is left as it is on Windows too.                         *)
CloseWindowsUnmarked(h) == CloseUnix(h)

CloseWindows(h) ==
  IF closed[h] THEN UNCHANGED <<stream, crashed, closed>>
  ELSE (CloseDir(dir[h]) \/ Undefined(dir[h])) /\ ClosedAt(h)

(* Mutant: the handle is taken for closed.                                 *)
ReadDirCloseNothing(h) == UNCHANGED <<stream, crashed, closed>>

ReadDirClose(h) ==
  IF platform = "unix" THEN CloseUnix(h) ELSE CloseWindows(h)

(* h:close(), or the end of the scope of a <close> variable.               *)
Close(h) ==
  /\ held[h] = "live" /\ ReadDirClose(h)
  /\ listing' = [listing EXCEPT ![h] = "spoiled"]
  /\ stopped' = IF closed[h] THEN stopped ELSE stopped \cup {h}
  /\ UNCHANGED <<orphans, dir, found, held, path, yielded>>

Drop(h) ==
  /\ held[h] = "live" /\ held' = [held EXCEPT ![h] = "dropped"]
  /\ UNCHANGED <<host, entries, history>>

(* __gc, when the collector finds the userdata or the state is closed.     *)
Collect(h) ==
  /\ held[h] = "dropped" /\ ReadDirClose(h)
  /\ held' = [held EXCEPT ![h] = "collected"]
  /\ UNCHANGED <<orphans, dir, found, history>>

---------------------------------------------------------------------------
Step(h) ==
  \/ \E p \in Paths, a \in Addresses :
       \E first \in FirstFound(p) : Entries(h, p, a, first)
  \/ NextClosed(h) \/ NextFirst(h)
  \/ \E n \in Names : NextRead(h, n)
  \/ NextFails(h) \/ NextEnd(h) \/ NextUndefined(h)
  \/ Close(h) \/ Drop(h) \/ Collect(h)

Next ==
  /\ ~ crashed
  /\ \/ \E h \in Handles : Step(h)
     \/ \E p \in Paths, a \in Addresses : EntriesRaises(p, a)
  /\ UNCHANGED platform

(* The collector comes round to every handle the program has dropped.      *)
Fairness == \A h \in Handles : WF_vars(~ crashed /\ Collect(h) /\ UNCHANGED platform)

Spec == Init /\ [][Next]_vars /\ Fairness

---------------------------------------------------------------------------
TypeOK ==
  /\ platform \in {"unix", "windows"}
  /\ stream \in [Addresses -> Streams \cup {None}]
  /\ dir \in [Handles -> Addresses \cup {None}]
  /\ \A h \in Handles : held[h] # "unused" => dir[h] \in Addresses
  /\ closed \in [Handles -> BOOLEAN]
  /\ found \in [Handles -> Names \cup {None}]
  /\ held \in [Handles -> {"unused", "live", "dropped", "collected"}]
  /\ orphans \subseteq Addresses /\ crashed \in BOOLEAN
  /\ path \in [Handles -> Paths \cup {None}]
  /\ yielded \in [Handles -> Seq(Names)]
  /\ listing \in [Handles -> {"partial", "complete", "spoiled"}]
  /\ stopped \subseteq Handles

Owns(h) == held[h] \in {"live", "dropped"} /\ ~ closed[h]

(* On Unix everything below rests on no handle having been closed by hand. *)
Sound == platform = "windows" \/ stopped = {}

(* A stream that is open belongs to one handle that will close it, or to   *)
(* a userdata that could not be made; a handle that will close or read a   *)
(* stream has one; and so nothing undefined happens (libfs_entries_*.c,    *)
(* the field closed).                                                      *)
OneOwner ==
  Sound =>
    /\ ~ crashed
    /\ \A h \in Handles : Owns(h) => dir[h] \in Addresses \ orphans /\ IsOpen(dir[h])
    /\ \A h, k \in Handles : Owns(h) /\ Owns(k) /\ dir[h] = dir[k] => h = k
    /\ \A a \in Addresses : IsOpen(a) /\ a \notin orphans =>
         \E h \in Handles : Owns(h) /\ dir[h] = a

(* The iterator returns entries of the directory it was asked for, each at *)
(* most once (read_dir_next).                                              *)
ReturnsEntries(h) ==
  \A i, j \in DOMAIN yielded[h] :
    /\ yielded[h][i] \in Listing[path[h]]
    /\ yielded[h][i] = yielded[h][j] => i = j

OwnEntries == Sound => \A h \in Handles : ReturnsEntries(h)

(* An iterator that reaches the end, with no error reported on the way and *)
(* nobody closing it, has returned every entry.                            *)
NothingSkipped ==
  Sound => \A h \in Handles : listing[h] = "complete" =>
    \A n \in Listing[path[h]] : \E i \in DOMAIN yielded[h] : yielded[h][i] = n

(* Once the program has dropped every handle, every stream is given back   *)
(* (__gc = fs_entries_close).                                              *)
AllGivenBack ==
  (\A h \in Handles : held[h] \in {"dropped", "collected"}) ~>
    (Sound => \A a \in Addresses : IsOpen(a) => a \in orphans)

(* The strengthening of OneOwner and OwnEntries: an orphan is never given  *)
(* back, and what is still to come from a stream belongs to the directory  *)
(* its owner was asked for and was not returned before.                    *)
OrphansOpen == \A a \in orphans : IsOpen(a)

ToCome(h) == stream[dir[h]].left \cup ({found[h]} \ {None})

ReadsOwn ==
  \A h \in Handles : Owns(h) =>
    /\ ToCome(h) \subseteq Listing[path[h]]
    /\ found[h] \notin stream[dir[h]].left
    /\ \A i \in DOMAIN yielded[h] : yielded[h][i] \notin ToCome(h)

Unread == \A h \in Handles : held[h] = "unused" =>
                             ~ closed[h] /\ yielded[h] = <<>>

EntriesInv ==
  /\ TypeOK /\ OneOwner /\ OwnEntries /\ Unread
  /\ Sound => OrphansOpen /\ ReadsOwn

(* The doc of fs.entries: "an iterator over the entries of the specified   *)
(* path" (fs_entries.c:58), whatever the program does with its handles.    *)
EntriesOfThePath == \A h \in Handles : ReturnsEntries(h)
=============================================================================
