-------------------------- MODULE FsEntriesProofs --------------------------
(***************************************************************************)
(* Proofs about FsEntries, for any number of handles, addresses, directories *)
(* and names: as long as no handle is closed by hand on Unix, streams and  *)
(* handles stay paired, nothing undefined happens, and an iterator returns *)
(* entries of its own directory, each once.                                *)
(***************************************************************************)
EXTENDS FsEntries, TLAPS

LEMMA TypeInit == Init => TypeOK
<1> SUFFICES ASSUME Init PROVE TypeOK
  OBVIOUS
<1>1. <<>> \in Seq(Names)
  OBVIOUS
<1>2. yielded \in [Handles -> Seq(Names)]
  BY <1>1 DEF Init
<1>3. /\ platform \in {"unix", "windows"}
      /\ stream \in [Addresses -> Streams \cup {None}]
      /\ dir \in [Handles -> Addresses \cup {None}]
      /\ \A h \in Handles : held[h] = "unused"
  BY DEF Init
<1>4. /\ closed \in [Handles -> BOOLEAN]
      /\ found \in [Handles -> Names \cup {None}]
      /\ held \in [Handles -> {"unused", "live", "dropped", "collected"}]
      /\ orphans \subseteq Addresses /\ crashed \in BOOLEAN
      /\ path \in [Handles -> Paths \cup {None}]
      /\ listing \in [Handles -> {"partial", "complete", "spoiled"}]
      /\ stopped \subseteq Handles
  BY DEF Init
<1>. QED  BY <1>2, <1>3, <1>4 DEF TypeOK

LEMMA TypeStep == TypeOK /\ [Next]_vars => TypeOK'
<1> SUFFICES ASSUME TypeOK, [Next]_vars PROVE TypeOK'
  OBVIOUS
<1> USE EntriesAssumption DEF TypeOK, host, entries, history, Streams, IsOpen,
      Answer, AnswerEnd, AnswerFail, ClosedAt, CloseDir, Undefined, Open,
      Release, Reading
<1>0. platform' = platform
  BY DEF vars, Next
<1> USE <1>0
<1>1. CASE UNCHANGED vars
  BY <1>1 DEF vars
<1>2. ASSUME NEW h \in Handles, NEW p \in Paths, NEW a \in Addresses,
             NEW first \in FirstFound(p), Entries(h, p, a, first)
      PROVE  TypeOK'
  BY <1>2 DEF Entries, FirstFound
<1>3. ASSUME NEW p \in Paths, NEW a \in Addresses, EntriesRaises(p, a)
      PROVE  TypeOK'
  BY <1>3 DEF EntriesRaises
<1>4. ASSUME NEW h \in Handles, NextClosed(h) PROVE TypeOK'
  BY <1>4 DEF NextClosed
<1>5. ASSUME NEW h \in Handles, NextFirst(h) PROVE TypeOK'
  <2>1. found[h] \in Names /\ Append(yielded[h], found[h]) \in Seq(Names)
    BY <1>5 DEF NextFirst
  <2>2. yielded' \in [Handles -> Seq(Names)]
    BY <1>5, <2>1 DEF NextFirst
  <2>. QED  BY <1>5, <2>2 DEF NextFirst
<1>6. ASSUME NEW h \in Handles, NEW n \in Names, NextRead(h, n) PROVE TypeOK'
  <2>1. dir[h] \in Addresses /\ stream[dir[h]] \in Streams
    BY <1>6 DEF NextRead
  <2>2. [stream[dir[h]] EXCEPT !.left = @ \ {n}] \in Streams
    BY <2>1
  <2>3. stream' \in [Addresses -> Streams \cup {None}]
    BY <1>6, <2>1, <2>2 DEF NextRead
  <2>4. Append(yielded[h], n) \in Seq(Names)
    OBVIOUS
  <2>5. yielded' \in [Handles -> Seq(Names)]
    BY <1>6, <2>4 DEF NextRead
  <2>6. /\ UNCHANGED <<dir, closed, found, held, orphans, crashed, path, stopped>>
        /\ listing' \in [Handles -> {"partial", "complete", "spoiled"}]
    BY <1>6 DEF NextRead
  <2>. QED  BY <2>3, <2>5, <2>6
<1>7. ASSUME NEW h \in Handles, NextFails(h) PROVE TypeOK'
  BY <1>7 DEF NextFails
<1>8. ASSUME NEW h \in Handles, NextEnd(h) PROVE TypeOK'
  BY <1>8 DEF NextEnd
<1>9. ASSUME NEW h \in Handles, NextUndefined(h) PROVE TypeOK'
  BY <1>9 DEF NextUndefined
<1>10. ASSUME NEW h \in Handles, Close(h) PROVE TypeOK'
  BY <1>10 DEF Close, ReadDirClose, CloseUnix, CloseWindows
<1>11. ASSUME NEW h \in Handles, Drop(h) PROVE TypeOK'
  BY <1>11 DEF Drop
<1>12. ASSUME NEW h \in Handles, Collect(h) PROVE TypeOK'
  BY <1>12 DEF Collect, ReadDirClose, CloseUnix, CloseWindows
<1>. QED
  BY <1>1, <1>2, <1>3, <1>4, <1>5, <1>6, <1>7, <1>8, <1>9, <1>10, <1>11, <1>12
  DEF Next, Step

---------------------------------------------------------------------------
LEMMA InvInit == Init => EntriesInv
<1> SUFFICES ASSUME Init PROVE EntriesInv
  OBVIOUS
<1>1. TypeOK
  BY TypeInit
<1>2. OneOwner /\ OwnEntries /\ Unread /\ OrphansOpen /\ ReadsOwn
  BY DEF Init, OneOwner, OwnEntries, Unread, OrphansOpen, ReadsOwn, Owns,
         IsOpen, ReturnsEntries
<1>. QED  BY <1>1, <1>2 DEF EntriesInv

(* What an action must show: the parts of EntriesInv other than TypeOK.    *)
Paired == OneOwner /\ OwnEntries /\ Unread /\ (Sound => OrphansOpen /\ ReadsOwn)

LEMMA EntriesPaired ==
  ASSUME EntriesInv, platform' = platform, TypeOK', NEW h \in Handles, NEW p \in Paths,
         NEW a \in Addresses, NEW first \in FirstFound(p),
         Entries(h, p, a, first)
  PROVE  Paired'
<1> USE DEF Entries, Open, IsOpen
<1> DEFINE s == [path |-> p, left |-> Listing[p] \ {first}]
<1>0. Sound' <=> Sound
  BY DEF Sound
<1>1. /\ stream[a] = None
      /\ stream' = [stream EXCEPT ![a] = s]
      /\ dir' = [dir EXCEPT ![h] = a]
      /\ held' = [held EXCEPT ![h] = "live"]
      /\ found' = [found EXCEPT ![h] = first]
      /\ path' = [path EXCEPT ![h] = p]
      /\ UNCHANGED <<closed, orphans, crashed, yielded, listing, stopped>>
      /\ s # None /\ s.left = Listing[p] \ {first}
  <2>1. s \in Streams
    BY EntriesAssumption DEF Streams
  <2>. QED  BY <2>1, EntriesAssumption DEF EntriesInv, TypeOK
<1>e. /\ stream'[a] = s /\ \A b \in Addresses \ {a} : stream'[b] = stream[b]
      /\ dir'[h] = a /\ \A k \in Handles \ {h} : dir'[k] = dir[k]
      /\ found'[h] = first /\ \A k \in Handles \ {h} : found'[k] = found[k]
      /\ path'[h] = p /\ \A k \in Handles \ {h} : path'[k] = path[k]
  BY <1>1 DEF EntriesInv, TypeOK
<1>2. /\ ~ Owns(h) /\ Owns(h)' /\ yielded[h] = <<>>
      /\ \A k \in Handles \ {h} : Owns(k)' <=> Owns(k)
  BY DEF Owns, EntriesInv, Unread, TypeOK
<1>3. Unread'
  BY <1>1 DEF EntriesInv, Unread, TypeOK
<1>4. OwnEntries'
  BY <1>0, <1>1, <1>2 DEF EntriesInv, OwnEntries, ReturnsEntries, TypeOK
<1> SUFFICES ASSUME Sound PROVE (OneOwner /\ OrphansOpen /\ ReadsOwn)'
  BY <1>0, <1>3, <1>4 DEF Paired, OneOwner
<1>5. a \notin orphans /\ \A k \in Handles : Owns(k) => dir[k] # a
  BY <1>1 DEF EntriesInv, OneOwner, OrphansOpen
<1>6. OneOwner'
  <2>1. ~ crashed'
    BY <1>1 DEF EntriesInv, OneOwner
  <2>2. ASSUME NEW k \in Handles, Owns(k)'
        PROVE  dir'[k] \in Addresses \ orphans' /\ stream'[dir'[k]] # None
    BY <2>2, <1>1, <1>e, <1>2, <1>5 DEF EntriesInv, OneOwner
  <2>3. ASSUME NEW k \in Handles, NEW l \in Handles, Owns(k)', Owns(l)',
               dir'[k] = dir'[l]
        PROVE  k = l
    BY <2>3, <1>e, <1>2, <1>5 DEF EntriesInv, OneOwner
  <2>4. ASSUME NEW b \in Addresses, IsOpen(b)', b \notin orphans'
        PROVE  \E k \in Handles : Owns(k)' /\ dir'[k] = b
    <3>1. CASE b = a
      BY <3>1, <1>e, <1>2
    <3>2. CASE b # a
      <4>1. PICK k \in Handles : Owns(k) /\ dir[k] = b
        BY <2>4, <3>2, <1>1, <1>e DEF EntriesInv, OneOwner
      <4>. QED  BY <4>1, <1>e, <1>2
    <3>. QED  BY <3>1, <3>2
  <2>. QED  BY <2>1, <2>2, <2>3, <2>4 DEF OneOwner
<1>7. OrphansOpen'
  BY <1>1, <1>5 DEF EntriesInv, OrphansOpen, TypeOK
<1>8. ReadsOwn'
  <2> SUFFICES ASSUME NEW k \in Handles, Owns(k)'
               PROVE  /\ ToCome(k)' \subseteq Listing[path[k]]'
                      /\ found'[k] \notin stream'[dir'[k]].left
                      /\ \A i \in DOMAIN yielded'[k] : yielded'[k][i] \notin ToCome(k)'
    BY DEF ReadsOwn
  <2>1. CASE k = h
    BY <2>1, <1>1, <1>2, EntriesAssumption
    DEF ToCome, FirstFound, EntriesInv, TypeOK
  <2>2. CASE k # h
    BY <2>2, <1>1, <1>2, <1>5 DEF ToCome, EntriesInv, ReadsOwn, TypeOK, Owns
  <2>. QED  BY <2>1, <2>2
<1>. QED  BY <1>6, <1>7, <1>8

LEMMA RaisesPaired ==
  ASSUME EntriesInv, platform' = platform, TypeOK', NEW p \in Paths, NEW a \in Addresses,
         EntriesRaises(p, a)
  PROVE  Paired'
<1> USE DEF EntriesRaises, Open, IsOpen, entries, history
<1>0. Sound' <=> Sound
  BY DEF Sound
<1>s. [path |-> p, left |-> Listing[p]] \in Streams
  BY EntriesAssumption DEF Streams
<1>1. UNCHANGED <<dir, closed, found, held, crashed, path, yielded, listing, stopped>>
  OBVIOUS
<1>e. /\ stream[a] = None /\ stream'[a] # None
      /\ \A b \in Addresses \ {a} : stream'[b] = stream[b]
      /\ orphans' = orphans \cup {a}
  BY <1>s, EntriesAssumption DEF EntriesInv, TypeOK
<1>2. Unread' /\ OwnEntries' /\ \A k \in Handles : Owns(k)' <=> Owns(k)
  BY <1>0, <1>1 DEF Owns, EntriesInv, Unread, OwnEntries, ReturnsEntries
<1> SUFFICES ASSUME Sound PROVE (OneOwner /\ OrphansOpen /\ ReadsOwn)'
  BY <1>0, <1>2 DEF Paired, OneOwner
<1>3. \A k \in Handles : Owns(k) => dir[k] # a /\ dir[k] \in Addresses
  BY <1>e DEF EntriesInv, OneOwner
<1>. QED
  BY <1>1, <1>e, <1>2, <1>3
  DEF EntriesInv, OneOwner, OrphansOpen, ReadsOwn, ToCome, TypeOK

(* Actions that touch neither streams nor what the handles own.            *)
LEMMA QuietPaired ==
  ASSUME EntriesInv, platform' = platform, Unread', \A k \in Handles : Owns(k)' <=> Owns(k),
         UNCHANGED <<stream, orphans, crashed, dir, found, path, yielded>>,
         Sound' => Sound
  PROVE  Paired'
BY DEF Paired, EntriesInv, OneOwner, OwnEntries, OrphansOpen, ReadsOwn, ToCome,
       ReturnsEntries, IsOpen

(* Actions in which a handle closes the stream it owns.                    *)
LEMMA ReleasePaired ==
  ASSUME EntriesInv, platform' = platform, NEW h \in Handles, Owns(h), Unread', ~ Owns(h)',
         \A k \in Handles \ {h} : Owns(k)' <=> Owns(k),
         stream' = [stream EXCEPT ![dir[h]] = None],
         UNCHANGED <<orphans, crashed, dir, found, path, yielded>>,
         Sound' => Sound
  PROVE  Paired'
<1>1. OwnEntries'
  BY DEF EntriesInv, OwnEntries, ReturnsEntries
<1> SUFFICES ASSUME Sound PROVE (OneOwner /\ OrphansOpen /\ ReadsOwn)'
  BY <1>1 DEF Paired, OneOwner
<1>2. /\ dir[h] \in Addresses \ orphans
      /\ \A k \in Handles \ {h} : Owns(k) => dir[k] # dir[h]
  BY DEF EntriesInv, OneOwner
<1>3. stream'[dir[h]] = None /\ \A b \in Addresses \ {dir[h]} : stream'[b] = stream[b]
  BY <1>2 DEF EntriesInv, TypeOK
<1>4. OneOwner'
  BY <1>2, <1>3 DEF EntriesInv, OneOwner, IsOpen
<1>5. OrphansOpen'
  BY <1>2, <1>3 DEF EntriesInv, OrphansOpen, IsOpen, TypeOK
<1>6. ReadsOwn'
  BY <1>2, <1>3 DEF EntriesInv, OneOwner, ReadsOwn, ToCome
<1>. QED  BY <1>4, <1>5, <1>6

LEMMA FirstPaired ==
  ASSUME EntriesInv, platform' = platform, NEW h \in Handles, NextFirst(h)
  PROVE  Paired'
<1>1. /\ held[h] = "live" /\ Owns(h) /\ found[h] # None
      /\ found' = [found EXCEPT ![h] = None]
      /\ yielded' = [yielded EXCEPT ![h] = Append(@, found[h])] \/ yielded' = yielded
      /\ UNCHANGED <<stream, orphans, crashed, dir, closed, held, path, stopped>>
  BY DEF NextFirst, Reading, Owns, Answer, AnswerFail, host
<1>2. /\ \A k \in Handles : Owns(k)' <=> Owns(k)
      /\ Sound' <=> Sound
  BY <1>1 DEF Owns, Sound
<1>3. Unread' /\ OneOwner'
  BY <1>1, <1>2 DEF EntriesInv, Unread, OneOwner, TypeOK, IsOpen
<1> SUFFICES ASSUME Sound PROVE (OwnEntries /\ OrphansOpen /\ ReadsOwn)'
  BY <1>2, <1>3 DEF Paired, OwnEntries
<1>4. OrphansOpen'
  BY <1>1 DEF EntriesInv, OrphansOpen, IsOpen
<1>5. /\ found[h] \in Listing[path[h]] /\ found[h] \in Names
      /\ \A i \in DOMAIN yielded[h] : yielded[h][i] # found[h]
      /\ yielded[h] \in Seq(Names)
  BY <1>1 DEF EntriesInv, ReadsOwn, ToCome, TypeOK
<1>6. ReturnsEntries(h)'
  <2>1. ReturnsEntries(h)
    BY DEF EntriesInv, OwnEntries
  <2>2. CASE yielded' = yielded
    BY <2>1, <2>2, <1>1 DEF ReturnsEntries
  <2>3. CASE yielded' = [yielded EXCEPT ![h] = Append(@, found[h])]
    <3>1. yielded'[h] = Append(yielded[h], found[h])
      BY <2>3 DEF EntriesInv, TypeOK
    <3>. QED  BY <2>1, <3>1, <1>5, <1>1 DEF ReturnsEntries
  <2>. QED  BY <2>2, <2>3, <1>1
<1>7. \A k \in Handles \ {h} : yielded'[k] = yielded[k] /\ found'[k] = found[k]
  BY <1>1 DEF EntriesInv, TypeOK
<1>8. OwnEntries'
  BY <1>1, <1>6, <1>7 DEF EntriesInv, OwnEntries, ReturnsEntries
<1>9. ReadsOwn'
  <2>1. found'[h] = None /\ None \notin stream[dir[h]].left
    BY <1>1, EntriesAssumption DEF EntriesInv, TypeOK, ReadsOwn, Owns, OneOwner, Streams, IsOpen
  <2>2. \A i \in DOMAIN yielded'[h] : yielded'[h][i] \notin stream[dir[h]].left
    <3>1. CASE yielded' = yielded
      BY <3>1, <1>1 DEF EntriesInv, ReadsOwn, ToCome
    <3>2. CASE yielded' = [yielded EXCEPT ![h] = Append(@, found[h])]
      <4>1. yielded'[h] = Append(yielded[h], found[h])
        BY <3>2 DEF EntriesInv, TypeOK
      <4>2. /\ found[h] \notin stream[dir[h]].left
            /\ \A i \in DOMAIN yielded[h] : yielded[h][i] \notin stream[dir[h]].left
        BY <1>1 DEF EntriesInv, ReadsOwn, ToCome
      <4>. QED  BY <4>1, <4>2, <1>5
    <3>. QED  BY <3>1, <3>2, <1>1
  <2>3. \A k \in Handles \ {h} : ToCome(k)' = ToCome(k)
    BY <1>1, <1>7 DEF ToCome
  <2>4. ToCome(h)' = stream[dir[h]].left
    BY <2>1, <1>1 DEF ToCome
  <2>5. stream[dir[h]].left \subseteq Listing[path[h]]
    BY <1>1 DEF EntriesInv, ReadsOwn, ToCome
  <2>. QED
    BY <1>1, <1>2, <1>7, <2>1, <2>2, <2>3, <2>4, <2>5 DEF EntriesInv, ReadsOwn
<1>. QED  BY <1>4, <1>8, <1>9

LEMMA ReadPaired ==
  ASSUME EntriesInv, platform' = platform, NEW h \in Handles, NEW n \in Names, NextRead(h, n)
  PROVE  Paired'
<1>1. /\ held[h] = "live" /\ Owns(h) /\ found[h] = None
      /\ n \in stream[dir[h]].left /\ stream[dir[h]] # None
      /\ stream' = [stream EXCEPT ![dir[h]].left = @ \ {n}]
      /\ yielded' = [yielded EXCEPT ![h] = Append(@, n)] \/ yielded' = yielded
      /\ UNCHANGED <<orphans, crashed, dir, closed, found, held, path, stopped>>
  BY DEF NextRead, Reading, Owns, Answer, AnswerFail, entries, IsOpen
<1>2. /\ \A k \in Handles : Owns(k)' <=> Owns(k)
      /\ Sound' <=> Sound
  BY <1>1 DEF Owns, Sound
<1>3. /\ dir[h] \in Addresses /\ stream[dir[h]] \in Streams
      /\ stream'[dir[h]] = [stream[dir[h]] EXCEPT !.left = @ \ {n}]
      /\ \A a \in Addresses \ {dir[h]} : stream'[a] = stream[a]
  BY <1>1 DEF EntriesInv, TypeOK
<1>4. stream'[dir[h]] # None /\ stream'[dir[h]].left = stream[dir[h]].left \ {n}
  <2>1. stream'[dir[h]] \in Streams
    BY <1>3 DEF Streams
  <2>. QED  BY <2>1, <1>3, EntriesAssumption DEF Streams
<1>5. Unread' /\ OneOwner'
  BY <1>1, <1>2, <1>3, <1>4 DEF EntriesInv, Unread, OneOwner, TypeOK, IsOpen
<1> SUFFICES ASSUME Sound PROVE (OwnEntries /\ OrphansOpen /\ ReadsOwn)'
  BY <1>2, <1>5 DEF Paired, OwnEntries
<1>6. OrphansOpen'
  BY <1>1, <1>3, <1>4 DEF EntriesInv, OrphansOpen, IsOpen, TypeOK
<1>7. /\ n \in Listing[path[h]] /\ yielded[h] \in Seq(Names)
      /\ \A i \in DOMAIN yielded[h] : yielded[h][i] # n
  BY <1>1 DEF EntriesInv, ReadsOwn, ToCome, TypeOK
<1>8. \A k \in Handles \ {h} : yielded'[k] = yielded[k]
  BY <1>1 DEF EntriesInv, TypeOK
<1>9. yielded'[h] = yielded[h] \/ yielded'[h] = Append(yielded[h], n)
  BY <1>1 DEF EntriesInv, TypeOK
<1>10. ReturnsEntries(h)'
  <2>1. ReturnsEntries(h)
    BY DEF EntriesInv, OwnEntries
  <2>2. CASE yielded'[h] = yielded[h]
    BY <2>1, <2>2, <1>1 DEF ReturnsEntries
  <2>3. CASE yielded'[h] = Append(yielded[h], n)
    BY <2>1, <2>3, <1>7, <1>1 DEF ReturnsEntries
  <2>. QED  BY <2>2, <2>3, <1>9
<1>11. OwnEntries'
  BY <1>1, <1>8, <1>10 DEF EntriesInv, OwnEntries, ReturnsEntries
<1>12. ASSUME NEW k \in Handles, Owns(k)
       PROVE  /\ ToCome(k)' \subseteq Listing[path[k]]
              /\ found[k] \notin stream'[dir[k]].left
              /\ \A i \in DOMAIN yielded'[k] : yielded'[k][i] \notin ToCome(k)'
  <2>1. CASE k = h
    <3>1. /\ ToCome(h)' = stream[dir[h]].left \ {n}
          /\ ToCome(h) = stream[dir[h]].left
      BY <1>1, <1>4 DEF ToCome
    <3>2. \A i \in DOMAIN yielded'[h] : yielded'[h][i] \notin stream[dir[h]].left \ {n}
      <4>1. \A i \in DOMAIN yielded[h] : yielded[h][i] \notin stream[dir[h]].left
        BY <1>1, <3>1 DEF EntriesInv, ReadsOwn
      <4>. QED  BY <4>1, <1>7, <1>9
    <3>. QED  BY <2>1, <3>1, <3>2, <1>1, <1>4 DEF EntriesInv, ReadsOwn
  <2>2. CASE k # h
    <3>1. dir[k] \in Addresses /\ dir[k] # dir[h]
      BY <2>2, <1>1, <1>12 DEF EntriesInv, OneOwner
    <3>2. ToCome(k)' = ToCome(k) /\ stream'[dir[k]] = stream[dir[k]]
      BY <3>1, <1>1, <1>3 DEF ToCome
    <3>. QED  BY <3>2, <2>2, <1>8, <1>12 DEF EntriesInv, ReadsOwn
  <2>. QED  BY <2>1, <2>2
<1>13. ReadsOwn'
  BY <1>1, <1>2, <1>12 DEF ReadsOwn
<1>. QED  BY <1>6, <1>11, <1>13

LEMMA EndPaired ==
  ASSUME EntriesInv, platform' = platform, NEW h \in Handles, NextEnd(h)
  PROVE  Paired'
<1>1. /\ held[h] = "live" /\ ~ closed[h] /\ closed' = [closed EXCEPT ![h] = TRUE]
      /\ stream' = [stream EXCEPT ![dir[h]] = None]
      /\ UNCHANGED <<orphans, crashed, dir, found, held, path, yielded, stopped>>
  BY DEF NextEnd, Reading, CloseDir, Release, ClosedAt, AnswerEnd
<1>2. Unread' /\ Owns(h) /\ ~ Owns(h)' /\ (Sound' => Sound)
  BY <1>1 DEF EntriesInv, Unread, TypeOK, Owns, Sound
<1>3. \A k \in Handles \ {h} : Owns(k)' <=> Owns(k)
  BY <1>1 DEF EntriesInv, TypeOK, Owns
<1>. QED  BY <1>1, <1>2, <1>3, ReleasePaired

LEMMA UndefinedPaired ==
  ASSUME EntriesInv, platform' = platform, NEW h \in Handles, NextUndefined(h)
  PROVE  Paired'
<1>1. /\ held[h] = "live" /\ Owns(h) /\ ~ IsOpen(dir[h])
      /\ UNCHANGED <<stream, orphans, dir, closed, found, held, path, yielded, stopped>>
  BY DEF NextUndefined, Reading, Owns, Undefined, AnswerFail, entries
<1>2. ~ Sound /\ ~ Sound' /\ Unread'
  BY <1>1 DEF EntriesInv, OneOwner, Sound, Unread
<1>. QED  BY <1>2 DEF Paired, OneOwner, OwnEntries

(* Close and Collect of a handle that owns its stream.                     *)
LEMMA ClosePaired ==
  ASSUME EntriesInv, platform' = platform, NEW h \in Handles, Close(h)
  PROVE  Paired'
<1>1. /\ held[h] = "live" /\ ReadDirClose(h)
      /\ stopped' = IF closed[h] THEN stopped ELSE stopped \cup {h}
      /\ UNCHANGED <<orphans, dir, found, held, path, yielded>>
  BY DEF Close
<1>2. Unread' /\ (Sound' => Sound)
  BY <1>1 DEF EntriesInv, Unread, TypeOK, ReadDirClose, CloseUnix, CloseWindows,
              ClosedAt, Sound
<1>3. CASE closed[h]
  <2>1. UNCHANGED <<stream, crashed, closed>>
    BY <1>1, <1>3 DEF ReadDirClose, CloseUnix, CloseWindows
  <2>2. \A k \in Handles : Owns(k)' <=> Owns(k)
    BY <1>1, <2>1 DEF Owns
  <2>. QED  BY <1>1, <1>2, <2>1, <2>2, QuietPaired
<1>4. CASE ~ closed[h] /\ platform = "unix"
  <2>1. ~ Sound'
    BY <1>1, <1>4 DEF Sound
  <2>. QED  BY <2>1, <1>2 DEF Paired, OneOwner, OwnEntries
<1>5. CASE ~ closed[h] /\ platform = "windows"
  <2>1. Owns(h) /\ IsOpen(dir[h])
    BY <1>1, <1>5 DEF Owns, EntriesInv, OneOwner, Sound
  <2>2. /\ stream' = [stream EXCEPT ![dir[h]] = None] /\ crashed' = crashed
        /\ closed' = [closed EXCEPT ![h] = TRUE]
    BY <1>1, <1>5, <2>1
    DEF ReadDirClose, CloseWindows, CloseDir, Undefined, Release, ClosedAt
  <2>3. ~ Owns(h)' /\ \A k \in Handles \ {h} : Owns(k)' <=> Owns(k)
    BY <1>1, <2>2 DEF EntriesInv, TypeOK, Owns
  <2>. QED  BY <1>1, <1>2, <2>1, <2>2, <2>3, ReleasePaired
<1>6. platform \in {"unix", "windows"}
  BY DEF EntriesInv, TypeOK
<1>. QED  BY <1>3, <1>4, <1>5, <1>6

LEMMA CollectPaired ==
  ASSUME EntriesInv, platform' = platform, NEW h \in Handles, Collect(h)
  PROVE  Paired'
<1>1. /\ held[h] = "dropped" /\ ReadDirClose(h)
      /\ held' = [held EXCEPT ![h] = "collected"]
      /\ UNCHANGED <<orphans, dir, found, path, yielded, stopped>>
  BY DEF Collect, history
<1>2. closed' = closed \/ closed' = [closed EXCEPT ![h] = TRUE]
  BY <1>1 DEF ReadDirClose, CloseUnix, CloseWindows, ClosedAt
<1>3. /\ Unread' /\ (Sound' <=> Sound) /\ ~ Owns(h)'
      /\ \A k \in Handles \ {h} : Owns(k)' <=> Owns(k)
  BY <1>1, <1>2 DEF EntriesInv, Unread, TypeOK, Sound, Owns
<1>4. CASE closed[h]
  <2>1. UNCHANGED <<stream, crashed, closed>>
    BY <1>1, <1>4 DEF ReadDirClose, CloseUnix, CloseWindows
  <2>2. ~ Owns(h)
    BY <1>4 DEF Owns
  <2>. QED  BY <1>1, <1>3, <2>1, <2>2, QuietPaired
<1>5. CASE ~ Sound
  BY <1>5, <1>3 DEF Paired, OneOwner, OwnEntries
<1>6. CASE ~ closed[h] /\ Sound
  <2>1. Owns(h) /\ IsOpen(dir[h])
    BY <1>1, <1>6 DEF Owns, EntriesInv, OneOwner
  <2>2. stream' = [stream EXCEPT ![dir[h]] = None] /\ crashed' = crashed
    BY <1>1, <1>6, <2>1
    DEF ReadDirClose, CloseUnix, CloseWindows, CloseDir, Undefined, Release
  <2>. QED  BY <1>1, <1>3, <2>1, <2>2, ReleasePaired
<1>. QED  BY <1>4, <1>5, <1>6

LEMMA InvStep == EntriesInv /\ [Next]_vars => EntriesInv'
<1> SUFFICES ASSUME EntriesInv, [Next]_vars PROVE EntriesInv'
  OBVIOUS
<1>t. TypeOK'
  BY TypeStep DEF EntriesInv
<1> SUFFICES Paired'
  BY <1>t DEF EntriesInv, Paired
<1>p. platform' = platform
  BY DEF Next, vars
<1>1. CASE UNCHANGED vars
  <2>1. Unread' /\ (Sound' => Sound) /\ \A k \in Handles : Owns(k)' <=> Owns(k)
    BY <1>1 DEF vars, host, entries, history, EntriesInv, Unread, Sound, Owns
  <2>. QED  BY <1>1, <2>1, <1>p, QuietPaired DEF vars, host, entries, history
<1>2. ASSUME NEW h \in Handles, NextClosed(h) \/ NextFails(h) PROVE Paired'
  <2>1. UNCHANGED <<stream, orphans, crashed, dir, closed, found, held, path, yielded, stopped>>
    BY <1>2 DEF NextClosed, NextFails, AnswerEnd, AnswerFail, host, entries
  <2>2. Unread' /\ (Sound' => Sound) /\ \A k \in Handles : Owns(k)' <=> Owns(k)
    BY <2>1, <1>p DEF EntriesInv, Unread, Sound, Owns
  <2>. QED  BY <2>1, <2>2, <1>p, QuietPaired
<1>3. ASSUME NEW h \in Handles, Drop(h) PROVE Paired'
  <2>1. /\ held[h] = "live" /\ held' = [held EXCEPT ![h] = "dropped"]
        /\ UNCHANGED <<stream, orphans, crashed, dir, closed, found, path, yielded, stopped>>
    BY <1>3 DEF Drop, host, entries, history
  <2>2. Unread' /\ (Sound' => Sound) /\ \A k \in Handles : Owns(k)' <=> Owns(k)
    BY <2>1, <1>p DEF EntriesInv, Unread, Sound, Owns, TypeOK
  <2>. QED  BY <2>1, <2>2, <1>p, QuietPaired
<1>. QED
  BY <1>1, <1>2, <1>3, <1>t, <1>p, EntriesPaired, RaisesPaired, FirstPaired, ReadPaired,
     EndPaired, UndefinedPaired, ClosePaired, CollectPaired
  DEF Next, Step

---------------------------------------------------------------------------
(* The strengthening of NothingSkipped: as long as the end has not come,   *)
(* what was not returned is still to come.                                 *)
Given(h, n) == \E i \in DOMAIN yielded[h] : yielded[h][i] = n

Covered(h) == \A n \in Listing[path[h]] : n \in ToCome(h) \/ Given(h, n)

ListInv ==
  Sound => \A h \in Handles :
    /\ Owns(h) /\ listing[h] = "partial" => Covered(h)
    /\ held[h] \in {"live", "dropped"} /\ closed[h] => listing[h] # "partial"
    /\ listing[h] = "complete" => closed[h] /\ \A n \in Listing[path[h]] : Given(h, n)

LEMMA ListInit == Init => ListInv
BY DEF Init, ListInv, Owns

(* A step that changes nothing of a handle.                                *)
LEMMA ListSame ==
  ASSUME NEW h \in Handles, held'[h] = held[h], closed'[h] = closed[h],
         listing'[h] = listing[h], path'[h] = path[h], yielded'[h] = yielded[h],
         dir'[h] = dir[h], found'[h] = found[h],
         Owns(h) => stream'[dir[h]] = stream[dir[h]]
  PROVE  /\ Owns(h)' <=> Owns(h)
         /\ Owns(h) => (Covered(h) => Covered(h)')
         /\ \A n \in Listing[path[h]] : Given(h, n) => Given(h, n)'
BY DEF Owns, Covered, Given, ToCome

LEMMA ListEntries ==
  ASSUME EntriesInv, ListInv, Sound, platform' = platform, NEW h \in Handles, NEW p \in Paths,
         NEW a \in Addresses, NEW first \in FirstFound(p), Entries(h, p, a, first)
  PROVE  ListInv'
<1>1. /\ stream[a] = None /\ stream' = [stream EXCEPT ![a] = [path |-> p, left |-> Listing[p] \ {first}]]
      /\ dir' = [dir EXCEPT ![h] = a] /\ held' = [held EXCEPT ![h] = "live"]
      /\ found' = [found EXCEPT ![h] = first] /\ path' = [path EXCEPT ![h] = p]
      /\ held[h] = "unused" /\ UNCHANGED <<closed, yielded, listing>>
  BY DEF Entries, Open, IsOpen
<1>2. ~ closed[h] /\ listing[h] # "complete"
  BY <1>1 DEF EntriesInv, Unread, ListInv
<1>3. Covered(h)'
  BY <1>1, EntriesAssumption DEF Covered, ToCome, EntriesInv, TypeOK, FirstFound
<1>4. ASSUME NEW k \in Handles \ {h}
      PROVE  /\ Owns(k)' <=> Owns(k)
             /\ Owns(k) => (Covered(k) => Covered(k)')
             /\ \A n \in Listing[path[k]] : Given(k, n) => Given(k, n)'
  <2>1. /\ held'[k] = held[k] /\ closed'[k] = closed[k] /\ listing'[k] = listing[k]
        /\ path'[k] = path[k] /\ yielded'[k] = yielded[k] /\ dir'[k] = dir[k]
        /\ found'[k] = found[k]
    BY <1>1 DEF EntriesInv, TypeOK
  <2>2. Owns(k) => dir[k] # a
    BY <1>1 DEF EntriesInv, OneOwner, IsOpen
  <2>3. Owns(k) => stream'[dir[k]] = stream[dir[k]]
    BY <1>1, <2>2 DEF EntriesInv, OneOwner, TypeOK
  <2>. QED  BY <2>1, <2>3, ListSame
<1>5. ASSUME NEW k \in Handles \ {h}
      PROVE  held'[k] = held[k] /\ path'[k] = path[k]
  BY <1>1 DEF EntriesInv, TypeOK
<1>. QED  BY <1>1, <1>2, <1>3, <1>4, <1>5 DEF ListInv

(* A name is returned, or the reading of it reported as an error.          *)
LEMMA ListGives ==
  ASSUME EntriesInv, ListInv, Sound, platform' = platform, NEW h \in Handles,
         NEW n \in Names, Owns(h), held[h] = "live",
         UNCHANGED <<dir, closed, held, path>>,
         \A k \in Handles \ {h} :
           /\ found'[k] = found[k]
           /\ Owns(k) => stream'[dir[k]] = stream[dir[k]],
         ToCome(h)' = ToCome(h) \ {n},
         \/ Answer(h, n) \/ AnswerFail(h)
  PROVE  ListInv'
<1>1. \A k \in Handles \ {h} : yielded'[k] = yielded[k] /\ listing'[k] = listing[k]
  BY DEF Answer, AnswerFail, EntriesInv, TypeOK
<1>2. ASSUME NEW k \in Handles \ {h}
      PROVE  /\ Owns(k)' <=> Owns(k)
             /\ Owns(k) => (Covered(k) => Covered(k)')
             /\ \A m \in Listing[path[k]] : Given(k, m) => Given(k, m)'
  <2>1. /\ held'[k] = held[k] /\ closed'[k] = closed[k] /\ listing'[k] = listing[k]
        /\ path'[k] = path[k] /\ yielded'[k] = yielded[k] /\ dir'[k] = dir[k]
        /\ found'[k] = found[k] /\ (Owns(k) => stream'[dir[k]] = stream[dir[k]])
    BY <1>1
  <2>. QED  BY <2>1, ListSame
<1>3. ~ closed[h] /\ listing[h] # "complete"
  BY DEF Owns, ListInv
<1>4. CASE AnswerFail(h)
  <2>1. listing'[h] = "spoiled"
    BY <1>4 DEF AnswerFail, EntriesInv, TypeOK
  <2>. QED  BY <1>1, <1>2, <1>3, <2>1 DEF ListInv
<1>5. CASE Answer(h, n)
  <2>1. listing' = listing /\ yielded'[h] = Append(yielded[h], n) /\ yielded[h] \in Seq(Names)
    BY <1>5 DEF Answer, EntriesInv, TypeOK
  <2>2. \A m \in Names : Given(h, m) \/ m = n => Given(h, m)'
    <3>1. \A i \in DOMAIN yielded[h] : i \in DOMAIN yielded'[h] /\ yielded'[h][i] = yielded[h][i]
      BY <2>1
    <3>2. Len(yielded[h]) + 1 \in DOMAIN yielded'[h] /\ yielded'[h][Len(yielded[h]) + 1] = n
      BY <2>1
    <3>. QED  BY <3>1, <3>2 DEF Given
  <2>3. Covered(h) => Covered(h)'
    <3>1. ASSUME Covered(h), NEW m \in Listing[path[h]] PROVE m \in ToCome(h)' \/ Given(h, m)'
      <4>1. m \in ToCome(h) \/ Given(h, m)
        BY <3>1 DEF Covered
      <4>2. m \in Names
        BY <4>1, <2>1 DEF ToCome, Given, EntriesInv, TypeOK, Streams, Owns, OneOwner, IsOpen
      <4>. QED  BY <4>1, <4>2, <2>2
    <3>. QED  BY <3>1 DEF Covered
  <2>. QED  BY <1>1, <1>2, <1>3, <2>1, <2>3 DEF ListInv
<1>. QED  BY <1>4, <1>5

LEMMA ListReads ==
  ASSUME EntriesInv, ListInv, Sound, platform' = platform, NEW h \in Handles,
         NextFirst(h) \/ \E n \in Names : NextRead(h, n)
  PROVE  ListInv'
<1>1. held[h] = "live" /\ Owns(h) /\ UNCHANGED <<dir, closed, held, path>>
  BY DEF NextFirst, NextRead, Reading, Owns, Answer, AnswerFail, entries
<1>2. CASE NextFirst(h)
  <2>1. /\ found[h] \in Names /\ found' = [found EXCEPT ![h] = None] /\ UNCHANGED stream
        /\ Answer(h, found[h]) \/ AnswerFail(h)
    BY <1>2 DEF NextFirst, EntriesInv, TypeOK, host
  <2>2. found[h] \notin stream[dir[h]].left /\ found'[h] = None /\ found[h] # None
    BY <1>1, <2>1, <1>2 DEF NextFirst, EntriesInv, ReadsOwn, TypeOK
  <2>3. ToCome(h)' = ToCome(h) \ {found[h]}
    BY <1>1, <2>1, <2>2 DEF ToCome
  <2>4. \A k \in Handles \ {h} : found'[k] = found[k] /\ stream'[dir[k]] = stream[dir[k]]
    BY <2>1 DEF EntriesInv, TypeOK
  <2>. QED  BY <1>1, <2>1, <2>3, <2>4, ListGives
<1>3. ASSUME NEW n \in Names, NextRead(h, n) PROVE ListInv'
  <2>1. /\ found[h] = None /\ UNCHANGED found /\ n \in stream[dir[h]].left
        /\ stream' = [stream EXCEPT ![dir[h]].left = @ \ {n}]
        /\ Answer(h, n) \/ AnswerFail(h)
    BY <1>3 DEF NextRead, entries
  <2>2. dir[h] \in Addresses /\ stream[dir[h]] \in Streams
    BY <1>1 DEF EntriesInv, OneOwner, TypeOK, IsOpen
  <2>3. stream'[dir[h]].left = stream[dir[h]].left \ {n}
    BY <2>1, <2>2 DEF EntriesInv, TypeOK, Streams
  <2>4. ToCome(h)' = ToCome(h) \ {n}
    BY <1>1, <2>1, <2>3 DEF ToCome
  <2>5. \A k \in Handles \ {h} : Owns(k) => dir[k] # dir[h] /\ dir[k] \in Addresses
    BY <1>1 DEF EntriesInv, OneOwner
  <2>6. \A k \in Handles \ {h} : Owns(k) => stream'[dir[k]] = stream[dir[k]]
    BY <2>1, <2>2, <2>5 DEF EntriesInv, TypeOK
  <2>. QED  BY <1>1, <2>1, <2>4, <2>6, ListGives
<1>. QED  BY <1>2, <1>3

(* The handle is closed, at the end, by hand or by the collector, or the   *)
(* program drops it; or next answers again what it had answered.           *)
LEMMA ListCloses ==
  ASSUME EntriesInv, ListInv, Sound, NEW h \in Handles,
         UNCHANGED <<dir, found, path, yielded>>,
         \A k \in Handles \ {h} :
           /\ held'[k] = held[k] /\ closed'[k] = closed[k] /\ listing'[k] = listing[k]
           /\ Owns(k) => stream'[dir[k]] = stream[dir[k]],
         Owns(h)' => stream'[dir[h]] = stream[dir[h]] /\ Owns(h) /\ listing'[h] # "complete",
         listing'[h] = "partial" => listing[h] = "partial",
         held'[h] \in {"live", "dropped"} /\ closed'[h] => listing'[h] # "partial",
         listing'[h] = "complete" =>
           closed'[h] /\ (listing[h] = "complete" \/ (Covered(h) /\ ToCome(h) = {}))
  PROVE  ListInv'
<1>1. ASSUME NEW k \in Handles \ {h}
      PROVE  /\ Owns(k)' <=> Owns(k)
             /\ Owns(k) => (Covered(k) => Covered(k)')
             /\ \A n \in Listing[path[k]] : Given(k, n) => Given(k, n)'
  BY <1>1, ListSame
<1>2. \A n \in Listing[path[h]] : Given(h, n) => Given(h, n)'
  BY DEF Given
<1>3. Owns(h)' => (Covered(h) => Covered(h)')
  BY <1>2 DEF Covered, ToCome
<1>4. Covered(h) /\ ToCome(h) = {} => \A n \in Listing[path[h]] : Given(h, n)
  BY DEF Covered
<1>. QED  BY <1>1, <1>2, <1>3, <1>4 DEF ListInv

LEMMA ListStep ==
  ASSUME EntriesInv, ListInv, [Next]_vars
  PROVE  ListInv'
<1>p. platform' = platform
  BY DEF Next, vars
<1>0. CASE ~ Sound'
  BY <1>0 DEF ListInv
<1>s. SUFFICES ASSUME Sound' PROVE ListInv'
  BY <1>0
<1>1. CASE UNCHANGED vars
  <2>1. UNCHANGED <<stream, dir, closed, found, held, path, yielded, listing, stopped>>
    BY <1>1 DEF vars, host, entries, history
  <2>. QED  BY <2>1, <1>p DEF ListInv, Sound, Owns, Covered, Given, ToCome
<1>2. ASSUME NEW p \in Paths, NEW a \in Addresses, EntriesRaises(p, a) PROVE ListInv'
  <2>1. /\ UNCHANGED <<dir, closed, found, held, path, yielded, listing, stopped>>
        /\ stream[a] = None /\ stream' = [stream EXCEPT ![a] = [path |-> p, left |-> Listing[p]]]
    BY <1>2 DEF EntriesRaises, entries, history, Open, IsOpen
  <2>2. Sound
    BY <1>s, <1>p, <2>1 DEF Sound
  <2>3. \A k \in Handles : Owns(k) => stream'[dir[k]] = stream[dir[k]]
    BY <2>1, <2>2 DEF EntriesInv, OneOwner, TypeOK, IsOpen
  <2>. QED  BY <2>1, <2>2, <2>3 DEF ListInv, Owns, Covered, Given, ToCome
<1>3. ASSUME NEW h \in Handles, NEW p \in Paths, NEW a \in Addresses,
             NEW first \in FirstFound(p), Entries(h, p, a, first)
      PROVE  ListInv'
  <2>1. Sound
    BY <1>s, <1>p, <1>3 DEF Sound, Entries
  <2>. QED  BY <1>p, <1>3, <2>1, ListEntries
<1>4. ASSUME NEW h \in Handles, NextFirst(h) \/ \E n \in Names : NextRead(h, n)
      PROVE  ListInv'
  <2>1. Sound
    BY <1>s, <1>p, <1>4 DEF Sound, NextFirst, NextRead, Answer, AnswerFail
  <2>. QED  BY <1>p, <1>4, <2>1, ListReads
<1>5. ASSUME NEW h \in Handles, NextClosed(h) \/ NextFails(h) PROVE ListInv'
  <2>1. /\ UNCHANGED <<stream, dir, closed, found, held, path, yielded, stopped>>
        /\ held[h] = "live" /\ \A k \in Handles \ {h} : listing'[k] = listing[k]
    BY <1>5 DEF NextClosed, NextFails, Reading, AnswerEnd, AnswerFail, host, entries,
               EntriesInv, TypeOK
  <2>2. Sound
    BY <1>s, <1>p, <2>1 DEF Sound
  <2>3. CASE NextFails(h)
    <3>1. listing'[h] = "spoiled"
      BY <2>3 DEF NextFails, AnswerFail, EntriesInv, TypeOK
    <3>2. Owns(h)' => Owns(h)
      BY <2>1 DEF Owns
    <3>. QED  BY <2>1, <2>2, <3>1, <3>2, ListCloses
  <2>4. CASE NextClosed(h)
    <3>1. closed[h] /\ listing[h] # "partial" /\ ~ Owns(h)'
      BY <2>1, <2>2, <2>4 DEF NextClosed, ListInv, Owns
    <3>2. listing'[h] = listing[h]
      BY <2>4, <3>1 DEF NextClosed, AnswerEnd, EntriesInv, TypeOK
    <3>. QED  BY <2>1, <2>2, <3>1, <3>2, ListCloses
  <2>. QED  BY <1>5, <2>3, <2>4
<1>6. ASSUME NEW h \in Handles, NextEnd(h) PROVE ListInv'
  <2>1. /\ held[h] = "live" /\ ~ closed[h] /\ found[h] = None /\ stream[dir[h]].left = {}
        /\ stream' = [stream EXCEPT ![dir[h]] = None]
        /\ closed' = [closed EXCEPT ![h] = TRUE]
        /\ UNCHANGED <<dir, found, held, path, yielded, stopped>>
        /\ listing' = [listing EXCEPT ![h] = IF @ = "spoiled" THEN @ ELSE "complete"]
    BY <1>6 DEF NextEnd, Reading, CloseDir, Release, ClosedAt, AnswerEnd
  <2>2. Sound /\ Owns(h) /\ ToCome(h) = {}
    BY <1>s, <1>p, <2>1 DEF Sound, Owns, ToCome
  <2>3. /\ closed'[h] /\ ~ Owns(h)'
        /\ \A k \in Handles \ {h} : closed'[k] = closed[k] /\ listing'[k] = listing[k]
        /\ listing'[h] \in {"spoiled", "complete"}
        /\ listing'[h] = "complete" => listing[h] # "spoiled"
    BY <2>1 DEF Owns, EntriesInv, TypeOK
  <2>4. listing'[h] = "complete" => Covered(h)
    BY <2>1, <2>2, <2>3 DEF ListInv, EntriesInv, TypeOK
  <2>5. \A k \in Handles \ {h} : Owns(k) => stream'[dir[k]] = stream[dir[k]]
    BY <2>1, <2>2 DEF EntriesInv, OneOwner, TypeOK
  <2>. QED  BY <2>1, <2>2, <2>3, <2>4, <2>5, ListCloses
<1>7. ASSUME NEW h \in Handles, NextUndefined(h) PROVE ListInv'
  <2>1. UNCHANGED stopped /\ Owns(h) /\ ~ IsOpen(dir[h])
    BY <1>7 DEF NextUndefined, AnswerFail, Reading, Owns, Undefined
  <2>2. ~ Sound
    BY <2>1 DEF EntriesInv, OneOwner
  <2>. QED  BY <1>s, <1>p, <2>1, <2>2 DEF Sound
<1>8. ASSUME NEW h \in Handles, Close(h) PROVE ListInv'
  <2>1. /\ held[h] = "live" /\ ReadDirClose(h)
        /\ listing' = [listing EXCEPT ![h] = "spoiled"]
        /\ stopped' = IF closed[h] THEN stopped ELSE stopped \cup {h}
        /\ UNCHANGED <<dir, found, held, path, yielded>>
    BY <1>8 DEF Close
  <2>2. Sound /\ (platform = "windows" \/ closed[h])
    BY <1>s, <1>p, <2>1 DEF Sound
  <2>3. CASE closed[h]
    <3>1. UNCHANGED <<stream, closed>>
      BY <2>1, <2>3 DEF ReadDirClose, CloseUnix, CloseWindows
    <3>2. listing'[h] = "spoiled" /\ \A k \in Handles \ {h} : listing'[k] = listing[k]
      BY <2>1 DEF EntriesInv, TypeOK
    <3>3. ~ Owns(h)'
      BY <2>3, <3>1 DEF Owns
    <3>. QED  BY <2>1, <2>2, <3>1, <3>2, <3>3, ListCloses
  <2>4. CASE ~ closed[h]
    <3>1. Owns(h) /\ IsOpen(dir[h])
      BY <2>1, <2>2, <2>4 DEF Owns, EntriesInv, OneOwner
    <3>2. /\ stream' = [stream EXCEPT ![dir[h]] = None]
          /\ closed' = [closed EXCEPT ![h] = TRUE]
      BY <2>1, <2>2, <2>4, <3>1
      DEF ReadDirClose, CloseWindows, CloseDir, Undefined, Release, ClosedAt
    <3>3. /\ closed'[h] /\ ~ Owns(h)' /\ listing'[h] = "spoiled"
          /\ \A k \in Handles \ {h} : closed'[k] = closed[k] /\ listing'[k] = listing[k]
      BY <2>1, <3>2 DEF Owns, EntriesInv, TypeOK
    <3>4. \A k \in Handles \ {h} : Owns(k) => stream'[dir[k]] = stream[dir[k]]
      BY <2>2, <3>1, <3>2 DEF EntriesInv, OneOwner, TypeOK
    <3>. QED  BY <2>1, <2>2, <3>3, <3>4, ListCloses
  <2>. QED  BY <2>3, <2>4
<1>9. ASSUME NEW h \in Handles, Drop(h) PROVE ListInv'
  <2>1. /\ held[h] = "live" /\ held' = [held EXCEPT ![h] = "dropped"]
        /\ UNCHANGED <<stream, dir, closed, found, path, yielded, listing, stopped>>
    BY <1>9 DEF Drop, host, entries, history
  <2>2. Sound
    BY <1>s, <1>p, <2>1 DEF Sound
  <2>3. held'[h] = "dropped" /\ \A k \in Handles \ {h} : held'[k] = held[k]
    BY <2>1 DEF EntriesInv, TypeOK
  <2>4. Owns(h)' => Owns(h) /\ listing[h] # "complete"
    BY <2>1, <2>2 DEF Owns, ListInv
  <2>5. closed'[h] => listing'[h] # "partial"
    BY <2>1, <2>2 DEF ListInv
  <2>6. listing'[h] = "complete" => closed'[h] /\ listing[h] = "complete"
    BY <2>1, <2>2 DEF ListInv
  <2>. QED  BY <2>1, <2>2, <2>3, <2>4, <2>5, <2>6, ListCloses
<1>10. ASSUME NEW h \in Handles, Collect(h) PROVE ListInv'
  <2>1. /\ held[h] = "dropped" /\ ReadDirClose(h)
        /\ held' = [held EXCEPT ![h] = "collected"]
        /\ UNCHANGED <<dir, found, path, yielded, listing, stopped>>
    BY <1>10 DEF Collect, history
  <2>2. Sound
    BY <1>s, <1>p, <2>1 DEF Sound
  <2>3. closed' = closed \/ closed' = [closed EXCEPT ![h] = TRUE]
    BY <2>1 DEF ReadDirClose, CloseUnix, CloseWindows, ClosedAt
  <2>4. /\ held'[h] = "collected" /\ \A k \in Handles \ {h} : held'[k] = held[k]
        /\ \A k \in Handles \ {h} : closed'[k] = closed[k]
        /\ ~ Owns(h)' /\ (closed[h] => closed'[h])
    BY <2>1, <2>3 DEF Owns, EntriesInv, TypeOK
  <2>5. \A k \in Handles \ {h} : Owns(k) => stream'[dir[k]] = stream[dir[k]]
    <3>1. CASE closed[h]
      BY <2>1, <3>1 DEF ReadDirClose, CloseUnix, CloseWindows
    <3>2. CASE ~ closed[h]
      <4>1. Owns(h) /\ IsOpen(dir[h])
        BY <2>1, <2>2, <3>2 DEF Owns, EntriesInv, OneOwner
      <4>2. stream' = [stream EXCEPT ![dir[h]] = None]
        BY <2>1, <3>2, <4>1
        DEF ReadDirClose, CloseUnix, CloseWindows, CloseDir, Undefined, Release
      <4>. QED  BY <2>2, <4>1, <4>2 DEF EntriesInv, OneOwner, TypeOK
    <3>. QED  BY <3>1, <3>2
  <2>6. listing'[h] = "complete" => closed'[h] /\ listing[h] = "complete"
    BY <2>1, <2>2, <2>4 DEF ListInv
  <2>. QED  BY <2>1, <2>2, <2>4, <2>5, <2>6, ListCloses
<1>. QED
  BY <1>1, <1>2, <1>3, <1>4, <1>5, <1>6, <1>7, <1>8, <1>9, <1>10 DEF Next, Step

---------------------------------------------------------------------------
(* The handles and the streams keep their types.                           *)
THEOREM EntriesTypeCorrect == Spec => []TypeOK
BY TypeInit, TypeStep, PTL DEF Spec

(* Streams and the handles that will close them stay paired, and nothing   *)
(* undefined happens, as long as no handle is closed by hand on Unix.      *)
THEOREM StreamsOwned == Spec => []OneOwner
<1>1. EntriesInv => OneOwner
  BY DEF EntriesInv
<1>. QED  BY InvInit, InvStep, <1>1, PTL DEF Spec

(* Under the same condition an iterator returns entries of the directory   *)
(* it was asked for, each at most once.                                    *)
THEOREM IteratorsApart == Spec => []OwnEntries
<1>1. EntriesInv => OwnEntries
  BY DEF EntriesInv
<1>. QED  BY InvInit, InvStep, <1>1, PTL DEF Spec

(* Under the same condition an iterator that reaches its end, with no      *)
(* error on the way and nobody closing it, has returned every entry.       *)
THEOREM ListingsComplete == Spec => []NothingSkipped
<1>1. EntriesInv /\ ListInv /\ [Next]_vars => EntriesInv' /\ ListInv'
  BY InvStep, ListStep
<1>2. ListInv => NothingSkipped
  BY DEF ListInv, NothingSkipped, Given
<1>. QED  BY InvInit, ListInit, <1>1, <1>2, PTL DEF Spec
=============================================================================
