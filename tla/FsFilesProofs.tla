---------------------------- MODULE FsFilesProofs ----------------------------
(***************************************************************************)
(* Proofs about FsFiles, for any callers, calls, directories and files and *)
(* any size of the buffer: a file is written only by a copy that may, and  *)
(* an undisturbed copy to a new file is exact.                             *)
(***************************************************************************)
EXTENDS FsFiles, SequenceTheorems, TLAPS

Points == Ops \cup {"idle", "open_dst", "read", "write", "rmdir"}

---------------------------------------------------------------------------
(* The inductive invariant of TypeOK: what a name or a descriptor stands   *)
(* for has been made, and the offset of a destination lies within it.      *)
Named  == \A p \in Paths : node[p] # None => kind[node[p]] # None
Unmade == \A i \in Inodes : kind[i] = None => data[i] = <<>>

Opened(c) ==
  /\ pc[c] # "idle" => call[c] # None
  /\ pc[c] = "copy_file" => ~ created[c] /\ rpos[c] = 0 /\ wpos[c] = 0
  /\ pc[c] = "open_dst" =>
       ~ created[c] /\ rpos[c] = 0 /\ wpos[c] = 0
       /\ src_fd[c] # None /\ kind[src_fd[c]] # None
  /\ pc[c] \in {"read", "write"} =>
       /\ src_fd[c] # None /\ kind[src_fd[c]] # None
       /\ dst_fd[c] # None /\ kind[dst_fd[c]] # None
       /\ wpos[c] <= Len(data[dst_fd[c]])
       /\ call[c].overwrite \/ created[c]

FilesInv == TypeOK /\ Named /\ Unmade /\ \A c \in Callers : Opened(c)

(* Writing within a file keeps it a file, and makes it no shorter.         *)
LEMMA OverwrittenType ==
  ASSUME NEW S, NEW d \in Seq(S), NEW w \in 0 .. Len(d), NEW s \in Seq(S)
  PROVE  /\ Overwritten(d, w, s) \in Seq(S)
         /\ Len(Overwritten(d, w, s)) >= Len(d)
         /\ Len(Overwritten(d, w, s)) >= w + Len(s)
<1> DEFINE a == SubSeq(d, 1, w)
           z == SubSeq(d, w + Len(s) + 1, Len(d))
<1>1. Len(d) \in Nat /\ Len(s) \in Nat
  BY LenProperties
<1>2. a \in Seq(S) /\ Len(a) = w
  BY <1>1, SubSeqProperties
<1>3. z \in Seq(S) /\ Len(z) >= Len(d) - (w + Len(s)) /\ Len(z) \in Nat
  BY <1>1, SubSeqProperties
<1> HIDE DEF a, z
<1>4. a \o s \in Seq(S) /\ Len(a \o s) = w + Len(s)
  BY <1>1, <1>2, ConcatProperties
<1>5. (a \o s) \o z \in Seq(S) /\ Len((a \o s) \o z) = w + Len(s) + Len(z)
  BY <1>3, <1>4, ConcatProperties
<1>6. Overwritten(d, w, s) = (a \o s) \o z
  BY DEF Overwritten, a, z
<1>. QED  BY <1>1, <1>3, <1>5, <1>6

(* Writing at the end appends.                                             *)
LEMMA OverwrittenEnd ==
  ASSUME NEW S, NEW d \in Seq(S), NEW s \in Seq(S)
  PROVE  Overwritten(d, Len(d), s) = d \o s
<1>1. Len(d) \in Nat /\ Len(s) \in Nat
  BY LenProperties
<1>2. SubSeq(d, 1, Len(d)) = d
  BY SubSeqFull
<1>3. SubSeq(d, Len(d) + Len(s) + 1, Len(d)) = << >>
  BY <1>1, SubSeqEmpty
<1>4. d \o s \in Seq(S)
  BY ConcatProperties
<1>5. (d \o s) \o << >> = d \o s
  BY <1>4, ConcatEmptySeq
<1>. QED  BY <1>2, <1>3, <1>5 DEF Overwritten

---------------------------------------------------------------------------
(* What a step of c leaves to the other callers, and what none undoes.     *)
Others(c) ==
  \A d \in Callers : d # c =>
    /\ pc'[d] = pc[d] /\ call'[d] = call[d] /\ created'[d] = created[d]
    /\ src_fd'[d] = src_fd[d] /\ dst_fd'[d] = dst_fd[d]
    /\ rpos'[d] = rpos[d] /\ wpos'[d] = wpos[d]

Lasting ==
  \A i \in Inodes :
    (kind[i] # None => kind'[i] # None) /\ Len(data'[i]) >= Len(data[i])

LEMMA OpenedElsewhere ==
  ASSUME FilesInv, TypeOK', Named', Unmade', NEW c \in Callers, Others(c), Lasting, Opened(c)'
  PROVE  FilesInv'
<1>1. ASSUME NEW d \in Callers, d # c
      PROVE  Opened(d)'
  <2>1. Opened(d)
    BY DEF FilesInv
  <2>2. /\ pc'[d] = pc[d] /\ call'[d] = call[d] /\ created'[d] = created[d]
        /\ src_fd'[d] = src_fd[d] /\ dst_fd'[d] = dst_fd[d]
        /\ rpos'[d] = rpos[d] /\ wpos'[d] = wpos[d]
    BY <1>1 DEF Others
  <2>3. src_fd[d] \in Inodes \cup {None} /\ dst_fd[d] \in Inodes \cup {None} /\ wpos[d] \in Nat
    BY DEF FilesInv, TypeOK
  <2>4. \A i \in Inodes : Len(data[i]) \in Nat /\ Len(data'[i]) \in Nat
    <3>1. \A i \in Inodes : data[i] \in Seq(Units) /\ data'[i] \in Seq(Units)
      BY DEF FilesInv, TypeOK
    <3>. QED  BY <3>1, LenProperties
  <2>5. dst_fd[d] # None => Len(data'[dst_fd[d]]) >= Len(data[dst_fd[d]])
    BY <2>3 DEF Lasting
  <2>6. pc[d] \in {"read", "write"} => wpos[d] <= Len(data'[dst_fd[d]])
    BY <2>1, <2>3, <2>4, <2>5 DEF Opened
  <2>7. /\ src_fd[d] # None /\ kind[src_fd[d]] # None => kind'[src_fd[d]] # None
        /\ dst_fd[d] # None /\ kind[dst_fd[d]] # None => kind'[dst_fd[d]] # None
    BY <2>3 DEF Lasting
  <2>. QED  BY <2>1, <2>2, <2>6, <2>7 DEF Opened
<1>. QED  BY <1>1 DEF FilesInv

(* A step that leaves names and files alone.                               *)
LEMMA DiskAlone ==
  ASSUME FilesInv, UNCHANGED <<node, kind, data>>
  PROVE  Named' /\ Unmade' /\ Lasting
<1>1. \A i \in Inodes : Len(data[i]) \in Nat
  <2>1. \A i \in Inodes : data[i] \in Seq(Units)
    BY DEF FilesInv, TypeOK
  <2>. QED  BY <2>1, LenProperties
<1>. QED  BY <1>1 DEF FilesInv, Named, Unmade, Lasting

LEMMA FilesInit == Init => FilesInv
<1> SUFFICES ASSUME Init PROVE FilesInv
  OBVIOUS
<1>1. PICK t \in Trees : node = t.node /\ kind = t.kind /\ data = t.data
  BY DEF Init
<1>2. t \in Tree
  BY FilesAssumption
<1>3. << >> \in Seq(Units)
  BY EmptySeq
<1>4. TypeOK
  BY <1>1, <1>2, <1>3, FilesAssumption DEF Init, TypeOK, Tree
<1>5. Named /\ Unmade
  BY <1>1, FilesAssumption DEF Named, Unmade
<1>6. \A c \in Callers : Opened(c)
  BY DEF Init, Opened
<1>. QED  BY <1>4, <1>5, <1>6 DEF FilesInv

LEMMA FilesBegin ==
  ASSUME FilesInv, NEW c \in Callers, NEW k \in Calls, Begin(c, k)
  PROVE  FilesInv'
<1>1. k.op \in Ops /\ k # None
  BY FilesAssumption DEF Call
<1>2. << >> \in Seq(Units)
  BY EmptySeq
<1>3. TypeOK'
  <2>1. /\ UNCHANGED <<disk, spare, result>>
        /\ pc' = [pc EXCEPT ![c] = k.op] /\ call' = [call EXCEPT ![c] = k]
        /\ calls' = calls + 1 /\ calls < MaxCalls
    BY DEF Begin, Goto
  <2>2. calls' \in 0 .. MaxCalls
    BY <2>1, FilesAssumption DEF FilesInv, TypeOK
  <2>3. pc' \in [Callers -> Points] /\ call' \in [Callers -> Calls \cup {None}]
    BY <1>1, <2>1 DEF FilesInv, TypeOK, Points
  <2>4. /\ src_fd' \in [Callers -> Inodes \cup {None}]
        /\ dst_fd' \in [Callers -> Inodes \cup {None}]
        /\ rpos' \in [Callers -> Nat] /\ wpos' \in [Callers -> Nat]
        /\ buf' \in [Callers -> Seq(Units)]
        /\ created' \in [Callers -> BOOLEAN] /\ clean' \in [Callers -> BOOLEAN]
    BY <1>2 DEF FilesInv, TypeOK, Begin
  <2>. QED  BY <2>1, <2>2, <2>3, <2>4 DEF FilesInv, TypeOK, disk, Points
<1>4. Named' /\ Unmade' /\ Lasting
  BY DiskAlone DEF Begin, disk
<1>5. Others(c)
  BY DEF Begin, Goto, Others, FilesInv, TypeOK
<1>6. Opened(c)'
  <2>1. /\ pc'[c] = k.op /\ call'[c] = k /\ ~ created'[c] /\ rpos'[c] = 0 /\ wpos'[c] = 0
    BY DEF Begin, Goto, FilesInv, TypeOK
  <2>2. k.op \notin {"open_dst", "read", "write"}
    BY <1>1 DEF Ops, Queries
  <2>. QED  BY <1>1, <2>1, <2>2 DEF Opened
<1>. QED  BY <1>3, <1>4, <1>5, <1>6, OpenedElsewhere

(* A call that returns without touching names and files.                   *)
LEMMA FilesReturn ==
  ASSUME FilesInv, NEW c \in Callers,
         NoSrc(c) \/ NoDst(c) \/ ReadEnd(c) \/ ReadFails(c) \/ WriteFails(c) \/ Query(c)
  PROVE  FilesInv'
<1>1. /\ UNCHANGED <<disk, call, rpos, wpos, buf, calls, history>>
      /\ pc' = [pc EXCEPT ![c] = "idle"]
      /\ \E o \in {"true", "false", "nil"} : result' = [result EXCEPT ![c] = o]
      /\ src_fd' = src_fd \/ src_fd' = [src_fd EXCEPT ![c] = None]
      /\ dst_fd' = dst_fd \/ dst_fd' = [dst_fd EXCEPT ![c] = None]
      /\ spare' = spare \/ spare' = [spare EXCEPT ![c] = FALSE]
  <2>1. CASE NoSrc(c)
    BY <2>1 DEF NoSrc, Return, copying
  <2>2. CASE NoDst(c)
    BY <2>2 DEF NoDst, Return
  <2>3. CASE ReadEnd(c) \/ ReadFails(c) \/ WriteFails(c)
    BY <2>3 DEF ReadEnd, ReadFails, WriteFails, CopyReturns, Return
  <2>4. CASE Query(c)
    BY <2>4 DEF Query, Return, copying, history
  <2>. QED  BY <2>1, <2>2, <2>3, <2>4
<1>2. TypeOK'
  <2>1. pc' \in [Callers -> Points] /\ result' \in [Callers -> {"none", "true", "false", "nil"}]
    BY <1>1 DEF FilesInv, TypeOK, Points
  <2>2. /\ src_fd' \in [Callers -> Inodes \cup {None}]
        /\ dst_fd' \in [Callers -> Inodes \cup {None}]
        /\ spare' \in [Callers -> BOOLEAN]
    BY <1>1 DEF FilesInv, TypeOK
  <2>. QED  BY <1>1, <2>1, <2>2 DEF FilesInv, TypeOK, disk, history, Points
<1>3. Named' /\ Unmade' /\ Lasting
  BY <1>1, DiskAlone DEF disk
<1>4. Others(c)
  BY <1>1 DEF Others, FilesInv, TypeOK, history
<1>5. Opened(c)'
  <2>1. pc'[c] = "idle"
    BY <1>1 DEF FilesInv, TypeOK
  <2>. QED  BY <2>1 DEF Opened
<1>. QED  BY <1>2, <1>3, <1>4, <1>5, OpenedElsewhere

LEMMA FilesOpenSrc ==
  ASSUME FilesInv, NEW c \in Callers, OpenSrc(c)
  PROVE  FilesInv'
<1> DEFINE i == node[call[c].from]
<1>1. /\ UNCHANGED <<disk, call, dst_fd, rpos, wpos, buf, calls, spare, history, result>>
      /\ pc[c] = "copy_file" /\ pc' = [pc EXCEPT ![c] = "open_dst"]
      /\ src_fd' = [src_fd EXCEPT ![c] = i] /\ i # None
  BY DEF OpenSrc, SrcOpens, Goto, At
<1>2. call[c] # None /\ ~ created[c] /\ rpos[c] = 0 /\ wpos[c] = 0
  BY <1>1 DEF FilesInv, Opened
<1>3. call[c].from \in Paths
  BY <1>2, FilesAssumption DEF FilesInv, TypeOK, Call
<1>4. i \in Inodes /\ kind[i] # None
  BY <1>1, <1>3 DEF FilesInv, TypeOK, Named
<1> HIDE DEF i
<1>5. TypeOK'
  <2>1. pc' \in [Callers -> Points] /\ src_fd' \in [Callers -> Inodes \cup {None}]
    BY <1>1, <1>4 DEF FilesInv, TypeOK, Points
  <2>. QED  BY <1>1, <2>1 DEF FilesInv, TypeOK, disk, history, Points
<1>6. Named' /\ Unmade' /\ Lasting
  BY <1>1, DiskAlone DEF disk
<1>7. Others(c)
  BY <1>1 DEF Others, FilesInv, TypeOK, history
<1>8. Opened(c)'
  <2>1. /\ pc'[c] = "open_dst" /\ src_fd'[c] = i /\ kind'[i] # None /\ call'[c] = call[c]
        /\ created'[c] = created[c] /\ rpos'[c] = rpos[c] /\ wpos'[c] = wpos[c]
    BY <1>1, <1>4 DEF FilesInv, TypeOK, disk, history
  <2>. QED  BY <1>1, <1>2, <1>4, <2>1, FilesAssumption DEF Opened
<1>. QED  BY <1>5, <1>6, <1>7, <1>8, OpenedElsewhere

LEMMA FilesOpenDst ==
  ASSUME FilesInv, NEW c \in Callers, OpenDst(c)
  PROVE  FilesInv'
<1> DEFINE j == node[call[c].to]
<1>1. /\ UNCHANGED <<disk, call, src_fd, rpos, wpos, buf, calls, spare, history, result>>
      /\ pc[c] = "open_dst" /\ pc' = [pc EXCEPT ![c] = "read"]
      /\ dst_fd' = [dst_fd EXCEPT ![c] = j] /\ j # None /\ call[c].overwrite
  BY DEF OpenDst, DstOpens, Goto, At
<1>2. /\ call[c] # None /\ rpos[c] = 0 /\ wpos[c] = 0
      /\ src_fd[c] # None /\ kind[src_fd[c]] # None
  BY <1>1 DEF FilesInv, Opened
<1>3. call[c].to \in Paths
  BY <1>2, FilesAssumption DEF FilesInv, TypeOK, Call
<1>4. j \in Inodes /\ kind[j] # None
  BY <1>1, <1>3 DEF FilesInv, TypeOK, Named
<1> HIDE DEF j
<1>5. TypeOK'
  <2>1. pc' \in [Callers -> Points] /\ dst_fd' \in [Callers -> Inodes \cup {None}]
    BY <1>1, <1>4 DEF FilesInv, TypeOK, Points
  <2>. QED  BY <1>1, <2>1 DEF FilesInv, TypeOK, disk, history, Points
<1>6. Named' /\ Unmade' /\ Lasting
  BY <1>1, DiskAlone DEF disk
<1>7. Others(c)
  BY <1>1 DEF Others, FilesInv, TypeOK, history
<1>8. Opened(c)'
  <2>1. /\ pc'[c] = "read" /\ dst_fd'[c] = j /\ kind' = kind /\ data' = data
        /\ src_fd'[c] = src_fd[c] /\ call'[c] = call[c] /\ wpos'[c] = wpos[c]
    BY <1>1 DEF FilesInv, TypeOK, disk
  <2>2. data[j] \in Seq(Units)
    BY <1>4 DEF FilesInv, TypeOK
  <2>3. Len(data[j]) \in Nat
    BY <2>2, LenProperties
  <2>. QED  BY <1>1, <1>2, <1>4, <2>1, <2>3 DEF Opened
<1>. QED  BY <1>5, <1>6, <1>7, <1>8, OpenedElsewhere

LEMMA FilesCreateDst ==
  ASSUME FilesInv, NEW c \in Callers, NEW i \in Inodes, CreateDst(c, i)
  PROVE  FilesInv'
<1>1. /\ UNCHANGED <<data, call, src_fd, rpos, wpos, buf, calls, spare, clean, result>>
      /\ pc[c] = "open_dst" /\ pc' = [pc EXCEPT ![c] = "read"] /\ kind[i] = None
      /\ node' = [node EXCEPT ![call[c].to] = i] /\ kind' = [kind EXCEPT ![i] = "file"]
      /\ readable' \in {readable, [readable EXCEPT ![i] = FALSE]}
      /\ dst_fd' = [dst_fd EXCEPT ![c] = i] /\ created' = [created EXCEPT ![c] = TRUE]
  BY DEF CreateDst, Goto, At, Made
<1>2. /\ call[c] # None /\ rpos[c] = 0 /\ wpos[c] = 0
      /\ src_fd[c] # None /\ kind[src_fd[c]] # None
  BY <1>1 DEF FilesInv, Opened
<1>3. "file" # None /\ i # None
  BY FilesAssumption DEF Kinds
<1>4. TypeOK'
  <2>1. /\ node' \in [Paths -> Inodes \cup {None}] /\ kind' \in [Inodes -> Kinds \cup {None}]
        /\ readable' \in [Inodes -> BOOLEAN]
    BY <1>1 DEF FilesInv, TypeOK, Kinds
  <2>2. /\ pc' \in [Callers -> Points] /\ dst_fd' \in [Callers -> Inodes \cup {None}]
        /\ created' \in [Callers -> BOOLEAN]
    BY <1>1 DEF FilesInv, TypeOK, Points
  <2>. QED  BY <1>1, <2>1, <2>2 DEF FilesInv, TypeOK, Points
<1>5. \A o \in Inodes : data[o] \in Seq(Units)
  BY DEF FilesInv, TypeOK
<1>6. \A o \in Inodes : Len(data[o]) \in Nat
  BY <1>5, LenProperties
<1>7. kind'[i] = "file" /\ \A o \in Inodes : o # i => kind'[o] = kind[o]
  BY <1>1 DEF FilesInv, TypeOK
<1>8. Lasting
  BY <1>1, <1>3, <1>6, <1>7 DEF Lasting
<1>9. Unmade'
  BY <1>1, <1>3, <1>7 DEF FilesInv, Unmade
<1>10. Named'
  <2>1. \A p \in Paths : node'[p] = node[p] \/ node'[p] = i
    BY <1>1 DEF FilesInv, TypeOK
  <2>2. \A p \in Paths : node[p] \in Inodes \cup {None}
    BY DEF FilesInv, TypeOK
  <2>. QED  BY <1>3, <1>7, <2>1, <2>2 DEF FilesInv, Named
<1>11. Others(c)
  BY <1>1 DEF Others, FilesInv, TypeOK
<1>12. Opened(c)'
  <2>1. /\ pc'[c] = "read" /\ dst_fd'[c] = i /\ data' = data /\ created'[c] /\ wpos'[c] = 0
        /\ src_fd'[c] = src_fd[c] /\ call'[c] = call[c] /\ src_fd[c] \in Inodes
    BY <1>1, <1>2 DEF FilesInv, TypeOK
  <2>2. kind'[src_fd[c]] # None
    BY <1>2, <1>3, <1>7, <2>1
  <2>. QED  BY <1>2, <1>3, <1>6, <1>7, <2>1, <2>2 DEF Opened
<1>. QED  BY <1>4, <1>8, <1>9, <1>10, <1>11, <1>12, OpenedElsewhere

LEMMA FilesReadChunk ==
  ASSUME FilesInv, NEW c \in Callers, ReadChunk(c)
  PROVE  FilesInv'
<1> DEFINE n == IF Len(Rest(c)) < BufSize THEN Len(Rest(c)) ELSE BufSize
           b == SubSeq(Rest(c), 1, n)
<1>1. /\ UNCHANGED <<disk, call, src_fd, dst_fd, wpos, calls, spare, history, result>>
      /\ pc[c] = "read" /\ pc' = [pc EXCEPT ![c] = "write"]
      /\ buf' = [buf EXCEPT ![c] = b] /\ rpos' = [rpos EXCEPT ![c] = @ + n]
  BY DEF ReadChunk, Goto, At
<1>2. Opened(c)
  BY DEF FilesInv
<1>3. src_fd[c] \in Inodes /\ rpos[c] \in Nat
  BY <1>1, <1>2 DEF FilesInv, TypeOK, Opened
<1>4. data[src_fd[c]] \in Seq(Units)
  BY <1>3 DEF FilesInv, TypeOK
<1>5. Rest(c) \in Seq(Units)
  BY <1>3, <1>4, LenProperties, ElementOfSeq, SubSeqProperties DEF Rest
<1>6. Len(Rest(c)) \in Nat
  BY <1>5, LenProperties
<1>7. n \in 0 .. Len(Rest(c))
  BY <1>6, FilesAssumption
<1>8. b \in Seq(Units)
  BY <1>5, <1>6, <1>7, ElementOfSeq, SubSeqProperties
<1> HIDE DEF n, b
<1>9. TypeOK'
  <2>1. /\ pc' \in [Callers -> Points] /\ buf' \in [Callers -> Seq(Units)]
        /\ rpos' \in [Callers -> Nat]
    BY <1>1, <1>6, <1>7, <1>8 DEF FilesInv, TypeOK, Points
  <2>. QED  BY <1>1, <2>1 DEF FilesInv, TypeOK, disk, history, Points
<1>10. Named' /\ Unmade' /\ Lasting
  BY <1>1, DiskAlone DEF disk
<1>11. Others(c)
  BY <1>1 DEF Others, FilesInv, TypeOK, history
<1>12. Opened(c)'
  <2>1. /\ pc'[c] = "write" /\ UNCHANGED <<kind, data, call, src_fd, dst_fd, wpos, created>>
    BY <1>1 DEF FilesInv, TypeOK, disk, history
  <2>. QED  BY <1>1, <1>2, <2>1 DEF Opened
<1>. QED  BY <1>9, <1>10, <1>11, <1>12, OpenedElsewhere

LEMMA FilesWriteChunk ==
  ASSUME FilesInv, NEW c \in Callers, WriteChunk(c)
  PROVE  FilesInv'
<1> DEFINE i == dst_fd[c]
<1>1. PICK k \in 1 .. Len(buf[c]) :
        /\ data' = [data EXCEPT ![i] = Overwritten(@, wpos[c], SubSeq(buf[c], 1, k))]
        /\ wpos' = [wpos EXCEPT ![c] = @ + k]
        /\ clean' = [d \in Callers |->
             IF d = c THEN clean[c] /\ k = Len(buf[c])
             ELSE clean[d] /\ dst_fd[c] \notin {src_fd[d], dst_fd[d]}]
  BY DEF WriteChunk
<1>2. /\ UNCHANGED <<node, kind, readable, call, src_fd, dst_fd, rpos, buf, calls, spare,
                     created, result>>
      /\ pc[c] = "write" /\ pc' = [pc EXCEPT ![c] = "read"]
  BY DEF WriteChunk, Goto, At
<1>3. Opened(c)
  BY DEF FilesInv
<1>4. i \in Inodes /\ i # None /\ wpos[c] \in Nat /\ buf[c] \in Seq(Units)
  BY <1>2, <1>3 DEF FilesInv, TypeOK, Opened
<1>5. data[i] \in Seq(Units)
  BY <1>4 DEF FilesInv, TypeOK
<1>6. Len(data[i]) \in Nat /\ Len(buf[c]) \in Nat
  BY <1>4, <1>5, LenProperties
<1>7. wpos[c] \in 0 .. Len(data[i])
  BY <1>2, <1>3, <1>4, <1>6 DEF Opened
<1> DEFINE b == SubSeq(buf[c], 1, k)
           new == Overwritten(data[i], wpos[c], b)
<1>8. b \in Seq(Units) /\ Len(b) = k
  BY <1>4, <1>6, ElementOfSeq, SubSeqProperties
<1>9. new \in Seq(Units) /\ Len(new) >= Len(data[i]) /\ Len(new) >= wpos[c] + k
  <2> HIDE DEF b
  <2>. QED  BY <1>5, <1>7, <1>8, OverwrittenType
<1>10. data' = [data EXCEPT ![i] = new]
  BY <1>1
<1> HIDE DEF i, b, new
<1>11. data' \in [Inodes -> Seq(Units)]
  BY <1>4, <1>9, <1>10 DEF FilesInv, TypeOK
<1>12. data'[i] = new /\ \A o \in Inodes : o # i => data'[o] = data[o]
  BY <1>4, <1>10 DEF FilesInv, TypeOK
<1>13. TypeOK'
  <2>1. pc' \in [Callers -> Points] /\ wpos' \in [Callers -> Nat]
    BY <1>1, <1>2, <1>6 DEF FilesInv, TypeOK, Points
  <2>2. clean' \in [Callers -> BOOLEAN]
    BY <1>1, Zenon DEF FilesInv, TypeOK
  <2>. QED  BY <1>2, <1>11, <2>1, <2>2 DEF FilesInv, TypeOK, Points
<1>14. Lasting
  <2>1. \A o \in Inodes : data[o] \in Seq(Units)
    BY DEF FilesInv, TypeOK
  <2>2. \A o \in Inodes : Len(data[o]) \in Nat
    BY <2>1, LenProperties
  <2>. QED  BY <1>2, <1>9, <1>12, <2>2 DEF Lasting
<1>15. Named'
  BY <1>2 DEF FilesInv, Named
<1>16. Unmade'
  BY <1>2, <1>3, <1>12 DEF FilesInv, Unmade, Opened, i
<1>17. Others(c)
  BY <1>1, <1>2 DEF Others, FilesInv, TypeOK
<1>18. Opened(c)'
  <2>1. /\ pc'[c] = "read" /\ wpos'[c] = wpos[c] + k /\ dst_fd'[c] = i
        /\ UNCHANGED <<kind, call, src_fd, created>>
    BY <1>1, <1>2 DEF FilesInv, TypeOK, i
  <2>2. wpos'[c] <= Len(data'[dst_fd'[c]])
    <3>1. Len(new) \in Nat
      BY <1>9, LenProperties
    <3>. QED  BY <1>4, <1>6, <1>9, <1>12, <2>1, <3>1
  <2>. QED  BY <1>2, <1>3, <2>1, <2>2 DEF Opened, i
<1>. QED  BY <1>13, <1>14, <1>15, <1>16, <1>17, <1>18, OpenedElsewhere

(* The calls of one system call: names change, a directory may be made.    *)
LEMMA FilesNames ==
  ASSUME FilesInv, NEW c \in Callers, OneStep(c),
         NEW l \in {"idle", "rmdir"}, pc' = [pc EXCEPT ![c] = l],
         NEW r \in {"none", "true", "false", "nil"},
         result' = result \/ result' = [result EXCEPT ![c] = r],
         node' \in [Paths -> Inodes \cup {None}],
         kind' \in [Inodes -> Kinds \cup {None}],
         \A i \in Inodes : kind[i] # None => kind'[i] # None,
         Named', l = "idle" \/ call[c] # None
  PROVE  FilesInv'
<1>1. TypeOK'
  <2>1. pc' \in [Callers -> Points] /\ result' \in [Callers -> {"none", "true", "false", "nil"}]
    BY DEF FilesInv, TypeOK, Points
  <2>. QED  BY <2>1 DEF OneStep, copying, history, FilesInv, TypeOK, Points
<1>2. Unmade'
  BY DEF OneStep, FilesInv, Unmade
<1>3. Lasting
  <2>1. \A i \in Inodes : data[i] \in Seq(Units)
    BY DEF FilesInv, TypeOK
  <2>2. \A i \in Inodes : Len(data[i]) \in Nat
    BY <2>1, LenProperties
  <2>. QED  BY <2>2 DEF OneStep, Lasting
<1>4. Others(c)
  BY DEF OneStep, copying, history, Others, FilesInv, TypeOK
<1>5. Opened(c)'
  <2>1. pc'[c] = l /\ call' = call
    BY DEF OneStep, FilesInv, TypeOK
  <2>. QED  BY <2>1 DEF Opened
<1>. QED  BY <1>1, <1>2, <1>3, <1>4, <1>5, OpenedElsewhere

LEMMA CalledPaths ==
  ASSUME FilesInv, NEW c \in Callers, pc[c] # "idle"
  PROVE  call[c] # None /\ call[c].from \in Paths /\ call[c].to \in Paths
<1>1. call[c] # None
  BY DEF FilesInv, Opened
<1>. QED  BY <1>1, FilesAssumption DEF FilesInv, TypeOK, Call

LEMMA FilesRename ==
  ASSUME FilesInv, NEW c \in Callers, Rename(c)
  PROVE  FilesInv'
<1>1. /\ pc[c] = "rename" /\ OneStep(c) /\ kind' = kind
      /\ pc' = [pc EXCEPT ![c] = "idle"]
      /\ \E r \in {"true", "false"} : result' = [result EXCEPT ![c] = r]
      /\ node' = node \/ (CanRename(c) /\ node' = Renamed(c))
  BY DEF Rename, Return, At
<1>2. call[c].from \in Paths /\ call[c].to \in Paths
  BY <1>1, CalledPaths
<1>3. node' \in [Paths -> Inodes \cup {None}]
  <2>1. node \in [Paths -> Inodes \cup {None}]
    BY DEF FilesInv, TypeOK
  <2>2. node' = node \/ node' = [node EXCEPT ![call[c].to] = node[call[c].from],
                                           ![call[c].from] = None]
    BY <1>1 DEF Renamed
  <2>3. node[call[c].from] \in Inodes \cup {None}
    BY <1>2, <2>1
  <2>. QED  BY <2>1, <2>2, <2>3
<1>4. \A p \in Paths : node'[p] \in {node[p], node[call[c].from], None}
  BY <1>1, <1>2 DEF Renamed, FilesInv, TypeOK
<1>5. Named'
  BY <1>1, <1>2, <1>4 DEF FilesInv, Named
<1>6. kind' \in [Inodes -> Kinds \cup {None}] /\ \A i \in Inodes : kind'[i] = kind[i]
  BY <1>1 DEF FilesInv, TypeOK
<1>. QED  BY <1>1, <1>3, <1>5, <1>6, FilesNames

LEMMA FilesRemove ==
  ASSUME FilesInv, NEW c \in Callers, RemoveFile(c) \/ RemoveDirectory(c) \/ TestDirectory(c)
  PROVE  FilesInv'
<1>1. /\ pc[c] # "idle" /\ OneStep(c) /\ kind' = kind
      /\ \E l \in {"idle", "rmdir"} : pc' = [pc EXCEPT ![c] = l]
      /\ \/ result' = result
         \/ \E r \in {"true", "false", "nil"} : result' = [result EXCEPT ![c] = r]
      /\ node' = node \/ node' = [node EXCEPT ![call[c].from] = None]
  BY DEF RemoveFile, RemoveDirectory, Remove, TestDirectory, Return, Goto, At
<1>2. call[c] # None
  BY <1>1, CalledPaths
<1>3. node' \in [Paths -> Inodes \cup {None}]
  BY <1>1 DEF FilesInv, TypeOK
<1>4. \A p \in Paths : node'[p] \in {node[p], None}
  BY <1>1 DEF FilesInv, TypeOK
<1>5. Named'
  BY <1>1, <1>4 DEF FilesInv, Named
<1>6. kind' \in [Inodes -> Kinds \cup {None}] /\ \A i \in Inodes : kind'[i] = kind[i]
  BY <1>1 DEF FilesInv, TypeOK
<1>. QED  BY <1>1, <1>2, <1>3, <1>5, <1>6, FilesNames

LEMMA FilesCreateDirectory ==
  ASSUME FilesInv, NEW c \in Callers, CreateDirectory(c)
  PROVE  FilesInv'
<1>1. /\ pc[c] # "idle" /\ OneStep(c) /\ pc' = [pc EXCEPT ![c] = "idle"]
      /\ \E r \in {"true", "false"} : result' = [result EXCEPT ![c] = r]
      /\ \/ UNCHANGED <<node, kind>>
         \/ \E i \in Inodes : /\ node' = [node EXCEPT ![call[c].from] = i]
                              /\ kind' = [kind EXCEPT ![i] = "dir"]
  BY DEF CreateDirectory, Return, At
<1>2. "dir" # None
  BY FilesAssumption DEF Kinds
<1>3. CASE UNCHANGED <<node, kind>>
  <2>1. Named'
    BY <1>3 DEF FilesInv, Named
  <2>2. /\ node' \in [Paths -> Inodes \cup {None}] /\ kind' \in [Inodes -> Kinds \cup {None}]
        /\ \A i \in Inodes : kind'[i] = kind[i]
    BY <1>3 DEF FilesInv, TypeOK
  <2>. QED  BY <1>1, <2>1, <2>2, FilesNames
<1>4. ASSUME NEW i \in Inodes, node' = [node EXCEPT ![call[c].from] = i],
             kind' = [kind EXCEPT ![i] = "dir"]
      PROVE  FilesInv'
  <2>1. node' \in [Paths -> Inodes \cup {None}] /\ kind' \in [Inodes -> Kinds \cup {None}]
    BY <1>4 DEF FilesInv, TypeOK, Kinds
  <2>2. kind'[i] = "dir" /\ \A o \in Inodes : o # i => kind'[o] = kind[o]
    BY <1>4 DEF FilesInv, TypeOK
  <2>3. \A p \in Paths : node'[p] = node[p] \/ node'[p] = i
    BY <1>4 DEF FilesInv, TypeOK
  <2>4. Named'
    <3>1. \A p \in Paths : node[p] \in Inodes \cup {None}
      BY DEF FilesInv, TypeOK
    <3>. QED  BY <1>2, <2>2, <2>3, <3>1 DEF FilesInv, Named
  <2>5. \A o \in Inodes : kind[o] # None => kind'[o] # None
    BY <1>2, <2>2
  <2>. QED  BY <1>1, <2>1, <2>4, <2>5, FilesNames
<1>. QED  BY <1>1, <1>3, <1>4

LEMMA FilesStep ==
  ASSUME FilesInv, [Next]_vars
  PROVE  FilesInv'
<1>1. CASE UNCHANGED vars
  BY <1>1 DEF vars, disk, copying, history, FilesInv, TypeOK, Named, Unmade, Opened
<1>2. ASSUME NEW c \in Callers, Step(c)
      PROVE  FilesInv'
  BY <1>2, FilesBegin, FilesReturn, FilesOpenSrc, FilesOpenDst, FilesCreateDst,
     FilesReadChunk, FilesWriteChunk, FilesRename, FilesRemove, FilesCreateDirectory DEF Step
<1>. QED  BY <1>1, <1>2 DEF Next

LEMMA FilesInvariant == Spec => []FilesInv
BY FilesInit, FilesStep, PTL DEF Spec

(* The variables keep their kinds, whatever the callers do at once.        *)
THEOREM FilesTypeCorrect == Spec => []TypeOK
<1>1. FilesInv => TypeOK
  BY DEF FilesInv
<1>. QED  BY <1>1, FilesInvariant, PTL

(* Only write changes a file, and the copy that writes has opened it to be *)
(* overwritten or has made it.                                             *)
LEMMA OwnWrites ==
  ASSUME FilesInv, [Next]_vars, NEW i \in Inodes, data'[i] # data[i]
  PROVE  \E c \in Callers : dst_fd[c] = i /\ (call[c].overwrite \/ created[c])
<1>1. PICK c \in Callers : WriteChunk(c)
  <2>1. data' # data
    OBVIOUS
  <2>. QED  BY <2>1 DEF Next, vars, disk, Step, Begin, OpenSrc, NoSrc, CreateDst, OpenDst,
               NoDst, ReadChunk, ReadEnd, ReadFails, CopyReturns, WriteFails, Rename, RemoveFile,
               TestDirectory, RemoveDirectory, Remove, CreateDirectory, Query, OneStep
<1>2. dst_fd[c] = i
  BY <1>1 DEF WriteChunk, FilesInv, TypeOK
<1>3. pc[c] = "write"
  BY <1>1 DEF WriteChunk, At
<1>. QED  BY <1>2, <1>3 DEF FilesInv, Opened

(* No copy writes to a file that was there and that it was not allowed to  *)
(* overwrite, whatever others do to the names meanwhile (O_EXCL).          *)
THEOREM WritesOwn == Spec => OnlyOwnWrites
<1>1. FilesInv /\ [Next]_vars =>
        [\A i \in Inodes : data'[i] # data[i] =>
           \E c \in Callers : dst_fd[c] = i /\ (call[c].overwrite \/ created[c])]_vars
  BY OwnWrites
<1>. QED  BY <1>1, FilesInvariant, PTL DEF Spec, OnlyOwnWrites

---------------------------------------------------------------------------
(* The inductive invariant of FreshCopyExact: a copy that made its file,   *)
(* wrote all it read and was alone has copied what comes before its        *)
(* offset, and its buffer holds what follows.                              *)
Exact(c) ==
  created[c] /\ clean[c] /\ pc[c] \in {"read", "write"} =>
    /\ src_fd[c] # dst_fd[c]
    /\ rpos[c] <= Len(data[src_fd[c]]) /\ wpos[c] <= rpos[c]
    /\ data[dst_fd[c]] = SubSeq(data[src_fd[c]], 1, wpos[c])
    /\ IF pc[c] = "read" THEN wpos[c] = rpos[c]
       ELSE buf[c] = SubSeq(data[src_fd[c]], wpos[c] + 1, rpos[c])

ExactInv == FilesInv /\ \A c \in Callers : Exact(c)

(* What an undisturbed copy has open is open to no other's write.          *)
LEMMA ExactElsewhere ==
  ASSUME FilesInv, NEW c \in Callers, Exact(c), TypeOK',
         pc'[c] = pc[c], created'[c] = created[c], clean'[c] => clean[c],
         src_fd'[c] = src_fd[c], dst_fd'[c] = dst_fd[c],
         rpos'[c] = rpos[c], wpos'[c] = wpos[c], buf'[c] = buf[c],
         clean'[c] => data'[src_fd[c]] = data[src_fd[c]] /\ data'[dst_fd[c]] = data[dst_fd[c]]
  PROVE  Exact(c)'
BY DEF Exact

LEMMA ExactOthers ==
  ASSUME FilesInv, TypeOK', NEW d \in Callers, Step(d), NEW c \in Callers, c # d, Exact(c)
  PROVE  Exact(c)'
<1> DEFINE Kept == /\ pc'[c] = pc[c] /\ created'[c] = created[c]
                   /\ src_fd'[c] = src_fd[c] /\ dst_fd'[c] = dst_fd[c]
                   /\ rpos'[c] = rpos[c] /\ wpos'[c] = wpos[c] /\ buf'[c] = buf[c]
           Undisturbed == clean'[c] =>
             /\ clean[c]
             /\ data'[src_fd[c]] = data[src_fd[c]] /\ data'[dst_fd[c]] = data[dst_fd[c]]
<1>1. Kept
  <2>1. CASE \E k \in Calls : Begin(d, k)
    BY <2>1 DEF Begin, Goto, FilesInv, TypeOK
  <2>2. CASE OpenSrc(d) \/ NoSrc(d) \/ OpenDst(d) \/ NoDst(d)
    BY <2>2 DEF OpenSrc, NoSrc, OpenDst, NoDst, Goto, Return, copying, history,
       FilesInv, TypeOK
  <2>3. CASE \E i \in Inodes : CreateDst(d, i)
    BY <2>3 DEF CreateDst, Goto, FilesInv, TypeOK
  <2>4. CASE ReadEnd(d) \/ ReadFails(d) \/ WriteFails(d)
    BY <2>4 DEF ReadEnd, ReadFails, WriteFails, CopyReturns, Return, history, FilesInv, TypeOK
  <2>5. CASE ReadChunk(d)
    BY <2>5 DEF ReadChunk, Goto, history, FilesInv, TypeOK
  <2>6. CASE WriteChunk(d)
    BY <2>6 DEF WriteChunk, Goto, FilesInv, TypeOK
  <2>7. CASE Rename(d) \/ RemoveFile(d) \/ TestDirectory(d) \/ RemoveDirectory(d)
             \/ CreateDirectory(d)
    <3>1. OneStep(d) /\ \E l \in {"idle", "rmdir"} : pc' = [pc EXCEPT ![d] = l]
      BY <2>7 DEF Rename, RemoveFile, Remove, TestDirectory, RemoveDirectory, CreateDirectory,
         Goto, Return
    <3>. QED  BY <3>1 DEF OneStep, copying, history, FilesInv, TypeOK
  <2>8. CASE Query(d)
    BY <2>8 DEF Query, Return, copying, FilesInv, TypeOK
  <2>. QED  BY <2>1, <2>2, <2>3, <2>4, <2>5, <2>6, <2>7, <2>8 DEF Step
<1>2. Undisturbed
  <2>1. CASE WriteChunk(d)
    <3>1. PICK k \in 1 .. Len(buf[d]) :
            /\ data' = [data EXCEPT ![dst_fd[d]] =
                          Overwritten(@, wpos[d], SubSeq(buf[d], 1, k))]
            /\ clean' = [e \in Callers |->
                 IF e = d THEN clean[d] /\ k = Len(buf[d])
                 ELSE clean[e] /\ dst_fd[d] \notin {src_fd[e], dst_fd[e]}]
      BY <2>1 DEF WriteChunk
    <3>2. clean'[c] = (clean[c] /\ dst_fd[d] \notin {src_fd[c], dst_fd[c]})
      BY <3>1
    <3>3. \A i : i # dst_fd[d] => data'[i] = data[i]
      BY <3>1
    <3>. QED  BY <3>2, <3>3
  <2>2. CASE ~ WriteChunk(d) /\ ~ \E k \in Calls : Begin(d, k)
    <3>1. data' = data /\ clean' = clean
      BY <2>2 DEF Step, OpenSrc, NoSrc, OpenDst, NoDst, CreateDst, ReadChunk, ReadEnd,
         ReadFails, WriteFails, CopyReturns, Rename, RemoveFile, Remove, TestDirectory,
         RemoveDirectory, CreateDirectory, OneStep, Query, disk, history
    <3>. QED  BY <3>1
  <2>3. CASE \E k \in Calls : Begin(d, k)
    BY <2>3 DEF Begin, disk, FilesInv, TypeOK
  <2>. QED  BY <2>1, <2>2, <2>3
<1>. QED  BY <1>1, <1>2, ExactElsewhere

LEMMA ExactCreateDst ==
  ASSUME FilesInv, TypeOK', NEW c \in Callers, NEW i \in Inodes, CreateDst(c, i)
  PROVE  Exact(c)'
<1>1. /\ pc[c] = "open_dst" /\ UNCHANGED <<data, src_fd, rpos, wpos>>
      /\ pc'[c] = "read" /\ dst_fd'[c] = i /\ kind[i] = None
  BY DEF CreateDst, Goto, At, Made, FilesInv, TypeOK
<1>2. /\ rpos[c] = 0 /\ wpos[c] = 0
      /\ src_fd[c] # None /\ kind[src_fd[c]] # None
  BY <1>1 DEF FilesInv, Opened
<1>3. src_fd[c] \in Inodes
  BY <1>2 DEF FilesInv, TypeOK
<1>4. data[src_fd[c]] \in Seq(Units)
  BY <1>3 DEF FilesInv, TypeOK
<1>5. Len(data[src_fd[c]]) \in Nat
  BY <1>4, LenProperties
<1>6. data[i] = << >>
  BY <1>1 DEF FilesInv, Unmade
<1>7. SubSeq(data[src_fd[c]], 1, 0) = << >>
  BY SubSeqEmpty
<1>. QED  BY <1>1, <1>2, <1>5, <1>6, <1>7 DEF Exact

LEMMA ChunkOfRest ==
  ASSUME NEW S, NEW d \in Seq(S), NEW w \in 0 .. Len(d), NEW n \in 0 .. Len(d) - w
  PROVE  SubSeq(SubSeq(d, w + 1, Len(d)), 1, n) = SubSeq(d, w + 1, w + n)
<1> DEFINE r == SubSeq(d, w + 1, Len(d))
           s == SubSeq(r, 1, n)
           t == SubSeq(d, w + 1, w + n)
<1>1. Len(d) \in Nat /\ \A j \in 1 .. Len(d) : d[j] \in S
  BY LenProperties, ElementOfSeq
<1>2. /\ r \in Seq(S) /\ Len(r) = Len(d) - w
      /\ \A j \in 1 .. Len(d) - w : r[j] = d[w + j]
  BY <1>1, SubSeqProperties
<1>3. /\ t \in Seq(S) /\ Len(t) = n
      /\ \A j \in 1 .. n : t[j] = d[w + j]
  BY <1>1, SubSeqProperties
<1> HIDE DEF r, t
<1>4. \A j \in 1 .. n : r[j] \in S
  BY <1>1, <1>2, ElementOfSeq
<1>5. s \in Seq(S) /\ Len(s) = n /\ \A j \in 1 .. n : s[j] = r[j]
  BY <1>1, <1>4, SubSeqProperties
<1> HIDE DEF s
<1>6. ASSUME NEW j \in 1 .. Len(s)
      PROVE  s[j] = t[j]
  <2>1. j \in 1 .. n /\ j \in 1 .. Len(d) - w
    BY <1>1, <1>5
  <2>. QED  BY <1>2, <1>3, <1>5, <2>1
<1>7. s = t
  BY <1>3, <1>5, <1>6, SeqEqual
<1>. QED  BY <1>7 DEF r, s, t

LEMMA ExactReadChunk ==
  ASSUME FilesInv, TypeOK', NEW c \in Callers, Exact(c), ReadChunk(c)
  PROVE  Exact(c)'
<1> DEFINE n == IF Len(Rest(c)) < BufSize THEN Len(Rest(c)) ELSE BufSize
           d == data[src_fd[c]]
           w == rpos[c]
<1>1. /\ pc[c] = "read" /\ UNCHANGED <<data, src_fd, dst_fd, wpos, created, clean>>
      /\ pc'[c] = "write" /\ rpos'[c] = w + n /\ buf'[c] = SubSeq(Rest(c), 1, n)
  BY DEF ReadChunk, Goto, At, disk, history, FilesInv, TypeOK
<1> SUFFICES ASSUME created[c], clean[c] PROVE Exact(c)'
  BY <1>1 DEF Exact
<1>2. /\ src_fd[c] # dst_fd[c] /\ w <= Len(d) /\ wpos[c] = w
      /\ data[dst_fd[c]] = SubSeq(d, 1, w)
  BY <1>1 DEF Exact
<1>3. src_fd[c] \in Inodes /\ w \in Nat
  BY <1>1 DEF FilesInv, TypeOK, Opened
<1>4. d \in Seq(Units)
  BY <1>3 DEF FilesInv, TypeOK
<1>5. Len(d) \in Nat /\ \A j \in 1 .. Len(d) : d[j] \in Units
  BY <1>4, LenProperties, ElementOfSeq
<1>6. Rest(c) = SubSeq(d, w + 1, Len(d)) /\ Rest(c) # << >>
  BY DEF Rest, ReadChunk
<1> HIDE DEF d, w
<1>7. Rest(c) \in Seq(Units) /\ Len(Rest(c)) = Len(d) - w
  BY <1>2, <1>3, <1>5, <1>6, SubSeqProperties DEF w
<1>8. Len(Rest(c)) \in Nat \ {0}
  BY <1>6, <1>7, EmptySeq
<1>9. n \in 1 .. Len(Rest(c))
  BY <1>8, FilesAssumption
<1> HIDE DEF n
<1>10. SubSeq(Rest(c), 1, n) = SubSeq(d, w + 1, w + n)
  <2>1. w \in 0 .. Len(d) /\ n \in 0 .. Len(d) - w
    BY <1>2, <1>3, <1>5, <1>7, <1>9
  <2>. QED  BY <1>4, <1>6, <2>1, ChunkOfRest
<1>11. w + n <= Len(d) /\ w <= w + n
  BY <1>3, <1>5, <1>7, <1>9 DEF w
<1>. QED  BY <1>1, <1>2, <1>10, <1>11 DEF Exact, d

LEMMA ExactWriteChunk ==
  ASSUME FilesInv, TypeOK', NEW c \in Callers, Exact(c), WriteChunk(c)
  PROVE  Exact(c)'
<1> DEFINE d == data[src_fd[c]]
           w == wpos[c]
           i == dst_fd[c]
<1>1. PICK k \in 1 .. Len(buf[c]) :
        /\ data' = [data EXCEPT ![i] = Overwritten(@, w, SubSeq(buf[c], 1, k))]
        /\ wpos' = [wpos EXCEPT ![c] = @ + k]
        /\ clean' = [e \in Callers |->
             IF e = c THEN clean[c] /\ k = Len(buf[c])
             ELSE clean[e] /\ dst_fd[c] \notin {src_fd[e], dst_fd[e]}]
  BY DEF WriteChunk
<1>2. /\ pc[c] = "write" /\ UNCHANGED <<src_fd, dst_fd, rpos, created>>
      /\ pc'[c] = "read" /\ wpos'[c] = w + k
      /\ clean'[c] = (clean[c] /\ k = Len(buf[c]))
  BY <1>1 DEF WriteChunk, Goto, At, FilesInv, TypeOK
<1> SUFFICES ASSUME created[c], clean[c], k = Len(buf[c]) PROVE Exact(c)'
  BY <1>2 DEF Exact
<1>3. /\ src_fd[c] # i /\ rpos[c] <= Len(d) /\ w <= rpos[c]
      /\ data[i] = SubSeq(d, 1, w) /\ buf[c] = SubSeq(d, w + 1, rpos[c])
  BY <1>2 DEF Exact
<1>4. src_fd[c] \in Inodes /\ i \in Inodes /\ w \in Nat /\ rpos[c] \in Nat
      /\ buf[c] \in Seq(Units)
  BY <1>2 DEF FilesInv, TypeOK, Opened
<1>5. d \in Seq(Units) /\ data[i] \in Seq(Units)
  BY <1>4 DEF FilesInv, TypeOK
<1>6. data'[src_fd[c]] = d /\ data'[i] = Overwritten(data[i], w, SubSeq(buf[c], 1, k))
  BY <1>1, <1>3, <1>4 DEF FilesInv, TypeOK
<1> HIDE DEF d, w, i
<1>7. Len(d) \in Nat /\ \A j \in 1 .. Len(d) : d[j] \in Units
  BY <1>5, LenProperties, ElementOfSeq
<1>8. Len(data[i]) = w
  BY <1>3, <1>4, <1>7, SubSeqProperties
<1>9. Len(buf[c]) = rpos[c] - w
  <2>1. \A j \in w + 1 .. rpos[c] : d[j] \in Units
    BY <1>3, <1>4, <1>7
  <2>. QED  BY <1>3, <1>4, <2>1, SubSeqProperties
<1>10. SubSeq(buf[c], 1, k) = buf[c]
  BY <1>4, SubSeqFull
<1>11. data'[i] = SubSeq(d, 1, w) \o SubSeq(d, w + 1, rpos[c])
  <2>1. Overwritten(data[i], Len(data[i]), buf[c]) = data[i] \o buf[c]
    BY <1>4, <1>5, OverwrittenEnd
  <2>. QED  BY <1>3, <1>6, <1>8, <1>10, <2>1
<1>12. data'[i] = SubSeq(d, 1, rpos[c])
  <2>1. 1 \in 1 .. Len(d) + 1 /\ w \in 1 - 1 .. Len(d) /\ rpos[c] \in w .. Len(d)
    BY <1>3, <1>4, <1>7
  <2>. QED  BY <1>5, <1>11, <2>1, ConcatAdjacentSubSeq
<1>13. wpos'[c] = rpos[c]
  BY <1>2, <1>4, <1>9
<1>14. /\ src_fd'[c] # dst_fd'[c] /\ rpos'[c] <= Len(data'[src_fd'[c]])
       /\ wpos'[c] <= rpos'[c] /\ wpos'[c] = rpos'[c]
       /\ data'[dst_fd'[c]] = SubSeq(data'[src_fd'[c]], 1, wpos'[c])
  <2>1. src_fd'[c] = src_fd[c] /\ dst_fd'[c] = i /\ rpos'[c] = rpos[c]
    BY <1>2 DEF i
  <2>2. data'[src_fd'[c]] = d /\ data'[dst_fd'[c]] = SubSeq(d, 1, rpos[c])
    BY <1>6, <1>12, <2>1
  <2>3. wpos'[c] <= rpos'[c]
    BY <1>4, <1>13, <2>1
  <2>. QED  BY <1>3, <1>13, <2>1, <2>2, <2>3
<1>. QED  BY <1>2, <1>14 DEF Exact

LEMMA ExactStep ==
  ASSUME ExactInv, [Next]_vars
  PROVE  ExactInv'
<1>1. FilesInv' /\ TypeOK'
  BY FilesStep DEF ExactInv, FilesInv
<1>2. ASSUME NEW c \in Callers
      PROVE  Exact(c)'
  <2>1. FilesInv /\ Exact(c)
    BY DEF ExactInv
  <2>2. CASE UNCHANGED vars
    BY <2>1, <2>2 DEF vars, disk, copying, history, Exact
  <2>3. ASSUME NEW d \in Callers, Step(d), d # c
        PROVE  Exact(c)'
    BY <1>1, <2>1, <2>3, ExactOthers
  <2>4. ASSUME Step(c)
        PROVE  Exact(c)'
    <3>1. CASE \E i \in Inodes : CreateDst(c, i)
      BY <1>1, <2>1, <3>1, ExactCreateDst
    <3>2. CASE ReadChunk(c) \/ WriteChunk(c)
      BY <1>1, <2>1, <3>2, ExactReadChunk, ExactWriteChunk
    <3>3. CASE OpenDst(c)
      <4>1. pc[c] = "open_dst" /\ created' = created
        BY <3>3 DEF OpenDst, At, history
      <4>2. ~ created[c]
        BY <2>1, <4>1 DEF FilesInv, Opened
      <4>. QED  BY <4>1, <4>2 DEF Exact
    <3>4. CASE \E k \in Calls : Begin(c, k)
      <4>1. ~ created'[c]
        BY <2>1, <3>4 DEF Begin, FilesInv, TypeOK
      <4>. QED  BY <4>1 DEF Exact
    <3>5. CASE /\ ~ (\E i \in Inodes : CreateDst(c, i)) /\ ~ ReadChunk(c) /\ ~ WriteChunk(c)
               /\ ~ OpenDst(c) /\ ~ (\E k \in Calls : Begin(c, k))
      <4>1. \E l \in {"idle", "open_dst", "rmdir"} : pc' = [pc EXCEPT ![c] = l]
        BY <2>4, <3>5 DEF Step, OpenSrc, NoSrc, NoDst, ReadEnd, ReadFails, WriteFails,
           CopyReturns, Rename, RemoveFile, Remove, TestDirectory, RemoveDirectory,
           CreateDirectory, Query, Goto, Return
      <4>2. pc'[c] \notin {"read", "write"}
        BY <2>1, <4>1 DEF FilesInv, TypeOK
      <4>. QED  BY <4>2 DEF Exact
    <3>. QED  BY <3>1, <3>2, <3>3, <3>4, <3>5
  <2>. QED  BY <2>2, <2>3, <2>4 DEF Next
<1>. QED  BY <1>1, <1>2 DEF ExactInv

(* A copy that returns true has come to the end of its source.             *)
LEMMA ExactEnds ==
  ASSUME ExactInv, [Next]_vars, NEW c \in Callers, Copied(c), created[c], clean[c]
  PROVE  data[dst_fd[c]] = data[src_fd[c]]
<1> DEFINE d == data[src_fd[c]]
<1>1. pc[c] = "read" /\ pc'[c] = "idle" /\ result'[c] = "true"
  BY DEF Copied, At
<1>2. Rest(c) = << >>
  <2>1. ~ UNCHANGED vars
    BY <1>1 DEF vars
  <2>2. PICK e \in Callers : Step(e)
    BY <2>1 DEF Next
  <2>3. \E l \in Points : pc' = [pc EXCEPT ![e] = l]
    BY <2>2, FilesAssumption DEF Step, Begin, OpenSrc, NoSrc, CreateDst, OpenDst, NoDst,
       ReadChunk, ReadEnd, ReadFails, CopyReturns, WriteChunk, WriteFails, Rename, RemoveFile,
       Remove, TestDirectory, RemoveDirectory, CreateDirectory, Query, Goto, Return, Points,
       Call
  <2>4. e = c
    BY <1>1, <2>3 DEF ExactInv, FilesInv, TypeOK
  <2>5. ReadChunk(c) \/ ReadEnd(c) \/ ReadFails(c)
    BY <1>1, <2>2, <2>4 DEF Step, Begin, OpenSrc, NoSrc, CreateDst, OpenDst, NoDst,
       WriteChunk, WriteFails, Rename, RemoveFile, Remove, TestDirectory, RemoveDirectory,
       CreateDirectory, Query, Queries, At
  <2>6. ~ ReadChunk(c)
    BY <1>1 DEF ReadChunk, Goto, ExactInv, FilesInv, TypeOK
  <2>7. ~ ReadFails(c)
    BY <1>1 DEF ReadFails, CopyReturns, Return, ExactInv, FilesInv, TypeOK
  <2>. QED  BY <2>5, <2>6, <2>7 DEF ReadEnd
<1>3. /\ rpos[c] <= Len(d) /\ data[dst_fd[c]] = SubSeq(d, 1, rpos[c])
  BY <1>1 DEF ExactInv, Exact
<1>4. src_fd[c] \in Inodes /\ rpos[c] \in Nat
  BY <1>1 DEF ExactInv, FilesInv, TypeOK, Opened
<1>5. d \in Seq(Units)
  BY <1>4 DEF ExactInv, FilesInv, TypeOK
<1>6. Len(d) \in Nat /\ \A j \in 1 .. Len(d) : d[j] \in Units
  BY <1>5, LenProperties, ElementOfSeq
<1>7. Len(SubSeq(d, rpos[c] + 1, Len(d))) = Len(d) - rpos[c]
  BY <1>3, <1>4, <1>6, SubSeqProperties
<1>8. Len(SubSeq(d, rpos[c] + 1, Len(d))) = 0
  BY <1>2, EmptySeq DEF Rest
<1>9. rpos[c] = Len(d)
  BY <1>4, <1>6, <1>7, <1>8
<1>. QED  BY <1>3, <1>5, <1>9, SubSeqFull

(* A copy that made its destination, wrote all it read and was alone on    *)
(* both files leaves them equal, however large the file and the buffer.    *)
THEOREM CopyExact == Spec => FreshCopyExact
<1>1. Init => ExactInv
  BY FilesInit DEF Init, ExactInv, Exact
<1>2. ExactInv /\ [Next]_vars => ExactInv'
  BY ExactStep
<1>3. ExactInv /\ [Next]_vars =>
        [\A c \in Callers : Copied(c) /\ created[c] /\ clean[c] =>
           data[dst_fd[c]] = data[src_fd[c]]]_vars
  BY ExactEnds
<1>. QED  BY <1>1, <1>2, <1>3, PTL DEF Spec, FreshCopyExact
=============================================================================
