----------------------------- MODULE PathProofs -----------------------------
(***************************************************************************)
(* Theorems about Path and PathProgram: for paths of any length, on both   *)
(* platforms.                                                              *)
(***************************************************************************)
EXTENDS PathProgram, FiniteSetTheorems, FunctionTheorems, SequenceTheorems, TLAPS

(* A set of offsets has a last one.  The segments from its members up to a *)
(* bound are finite sets, so that one of them contains no smaller one.     *)
LEMMA HasLast ==
  ASSUME NEW b \in Int, NEW S, S # {}, S \subseteq Int, \A x \in S : x <= b
  PROVE  \E x \in S : \A y \in S : x >= y
<1> DEFINE R == StrictSubsetOrdering(Int)
           T == {x .. b : x \in S}
<1>1. IsWellFoundedOn(R, FiniteSubsetsOf(Int))
  BY FS_StrictSubsetOrderingWellFounded
<1>2. T \subseteq FiniteSubsetsOf(Int) /\ T # {}
  <2>1. ASSUME NEW x \in S PROVE x .. b \in FiniteSubsetsOf(Int)
    BY FS_Interval DEF FiniteSubsetsOf
  <2>. QED  BY <2>1
<1> HIDE DEF R
<1>3. \E t \in T : \A u \in T : ~ (<<u, t>> \in R)
  BY <1>1, <1>2, WFMin
<1>4. PICK x \in S : \A y \in S : ~ (<<y .. b, x .. b>> \in R)
  BY <1>3
<1>5. ASSUME NEW y \in S, y > x PROVE FALSE
  <2>1. y .. b \subseteq x .. b
    BY <1>5
  <2>2. x \in x .. b /\ x \notin y .. b
    BY <1>5
  <2>3. y .. b \in SUBSET Int /\ x .. b \in SUBSET Int
    OBVIOUS
  <2>4. <<y .. b, x .. b>> \in R
    BY <2>1, <2>2, <2>3 DEF R, StrictSubsetOrdering
  <2>. QED  BY <2>4, <1>4
<1>. QED  BY <1>5

(* And a first one: the last of the opposite numbers.                      *)
LEMMA HasFirst ==
  ASSUME NEW a \in Int, NEW S, S # {}, S \subseteq Int, \A x \in S : a <= x
  PROVE  \E x \in S : \A y \in S : x <= y
<1> DEFINE O == {-x : x \in S}
<1>1. O # {} /\ O \subseteq Int /\ \A x \in O : x <= -a
  <2>1. PICK x \in S : TRUE
    OBVIOUS
  <2>2. -x \in O
    BY <2>1
  <2>3. ASSUME NEW o \in O PROVE o \in Int /\ o <= -a
    OBVIOUS
  <2>. QED  BY <2>2, <2>3
<1>2. PICK o \in O : \A y \in O : o >= y
  <2> HIDE DEF O
  <2>1. -a \in Int
    OBVIOUS
  <2>. QED  BY <1>1, <2>1, HasLast
<1>3. PICK x \in S : o = -x
  OBVIOUS
<1>. QED  BY <1>2, <1>3

LEMMA LastOfIs ==
  ASSUME NEW a \in Int, NEW b \in Int, NEW S, S \subseteq a .. b, NEW none
  PROVE  /\ S = {} => LastOf(S, none) = none
         /\ S # {} => LastOf(S, none) \in S /\ \A y \in S : y <= LastOf(S, none)
<1>1. CASE S = {}
  BY <1>1 DEF LastOf
<1>2. CASE S # {}
  <2>0. S \subseteq Int /\ \A x \in S : x <= b
    OBVIOUS
  <2>1. \E x \in S : \A y \in S : x >= y
    BY <1>2, <2>0, HasLast
  <2>2. LastOf(S, none) = CHOOSE x \in S : \A y \in S : x >= y
    BY <1>2 DEF LastOf, Max
  <2>3. LastOf(S, none) \in S /\ \A y \in S : LastOf(S, none) >= y
    BY <2>1, <2>2
  <2>. QED  BY <1>2, <2>3
<1>. QED  BY <1>1, <1>2

LEMMA FirstOfIs ==
  ASSUME NEW a \in Int, NEW b \in Int, NEW S, S \subseteq a .. b, NEW none
  PROVE  /\ S = {} => FirstOf(S, none) = none
         /\ S # {} => FirstOf(S, none) \in S /\ \A y \in S : FirstOf(S, none) <= y
<1>1. CASE S = {}
  BY <1>1 DEF FirstOf
<1>2. CASE S # {}
  <2>0. S \subseteq Int /\ \A x \in S : a <= x
    OBVIOUS
  <2>1. \E x \in S : \A y \in S : x <= y
    BY <1>2, <2>0, HasFirst
  <2>2. FirstOf(S, none) = CHOOSE x \in S : \A y \in S : x <= y
    BY <1>2 DEF FirstOf, Min
  <2>3. FirstOf(S, none) \in S /\ \A y \in S : FirstOf(S, none) <= y
    BY <2>1, <2>2
  <2>. QED  BY <1>2, <2>3
<1>. QED  BY <1>1, <1>2

---------------------------------------------------------------------------
(* The root.                                                               *)
LEMMA MinOfTwo ==
  ASSUME NEW m \in Int, NEW n \in Int
  PROVE  Min({m, n}) = IF m <= n THEN m ELSE n
<1>1. \E x \in {m, n} : \A y \in {m, n} : x <= y
  OBVIOUS
<1>2. Min({m, n}) \in {m, n} /\ \A y \in {m, n} : Min({m, n}) <= y
  BY <1>1 DEF Min
<1>. QED  BY <1>2

LEMMA FirstSepIn ==
  ASSUME NEW Chars, NEW p \in Seq(Chars), NEW n \in 0 .. Len(p), NEW v
  PROVE  FirstSep(p, n, v) \in n .. Len(p)
<1> DEFINE L == Len(p)
           m == L - 1
           S == Seps(p, n, v)
<1>1. S \subseteq n .. m /\ n \in Int /\ m \in Int /\ L \in Nat /\ n <= L
  BY DEF Seps
<1>2. FirstSep(p, n, v) = FirstOf(S, L)
  BY DEF FirstSep
<1>3. m < L
  BY <1>1
<1> HIDE DEF S, L, m
<1>4. CASE S = {}
  <2>1. FirstOf(S, L) = L
    BY <1>1, <1>4, FirstOfIs
  <2>2. L \in n .. L
    BY <1>1
  <2>. QED  BY <1>2, <2>1, <2>2 DEF L
<1>5. CASE S # {}
  <2>1. FirstOf(S, L) \in S
    BY <1>1, <1>5, FirstOfIs
  <2>2. FirstOf(S, L) \in n .. m
    BY <1>1, <2>1
  <2>3. FirstOf(S, L) \in n .. L
    BY <1>1, <1>3, <2>2
  <2>. QED  BY <1>2, <2>3 DEF L
<1>. QED  BY <1>4, <1>5

LEMMA UncRootIn ==
  ASSUME NEW Chars, NEW p \in Seq(Chars), NEW n \in 0 .. Len(p), NEW v
  PROVE  UncRoot(p, n, v) \in n .. Len(p)
<1> DEFINE server == FirstSep(p, n, v)
           share  == Min({server + 1, Len(p)})
<1>1. Len(p) \in Nat /\ server \in n .. Len(p)
  BY FirstSepIn
<1>2. UncRoot(p, n, v) = FirstSep(p, share, v)
  BY DEF UncRoot
<1> HIDE DEF server
<1>3. share \in n .. Len(p)
  BY <1>1, MinOfTwo
<1> HIDE DEF share
<1>4. FirstSep(p, share, v) \in share .. Len(p)
  BY <1>1, <1>3, FirstSepIn
<1>. QED  BY <1>1, <1>2, <1>3, <1>4

LEMMA PrefixLength ==
  ASSUME NEW Chars, NEW p \in Seq(Chars)
  PROVE  /\ IsUnc(p) => Len(p) >= 2
         /\ IsVerbatim(p) \/ IsDevice(p) => Len(p) >= 4
BY DEF IsUnc, IsVerbatim, IsDevice, IsPrefix

LEMMA RootIn ==
  ASSUME NEW Chars, NEW p \in Seq(Chars)
  PROVE  RootLength(p) \in 0 .. Len(p)
<1>0. Len(p) \in Nat /\ (p # <<>> => Len(p) > 0)
  OBVIOUS
<1>1. ASSUME HasUncName(p), NEW v PROVE UncRoot(p, 6, v) \in 0 .. Len(p)
  <2>1. 6 \in 0 .. Len(p)
    BY <1>0, <1>1 DEF HasUncName
  <2>. QED  BY <1>0, <2>1, UncRootIn
<1>2. ASSUME IsVerbatim(p) \/ IsDevice(p), NEW v
      PROVE  Min({FirstSep(p, 4, v) + 1, Len(p)}) \in 0 .. Len(p)
  <2>1. 4 \in 0 .. Len(p)
    BY <1>0, <1>2, PrefixLength
  <2>2. FirstSep(p, 4, v) \in 4 .. Len(p)
    BY <2>1, FirstSepIn
  <2>. QED  BY <1>0, <2>2, MinOfTwo
<1>3. ASSUME IsUnc(p), NEW v PROVE UncRoot(p, 2, v) \in 0 .. Len(p)
  <2>1. 2 \in 0 .. Len(p)
    BY <1>0, <1>3, PrefixLength
  <2>2. UncRoot(p, 2, v) \in 2 .. Len(p)
    BY <2>1, UncRootIn
  <2>. QED  BY <1>0, <2>2
<1> DEFINE Offsets == 0 .. Len(p)
           drive == IF Len(p) > 2 /\ IsDirsep(p[3], FALSE) THEN 3 ELSE 2
<1>4. HasDrive(p) => drive \in Offsets
  <2>1. HasDrive(p) => Len(p) > 1
    BY Zenon DEF HasDrive
  <2>2. drive = 2 \/ (drive = 3 /\ Len(p) > 2)
    BY Zenon
  <2>3. (Len(p) > 1 => 2 \in Offsets) /\ (Len(p) > 2 => 3 \in Offsets)
    BY <1>0
  <2>. QED  BY <2>1, <2>2, <2>3
<1>5. 0 \in Offsets /\ (p # <<>> => 1 \in Offsets)
  BY <1>0
<1>6. /\ HasUncName(p) => UncRoot(p, 6, IsVerbatim(p)) \in Offsets
      /\ IsVerbatim(p) \/ IsDevice(p) =>
           Min({FirstSep(p, 4, IsVerbatim(p)) + 1, Len(p)}) \in Offsets
      /\ IsUnc(p) => UncRoot(p, 2, FALSE) \in Offsets
  BY <1>1, <1>2, <1>3, Zenon
<1>7. RootLength(p) =
        IF p = <<>> THEN 0
        ELSE IF HasDrive(p) THEN drive
        ELSE IF IsVerbatim(p) \/ IsDevice(p) THEN
          IF HasUncName(p) THEN UncRoot(p, 6, IsVerbatim(p))
          ELSE Min({FirstSep(p, 4, IsVerbatim(p)) + 1, Len(p)})
        ELSE IF IsUnc(p) THEN UncRoot(p, 2, FALSE)
        ELSE IF IsDirsep(p[1], FALSE) THEN 1 ELSE 0
  BY Zenon DEF RootLength
<1> HIDE DEF Offsets, drive
<1>8. RootLength(p) \in Offsets
  BY <1>4, <1>5, <1>6, <1>7, Zenon
<1>. QED  BY <1>8 DEF Offsets

---------------------------------------------------------------------------
(* The offsets, in the order in which they are found.                      *)
LEMMA FileIn ==
  ASSUME NEW Chars, NEW p \in Seq(Chars), NEW root \in 0 .. Len(p), NEW v
  PROVE  /\ FileOffset(p, root, v) \in root .. Len(p)
         /\ \A i \in FileOffset(p, root, v) .. Len(p) - 1 :
              IsDirsep(At(p, i), v) => i = root
<1> DEFINE S == {i \in Seps(p, 0, v) : i > root}
           last == LastOf(S, root - 1)
<1>1. /\ Len(p) \in Nat /\ S \subseteq root + 1 .. Len(p) - 1
      /\ root \in Int /\ root + 1 \in Int /\ Len(p) - 1 \in Int
  BY DEF Seps
<1>2. FileOffset(p, root, v) = 1 + last
  BY DEF FileOffset
<1>3. \A i \in root + 1 .. Len(p) - 1 : IsDirsep(At(p, i), v) => i \in S
  BY DEF Seps
<1> HIDE DEF S
<1>4. /\ S = {} => last = root - 1
      /\ S # {} => last \in S /\ \A i \in S : i <= last
  BY <1>1, LastOfIs
<1> HIDE DEF last
<1>5. last \in root - 1 .. Len(p) - 1 /\ \A i \in S : i <= last
  <2>1. CASE S = {}
    BY <1>1, <1>4, <2>1
  <2>2. CASE S # {}
    <3>1. last \in root + 1 .. Len(p) - 1 /\ \A i \in S : i <= last
      BY <1>1, <1>4, <2>2
    <3>. QED  BY <1>1, <3>1
  <2>. QED  BY <2>1, <2>2
<1>. QED  BY <1>1, <1>2, <1>3, <1>5

LEMMA DirIn ==
  ASSUME NEW Chars, NEW p \in Seq(Chars), NEW root \in 0 .. Len(p),
         NEW file \in root .. Len(p), NEW v
  PROVE  /\ DirLength(p, root, file, v) \in root .. file
         /\ \A i \in DirLength(p, root, file, v) .. file - 1 : IsDirsep(At(p, i), v)
<1> DEFINE S == {i \in root .. file - 1 : ~ IsDirsep(At(p, i), v)}
           last == LastOf(S, root - 1)
<1>1. /\ Len(p) \in Nat /\ S \subseteq root .. file - 1
      /\ root \in Int /\ file \in Int /\ root <= file /\ file - 1 \in Int
  OBVIOUS
<1>2. DirLength(p, root, file, v) = 1 + last
  BY DEF DirLength
<1>3. \A i \in root .. file - 1 : i \in S \/ IsDirsep(At(p, i), v)
  OBVIOUS
<1> HIDE DEF S
<1>4. /\ S = {} => last = root - 1
      /\ S # {} => last \in S /\ \A i \in S : i <= last
  BY <1>1, LastOfIs
<1> HIDE DEF last
<1>5. last \in root - 1 .. file - 1 /\ \A i \in S : i <= last
  <2>1. CASE S = {}
    BY <1>1, <1>4, <2>1
  <2>2. CASE S # {}
    <3>1. last \in root .. file - 1 /\ \A i \in S : i <= last
      BY <1>1, <1>4, <2>2
    <3>. QED  BY <1>1, <3>1
  <2>. QED  BY <2>1, <2>2
<1>. QED  BY <1>1, <1>2, <1>3, <1>5

LEMMA ExtIn ==
  ASSUME NEW Chars, NEW p \in Seq(Chars), NEW file \in 0 .. Len(p), ExtOffset(p, file) # 0
  PROVE  /\ file + 2 < ExtOffset(p, file) /\ ExtOffset(p, file) <= Len(p)
         /\ At(p, ExtOffset(p, file) - 1) = "."
<1> DEFINE S == {i \in file + 2 .. Len(p) - 1 : At(p, i) = "."}
           last == LastOf(S, -1)
<1>1. /\ Len(p) \in Nat /\ S \subseteq file + 2 .. Len(p) - 1
      /\ file + 2 \in Int /\ Len(p) - 1 \in Int
  OBVIOUS
<1>2. ExtOffset(p, file) = 1 + last
  BY DEF ExtOffset
<1>3. \A i \in S : i \in file + 2 .. Len(p) - 1 /\ At(p, i) = "."
  OBVIOUS
<1> HIDE DEF S
<1>4. /\ S = {} => last = -1
      /\ S # {} => last \in S
  BY <1>1, LastOfIs
<1> HIDE DEF last
<1>5. last \in S
  BY <1>2, <1>4
<1>6. last \in Int /\ 1 + last - 1 = last
  BY <1>3, <1>5
<1>. QED  BY <1>1, <1>2, <1>3, <1>5, <1>6

LEMMA SplitIs ==
  ASSUME NEW Chars, NEW p \in Seq(Chars)
  PROVE  /\ SplitPath(p).verbatim = IsVerbatim(p) /\ SplitPath(p).root = RootLength(p)
         /\ SplitPath(p).root \in 0 .. Len(p)
         /\ SplitPath(p).file \in SplitPath(p).root .. Len(p)
         /\ SplitPath(p).dir \in SplitPath(p).root .. SplitPath(p).file
         /\ SplitPath(p).ext \in 0 .. Len(p)
         /\ Ordered(p, SplitPath(p))
<1> DEFINE v == IsVerbatim(p)
           root == RootLength(p)
           file == FileOffset(p, root, v)
           dir == DirLength(p, root, file, v)
           ext == ExtOffset(p, file)
<1>1. SplitPath(p) = [verbatim |-> v, root |-> root, file |-> file, dir |-> dir, ext |-> ext]
  BY DEF SplitPath
<1>2. Len(p) \in Nat /\ root \in 0 .. Len(p)
  BY RootIn
<1> HIDE DEF v, root
<1>3. /\ file \in root .. Len(p)
      /\ \A i \in file .. Len(p) - 1 : IsDirsep(At(p, i), v) => i = root
  BY <1>2, FileIn
<1> HIDE DEF file
<1>4. dir \in root .. file /\ \A i \in dir .. file - 1 : IsDirsep(At(p, i), v)
  BY <1>2, <1>3, DirIn
<1>5. ext # 0 => file + 2 < ext /\ ext <= Len(p) /\ At(p, ext - 1) = "."
  <2>1. file \in 0 .. Len(p)
    BY <1>2, <1>3
  <2>. QED  BY <2>1, ExtIn
<1>6. ext \in 0 .. Len(p)
  <2>1. file \in Int /\ 0 <= file
    BY <1>2, <1>3
  <2>2. ext \in Int
    <3> DEFINE S == {i \in file + 2 .. Len(p) - 1 : At(p, i) = "."}
    <3>1. ext = 1 + LastOf(S, -1)
      BY DEF ext, ExtOffset
    <3>2. S \subseteq file + 2 .. Len(p) - 1 /\ file + 2 \in Int /\ Len(p) - 1 \in Int
      BY <1>2, <2>1
    <3> HIDE DEF S, ext
    <3>3. LastOf(S, -1) = -1 \/ LastOf(S, -1) \in S
      BY <3>2, LastOfIs
    <3>4. \A x \in S : x \in Int
      BY <3>2
    <3>5. -1 \in Int
      OBVIOUS
    <3>6. LastOf(S, -1) \in Int
      BY <3>3, <3>4, <3>5, Zenon
    <3>. QED  BY <3>1, <3>6
  <2> HIDE DEF ext
  <2>. QED  BY <1>2, <1>5, <2>1, <2>2
<1> DEFINE c == [verbatim |-> v, root |-> root, file |-> file, dir |-> dir, ext |-> ext]
<1>7. /\ c.verbatim = v /\ c.root = root /\ c.file = file /\ c.dir = dir /\ c.ext = ext
  OBVIOUS
<1>8. SplitPath(p) = c
  BY <1>1
<1> HIDE DEF c, dir, ext
<1>9. Ordered(p, c)
  BY <1>2, <1>3, <1>4, <1>5, <1>7 DEF Ordered
<1>. QED  BY <1>2, <1>3, <1>4, <1>6, <1>7, <1>8, <1>9 DEF v, root

---------------------------------------------------------------------------
(* Induction up to n: what holds first, and of the next number if of one.  *)
LEMMA Climb ==
  ASSUME NEW a \in Int, NEW n \in Int, NEW S, a \in S,
         \A i \in a .. n - 1 : i \in S => i + 1 \in S
  PROVE  a .. n \subseteq S
<1> DEFINE T == (a .. n) \ S
<1>1. ASSUME T # {} PROVE FALSE
  <2>1. T \subseteq Int /\ \A x \in T : a <= x
    OBVIOUS
  <2>2. PICK x \in T : \A y \in T : x <= y
    <3> HIDE DEF T
    <3>. QED  BY <1>1, <2>1, HasFirst
  <2>3. x # a /\ x \in a .. n
    OBVIOUS
  <2>4. x - 1 \in a .. n - 1
    BY <2>3
  <2>5. x - 1 \notin T
    BY <2>1, <2>2
  <2>6. x - 1 \in S
    BY <2>3, <2>4, <2>5
  <2>7. (x - 1) + 1 \in S
    BY <2>4, <2>6
  <2>. QED  BY <2>3, <2>7
<1>. QED  BY <1>1

(* Parts of sequences.                                                     *)
LEMMA Cut ==
  ASSUME NEW C, NEW p \in Seq(C), NEW m \in Int, NEW n \in Int, 1 <= m, n <= Len(p)
  PROVE  /\ SubSeq(p, m, n) \in Seq(C)
         /\ Len(SubSeq(p, m, n)) = IF m <= n THEN n - m + 1 ELSE 0
         /\ \A i \in 1 .. n - m + 1 : SubSeq(p, m, n)[i] = p[m + i - 1]
<1>1. \A i \in m .. n : p[i] \in C
  <2>1. \A i \in m .. n : i \in 1 .. Len(p)
    OBVIOUS
  <2>. QED  BY <2>1
<1>. QED  BY <1>1, SubSeqProperties

LEMMA UptoIs ==
  ASSUME NEW C, NEW p \in Seq(C), NEW n \in 0 .. Len(p)
  PROVE  /\ Upto(p, n) \in Seq(C) /\ Len(Upto(p, n)) = n
         /\ \A i \in 1 .. n : Upto(p, n)[i] = p[i]
<1>1. n \in Int /\ 1 \in Int /\ n <= Len(p) /\ n >= 0
  OBVIOUS
<1>2. /\ SubSeq(p, 1, n) \in Seq(C)
      /\ Len(SubSeq(p, 1, n)) = IF 1 <= n THEN n - 1 + 1 ELSE 0
      /\ \A i \in 1 .. n - 1 + 1 : SubSeq(p, 1, n)[i] = p[1 + i - 1]
  BY <1>1, Cut
<1>3. n - 1 + 1 = n /\ \A i \in 1 .. n : 1 + i - 1 = i
  BY <1>1
<1>4. Len(SubSeq(p, 1, n)) = n
  BY <1>1, <1>2
<1>. QED  BY <1>2, <1>3, <1>4 DEF Upto

LEMMA FromIs ==
  ASSUME NEW C, NEW p \in Seq(C), NEW n \in 0 .. Len(p)
  PROVE  /\ From(p, n) \in Seq(C) /\ Len(From(p, n)) = Len(p) - n
         /\ \A i \in 1 .. Len(p) - n : From(p, n)[i] = p[n + i]
<1> DEFINE L == Len(p)
<1>1. L \in Nat /\ n + 1 \in Int /\ 1 <= n + 1 /\ n >= 0 /\ n <= L
  OBVIOUS
<1>2. /\ SubSeq(p, n + 1, L) \in Seq(C)
      /\ Len(SubSeq(p, n + 1, L)) = IF n + 1 <= L THEN L - (n + 1) + 1 ELSE 0
      /\ \A i \in 1 .. L - (n + 1) + 1 : SubSeq(p, n + 1, L)[i] = p[n + 1 + i - 1]
  BY <1>1, Cut
<1> HIDE DEF L
<1>3. L - (n + 1) + 1 = L - n /\ \A i \in 1 .. L - n : n + 1 + i - 1 = n + i
  BY <1>1
<1>4. Len(SubSeq(p, n + 1, L)) = L - n
  BY <1>1, <1>2
<1>. QED  BY <1>2, <1>3, <1>4 DEF From, L

LEMMA JoinedIs ==
  ASSUME NEW C, NEW p \in Seq(C), NEW q \in Seq(C)
  PROVE  /\ p \o q \in Seq(C) /\ Len(p \o q) = Len(p) + Len(q)
         /\ \A i \in 1 .. Len(p) : (p \o q)[i] = p[i]
         /\ \A i \in 1 .. Len(q) : (p \o q)[Len(p) + i] = q[i]
OBVIOUS

(* Sequences put together.                                                 *)
LEMMA FlattenIs ==
  ASSUME NEW C, NEW s \in Seq(Seq(C)), s # <<>>
  PROVE  \E f \in [1 .. Len(s) -> Seq(C)] :
           /\ f[1] = s[1] /\ \A i \in 2 .. Len(s) : f[i] = f[i - 1] \o s[i]
           /\ FlattenSeq(s) = f[Len(s)]
<1> DEFINE L == Len(s)
           Put(f, i) == IF i = 1 THEN s[i] ELSE f[i - 1] \o s[i]
           g == CHOOSE f : f = [i \in 1 .. L |-> Put(f, i)]
<1>1. L \in Nat /\ L >= 1 /\ \A i \in 1 .. L : s[i] \in Seq(C)
  <2>1. L \in Nat \ {0}
    BY EmptySeq
  <2>. QED  BY <2>1, ElementOfSeq
<1>2. FlattenSeq(s) = g[L]
  <2>1. FlattenSeq(s) =
          (CHOOSE f : f = [i \in 1 .. Len(s) |-> IF i = 1 THEN s[i] ELSE f[i - 1] \o s[i]])[Len(s)]
    BY <1>1 DEF FlattenSeq
  <2>. QED  BY <2>1
<1> DEFINE Made(f, n) == f \in [1 .. n -> Seq(C)] /\ \A i \in 1 .. n : f[i] = Put(f, i)
           CanMake == {n \in 1 .. L : \E f : Made(f, n)}
<1> HIDE DEF L
<1>3. 1 .. L \subseteq CanMake
  <2>1. 1 \in CanMake
    <3> DEFINE f == [i \in 1 .. 1 |-> s[1]]
    <3>1. f \in [1 .. 1 -> Seq(C)]
      BY <1>1
    <3>2. \A i \in 1 .. 1 : i = 1 /\ f[i] = s[1]
      OBVIOUS
    <3> HIDE DEF f
    <3>3. Made(f, 1)
      BY <3>1, <3>2
    <3> HIDE DEF Made
    <3>. QED  BY <1>1, <3>3
  <2>2. ASSUME NEW n \in 1 .. L - 1, n \in CanMake
        PROVE  n + 1 \in CanMake
    <3>1. PICK f : Made(f, n)
      BY <2>2
    <3> DEFINE h == [i \in 1 .. n + 1 |-> IF i = n + 1 THEN f[n] \o s[n + 1] ELSE f[i]]
    <3>2. n \in Int /\ n >= 1 /\ n + 1 \in 1 .. L /\ n \in 1 .. n
      BY <1>1
    <3>3. f[n] \o s[n + 1] \in Seq(C)
      BY <1>1, <3>1, <3>2, ConcatProperties
    <3>4. \A i \in 1 .. n + 1 : i \in 1 .. n \/ i = n + 1
      BY <3>2
    <3>5. h \in [1 .. n + 1 -> Seq(C)]
      BY <3>1, <3>3, <3>4
    <3>6. (\A i \in 1 .. n : h[i] = f[i]) /\ h[n + 1] = f[n] \o s[n + 1]
      <4>1. \A i \in 1 .. n : i \in 1 .. n + 1 /\ i # n + 1
        BY <3>2
      <4>2. n + 1 \in 1 .. n + 1
        BY <3>2
      <4>3. h[n + 1] = f[n] \o s[n + 1]
        BY <4>2
      <4>4. \A i \in 1 .. n : h[i] = f[i]
        BY <4>1
      <4>. QED  BY <4>3, <4>4
    <3> HIDE DEF h
    <3>7. ASSUME NEW i \in 1 .. n + 1 PROVE h[i] = Put(h, i)
      <4>1. CASE i = n + 1
        <5>1. i # 1 /\ i - 1 = n
          BY <3>2, <4>1
        <5>2. h[n] = f[n]
          BY <3>2, <3>6
        <5>. QED  BY <3>6, <4>1, <5>1, <5>2
      <4>2. CASE i # n + 1
        <5>1. i \in 1 .. n /\ (i # 1 => i - 1 \in 1 .. n)
          BY <3>2, <4>2
        <5>2. f[i] = Put(f, i)
          BY <3>1, <5>1
        <5>. QED  BY <3>6, <5>1, <5>2
      <4>. QED  BY <4>1, <4>2
    <3>8. Made(h, n + 1)
      <4> HIDE DEF Put
      <4>. QED  BY <3>5, <3>7
    <3> HIDE DEF Made
    <3>. QED  BY <3>2, <3>8
  <2> HIDE DEF CanMake
  <2>3. 1 \in Int /\ L \in Int /\ \A n \in 1 .. L - 1 : n \in CanMake => n + 1 \in CanMake
    BY <1>1, <2>2
  <2>. QED  BY <2>1, <2>3, Climb
<1>4. g = [i \in 1 .. L |-> Put(g, i)]
  <2>1. L \in CanMake
    <3> HIDE DEF CanMake
    <3>. QED  BY <1>1, <1>3
  <2>2. PICK f : Made(f, L)
    <3> HIDE DEF Made
    <3>. QED  BY <2>1
  <2>3. f = [i \in 1 .. L |-> Put(f, i)]
    <3> HIDE DEF Put
    <3>. QED  BY <2>2
  <2>. QED  BY <2>3
<1> HIDE DEF g, CanMake
<1>5. \A i \in 1 .. L : g[i] = Put(g, i)
  <2> HIDE DEF Put
  <2>. QED  BY <1>4
<1> DEFINE Typed == {i \in 1 .. L : g[i] \in Seq(C)}
<1>6. 1 .. L \subseteq Typed
  <2>1. 1 \in Typed
    BY <1>1, <1>5
  <2>2. ASSUME NEW n \in 1 .. L - 1, n \in Typed
        PROVE  n + 1 \in Typed
    <3>1. n + 1 \in 1 .. L /\ n + 1 # 1 /\ (n + 1) - 1 = n
      BY <1>1
    <3>2. g[n + 1] = g[n] \o s[n + 1]
      BY <1>5, <3>1
    <3>3. g[n] \o s[n + 1] \in Seq(C)
      BY <1>1, <2>2, <3>1, ConcatProperties
    <3>. QED  BY <3>1, <3>2, <3>3
  <2> HIDE DEF Typed
  <2>3. 1 \in Int /\ L \in Int /\ \A n \in 1 .. L - 1 : n \in Typed => n + 1 \in Typed
    BY <1>1, <2>2
  <2>. QED  BY <2>1, <2>3, Climb
<1>7. g \in [1 .. L -> Seq(C)]
  <2> HIDE DEF Put
  <2>. QED  BY <1>4, <1>6
<1>8. g[1] = s[1] /\ \A i \in 2 .. L : g[i] = g[i - 1] \o s[i]
  <2>1. 1 \in 1 .. L /\ \A i \in 2 .. L : i \in 1 .. L /\ i # 1
    BY <1>1
  <2>. QED  BY <1>5, <2>1
<1>. QED  BY <1>2, <1>7, <1>8 DEF L

LEMMA FlattenTwo ==
  ASSUME NEW C, NEW p \in Seq(C), NEW q \in Seq(C)
  PROVE  FlattenSeq(<<p, q>>) = p \o q
<1> DEFINE s == <<p, q>>
<1>1. s \in Seq(Seq(C)) /\ Len(s) = 2 /\ s # <<>> /\ s[1] = p /\ s[2] = q
  OBVIOUS
<1> HIDE DEF s
<1>2. PICK f \in [1 .. Len(s) -> Seq(C)] :
        /\ f[1] = s[1] /\ \A i \in 2 .. Len(s) : f[i] = f[i - 1] \o s[i]
        /\ FlattenSeq(s) = f[Len(s)]
  BY <1>1, FlattenIs
<1>3. 2 \in 2 .. Len(s) /\ 2 - 1 = 1
  BY <1>1
<1>4. f[2] = f[1] \o s[2]
  BY <1>2, <1>3
<1>5. FlattenSeq(s) = p \o q
  BY <1>1, <1>2, <1>4
<1>. QED  BY <1>5 DEF s

LEMMA FlattenType ==
  ASSUME NEW C, NEW s \in Seq(Seq(C))
  PROVE  FlattenSeq(s) \in Seq(C)
<1>1. CASE s = <<>>
  BY <1>1 DEF FlattenSeq
<1>2. CASE s # <<>>
  <2>1. PICK f \in [1 .. Len(s) -> Seq(C)] : FlattenSeq(s) = f[Len(s)]
    BY <1>2, FlattenIs
  <2>2. Len(s) \in 1 .. Len(s)
    <3>1. Len(s) \in Nat \ {0}
      BY <1>2, EmptySeq
    <3>. QED  BY <3>1
  <2>. QED  BY <2>1, <2>2
<1>. QED  BY <1>1, <1>2

(* A function whose value at a number is found from the one before: there  *)
(* is one, of the type of the step.                                        *)
Runs(f, L, a, G) == f[0] = a /\ \A n \in 1 .. L : f[n] = G[<<n, f[n - 1]>>]

LEMMA Recursion ==
  ASSUME NEW V, NEW a \in V, NEW L \in Nat, NEW G \in [(1 .. L) \X V -> V]
  PROVE  \E f \in [0 .. L -> V] : Runs(f, L, a, G)
<1> DEFINE Made(f, n) == /\ f \in [0 .. n -> V] /\ f[0] = a
                         /\ \A i \in 1 .. n : f[i] = G[<<i, f[i - 1]>>]
           CanMake == {n \in 0 .. L : \E f : Made(f, n)}
<1>1. 0 \in CanMake
  <2> DEFINE f == [i \in 0 .. 0 |-> a]
  <2>1. f \in [0 .. 0 -> V]
    OBVIOUS
  <2>2. f[0] = a
    OBVIOUS
  <2> HIDE DEF f
  <2>3. Made(f, 0)
    BY <2>1, <2>2
  <2> HIDE DEF Made
  <2>. QED  BY <2>3
<1>2. ASSUME NEW n \in 0 .. L - 1, n \in CanMake
      PROVE  n + 1 \in CanMake
  <2>1. PICK f : Made(f, n)
    BY <1>2
  <2> DEFINE g == G[<<n + 1, f[n]>>]
             h == [i \in 0 .. n + 1 |-> IF i = n + 1 THEN g ELSE f[i]]
  <2>2. n \in Int /\ n >= 0 /\ n + 1 \in 1 .. L /\ n + 1 \in 0 .. L /\ n \in 0 .. n
    OBVIOUS
  <2>3. f[n] \in V
    BY <2>1, <2>2
  <2>4. g \in V
    BY <2>2, <2>3
  <2> HIDE DEF g
  <2>5. \A i \in 0 .. n + 1 : i \in 0 .. n \/ i = n + 1
    BY <2>2
  <2>6. h \in [0 .. n + 1 -> V]
    BY <2>1, <2>4, <2>5
  <2>7. \A i \in 0 .. n : h[i] = f[i]
    <3>1. \A i \in 0 .. n : i \in 0 .. n + 1 /\ i # n + 1
      BY <2>2
    <3>. QED  BY <3>1
  <2>8. h[n + 1] = g
    <3>1. n + 1 \in 0 .. n + 1
      BY <2>2
    <3>. QED  BY <3>1
  <2> HIDE DEF h
  <2>9. ASSUME NEW i \in 1 .. n + 1 PROVE h[i] = G[<<i, h[i - 1]>>]
    <3>1. CASE i = n + 1
      <4>1. i - 1 = n
        BY <2>2, <3>1
      <4>. QED  BY <2>2, <2>7, <2>8, <3>1, <4>1 DEF g
    <3>2. CASE i # n + 1
      <4>1. i \in 1 .. n /\ i \in 0 .. n /\ i - 1 \in 0 .. n
        BY <2>2, <3>2
      <4>2. f[i] = G[<<i, f[i - 1]>>]
        BY <2>1, <4>1
      <4>. QED  BY <2>7, <4>1, <4>2
    <3>. QED  BY <3>1, <3>2
  <2>10. h[0] = a
    <3>1. 0 \in 0 .. n
      BY <2>2
    <3>. QED  BY <2>1, <2>7, <3>1
  <2>11. Made(h, n + 1)
    BY <2>6, <2>9, <2>10
  <2> HIDE DEF Made
  <2>. QED  BY <2>2, <2>11
<1>3. L \in CanMake
  <2> HIDE DEF CanMake
  <2>1. 0 \in Int /\ L \in Int /\ \A n \in 0 .. L - 1 : n \in CanMake => n + 1 \in CanMake
    BY <1>2
  <2>2. 0 .. L \subseteq CanMake
    BY <1>1, <2>1, Climb
  <2>3. L \in 0 .. L
    OBVIOUS
  <2>. QED  BY <2>2, <2>3
<1>4. PICK f : Made(f, L)
  <2> HIDE DEF Made
  <2>. QED  BY <1>3
<1>. QED  BY <1>4 DEF Runs

---------------------------------------------------------------------------
(* The numbers of a finite set in order.                                   *)
LEMMA BelowFinite ==
  ASSUME NEW S, S \subseteq Int, IsFiniteSet(S), NEW x
  PROVE  /\ IsFiniteSet({z \in S : z < x})
         /\ Cardinality({z \in S : z < x}) \in Nat
BY FS_Subset, FS_CardinalityType

LEMMA BelowGrows ==
  ASSUME NEW S, S \subseteq Int, IsFiniteSet(S), NEW x \in S, NEW y \in Int, x < y
  PROVE  Cardinality({z \in S : z < x}) < Cardinality({z \in S : z < y})
<1> DEFINE X == {z \in S : z < x}
           Y == {z \in S : z < y}
<1>1. X \subseteq Y /\ x \in Y /\ x \notin X
  <2>1. x \in Int /\ \A z \in S : z \in Int
    OBVIOUS
  <2>2. \A z \in X : z \in Y
    BY <2>1
  <2>3. x \in Y
    OBVIOUS
  <2>4. x \notin X
    BY <2>1
  <2>. QED  BY <2>2, <2>3, <2>4
<1>2. IsFiniteSet(Y)
  BY BelowFinite
<1> HIDE DEF X, Y
<1>3. Cardinality(X) <= Cardinality(Y) /\ (Cardinality(X) = Cardinality(Y) => X = Y)
  BY <1>1, <1>2, FS_Subset
<1>4. Cardinality(X) \in Nat /\ Cardinality(Y) \in Nat
  BY BelowFinite DEF X, Y
<1>5. Cardinality(X) # Cardinality(Y)
  BY <1>1, <1>3
<1>. QED  BY <1>3, <1>4, <1>5 DEF X, Y

(* A number of the set with k - 1 before it is its k-th.                   *)
LEMMA NthOne ==
  ASSUME NEW S, S \subseteq Int, IsFiniteSet(S), NEW k,
         NEW x \in S, Cardinality({z \in S : z < x}) = k - 1
  PROVE  Nth(S, k) = x
<1> DEFINE R == {y \in S : Cardinality({z \in S : z < y}) = k - 1}
<1>1. ASSUME NEW y \in R PROVE y = x
  <2> DEFINE X == Cardinality({z \in S : z < x})
             Y == Cardinality({z \in S : z < y})
  <2>1. y \in S /\ y \in Int /\ x \in Int /\ Y = X
    OBVIOUS
  <2>2. X \in Nat
    BY BelowFinite
  <2>3. (y < x => Y < X) /\ (x < y => X < Y)
    BY <2>1, BelowGrows
  <2> HIDE DEF X, Y
  <2>. QED  BY <2>1, <2>2, <2>3
<1>2. x \in R
  OBVIOUS
<1>3. Nth(S, k) = CHOOSE y \in R : TRUE
  BY DEF Nth
<1> HIDE DEF R
<1>. QED  BY <1>1, <1>2, <1>3

(* There is one for each k up to the size of the set.                      *)
LEMMA NthIs ==
  ASSUME NEW S, S \subseteq Int, IsFiniteSet(S), NEW a \in Int, \A x \in S : a <= x,
         NEW k \in 1 .. Cardinality(S)
  PROVE  Nth(S, k) \in S /\ Cardinality({z \in S : z < Nth(S, k)}) = k - 1
<1> DEFINE n == Cardinality(S)
           Below(x) == {z \in S : z < x}
           Ranks == {i \in 1 .. n : \E x \in S : Cardinality(Below(x)) = i - 1}
<1>1. n \in Nat /\ n >= 1
  BY FS_CardinalityType
<1> HIDE DEF n
<1>2. 1 \in Ranks
  <2>1. S # {}
    BY <1>1, FS_EmptySet DEF n
  <2>2. PICK x \in S : \A y \in S : x <= y
    BY <2>1, HasFirst
  <2>3. Below(x) = {}
    <3>1. \A z \in S : z \in Int /\ x <= z /\ x \in Int
      BY <2>2
    <3>2. \A z \in S : ~ z < x
      BY <3>1
    <3>. QED  BY <3>2
  <2>4. Cardinality(Below(x)) = 0
    BY <2>3, FS_EmptySet
  <2> HIDE DEF Below
  <2>. QED  BY <1>1, <2>4
<1>3. ASSUME NEW i \in 1 .. n - 1, i \in Ranks PROVE i + 1 \in Ranks
  <2>1. PICK x \in S : Cardinality(Below(x)) = i - 1
    BY <1>3
  <2> DEFINE More == {y \in S : x < y}
             Through == Below(x) \cup {x}
  <2>2. IsFiniteSet(Through) /\ Cardinality(Through) = i
    <3>0. x \in Int
      OBVIOUS
    <3>1. x \notin Below(x) /\ IsFiniteSet(Below(x))
      <4>1. IsFiniteSet(Below(x))
        BY BelowFinite
      <4>2. x \notin Below(x)
        BY <3>0
      <4>. QED  BY <4>1, <4>2
    <3>2. /\ IsFiniteSet(Below(x) \cup {x})
          /\ Cardinality(Below(x) \cup {x}) = Cardinality(Below(x)) + 1
      <4> HIDE DEF Below
      <4>. QED  BY <3>1, FS_AddElement
    <3>. QED  BY <2>1, <3>2
  <2>3. More # {}
    <3>0. x \in Int /\ \A z \in S : z \in Int
      OBVIOUS
    <3>1. More = {} => S = Through
      <4>1. \A z \in S : z \in More \/ z \in Through
        BY <3>0
      <4>2. \A z \in Through : z \in S
        OBVIOUS
      <4> HIDE DEF More, Through
      <4>. QED  BY <4>1, <4>2
    <3>2. S # Through
      BY <1>1, <2>2 DEF n
    <3>. QED  BY <3>1, <3>2
  <2>4. More \subseteq Int /\ \A y \in More : a <= y
    OBVIOUS
  <2>5. PICK y \in More : \A w \in More : y <= w
    <3> HIDE DEF More
    <3>. QED  BY <2>3, <2>4, HasFirst
  <2>6. Below(y) = Through
    <3>1. x \in Int /\ y \in Int /\ x < y /\ \A z \in S : z \in Int
      BY <2>5
    <3>2. \A z \in S : x < z => ~ z < y
      BY <2>5, <3>1
    <3>3. \A z \in Below(y) : z \in Through
      BY <3>1, <3>2
    <3>4. \A z \in Through : z \in Below(y)
      BY <3>1
    <3> HIDE DEF Below, Through
    <3>. QED  BY <3>3, <3>4
  <2>7. Cardinality(Below(y)) = (i + 1) - 1 /\ y \in S /\ i + 1 \in 1 .. n
    BY <1>1, <2>2, <2>6
  <2> HIDE DEF Below
  <2>. QED  BY <2>7
<1>4. k \in Ranks
  <2> HIDE DEF Ranks
  <2>1. 1 \in Int /\ n \in Int /\ \A i \in 1 .. n - 1 : i \in Ranks => i + 1 \in Ranks
    BY <1>1, <1>3
  <2>2. 1 .. n \subseteq Ranks
    BY <1>2, <2>1, Climb
  <2>. QED  BY <2>2 DEF n
<1>5. PICK x \in S : Cardinality(Below(x)) = k - 1
  BY <1>4
<1>6. Nth(S, k) = x
  BY <1>5, NthOne
<1>. QED  BY <1>5, <1>6

(* In order, and none left out.                                            *)
LEMMA NthOrder ==
  ASSUME NEW S, S \subseteq Int, IsFiniteSet(S), NEW a \in Int, \A x \in S : a <= x,
         NEW i \in 1 .. Cardinality(S), NEW j \in 1 .. Cardinality(S), i < j
  PROVE  Nth(S, i) < Nth(S, j)
<1> DEFINE x == Nth(S, i)
           y == Nth(S, j)
<1>1. x \in S /\ Cardinality({z \in S : z < x}) = i - 1
  BY NthIs
<1>2. y \in S /\ Cardinality({z \in S : z < y}) = j - 1
  BY NthIs
<1> HIDE DEF x, y
<1>3. x \in Int /\ y \in Int /\ i \in Int /\ j \in Int
  BY <1>1, <1>2
<1>4. ~ y < x
  <2>1. y < x => j - 1 < i - 1
    BY <1>1, <1>2, <1>3, BelowGrows
  <2>. QED  BY <1>3, <2>1
<1>5. x # y
  BY <1>1, <1>2, <1>3
<1>. QED  BY <1>3, <1>4, <1>5 DEF x, y

LEMMA PlaceOf ==
  ASSUME NEW S, S \subseteq Int, IsFiniteSet(S), NEW a \in Int, \A x \in S : a <= x, NEW x \in S
  PROVE  \E k \in 1 .. Cardinality(S) : Nth(S, k) = x
<1> DEFINE Below == {z \in S : z < x}
           k == Cardinality(Below) + 1
<1>1. Below \subseteq S /\ x \notin Below
  <2>1. x \in Int
    OBVIOUS
  <2>. QED  BY <2>1
<1>2. Cardinality(Below) \in Nat /\ Cardinality(S) \in Nat
  BY BelowFinite, FS_CardinalityType
<1>3. Cardinality(Below) <= Cardinality(S) /\ Cardinality(Below) # Cardinality(S)
  <2> HIDE DEF Below
  <2>. QED  BY <1>1, FS_Subset
<1>4. k \in 1 .. Cardinality(S) /\ Cardinality(Below) = k - 1
  <2> HIDE DEF Below
  <2>. QED  BY <1>2, <1>3
<1>5. Nth(S, k) = x
  BY <1>4, NthOne
<1>. QED  BY <1>4, <1>5

LEMMA InOrderIs ==
  ASSUME NEW a \in Int, NEW b \in Int, NEW S, S \subseteq a .. b
  PROVE  /\ S \subseteq Int /\ IsFiniteSet(S) /\ \A x \in S : a <= x
         /\ Cardinality(S) \in Nat
         /\ InOrder(S) \in Seq(S) /\ Len(InOrder(S)) = Cardinality(S)
         /\ DOMAIN InOrder(S) = 1 .. Cardinality(S)
         /\ \A k \in 1 .. Cardinality(S) : InOrder(S)[k] = Nth(S, k) /\ Nth(S, k) \in S
<1> DEFINE n == Cardinality(S)
<1>1. S \subseteq Int /\ IsFiniteSet(S) /\ \A x \in S : a <= x
  <2>1. S \subseteq Int /\ \A x \in S : a <= x
    OBVIOUS
  <2>. QED  BY <2>1, FS_Interval, FS_Subset
<1>2. n \in Nat
  BY <1>1, FS_CardinalityType
<1>3. \A k \in 1 .. n : Nth(S, k) \in S
  BY <1>1, NthIs
<1>4. InOrder(S) = [k \in 1 .. n |-> Nth(S, k)]
  BY DEF InOrder
<1> HIDE DEF n
<1>5. InOrder(S) \in [1 .. n -> S]
  BY <1>3, <1>4
<1>6. InOrder(S) \in Seq(S) /\ Len(InOrder(S)) = n
  BY <1>2, <1>5
<1>7. DOMAIN InOrder(S) = 1 .. n /\ \A k \in 1 .. n : InOrder(S)[k] = Nth(S, k)
  BY <1>4
<1>. QED  BY <1>1, <1>2, <1>3, <1>6, <1>7 DEF n

---------------------------------------------------------------------------
(* What the functions return are paths, or nil.                            *)
Paths == Seq(Characters)

LEMMA Typed ==
  /\ DirSep \in Characters /\ "." \in Characters /\ "junk" \in Characters
  /\ Letters \subseteq Characters
  /\ <<>> \in Paths /\ <<DirSep>> \in Paths /\ <<".">> \in Paths
  /\ \A p \in Paths, c \in Characters : Append(p, c) \in Paths
  /\ \A p \in Paths, q \in Paths : p \o q \in Paths
<1>1. /\ DirSep \in Characters /\ "." \in Characters /\ "junk" \in Characters
      /\ Letters \subseteq Characters
  BY CharactersAssumption DEF DirSep
<1>2. <<>> \in Paths /\ \A c \in Characters : <<c>> \in Paths
  BY DEF Paths
<1>3. /\ \A p \in Paths, c \in Characters : Append(p, c) \in Paths
      /\ \A p \in Paths, q \in Paths : p \o q \in Paths
  BY DEF Paths
<1>. QED  BY <1>1, <1>2, <1>3

LEMMA SplitType ==
  ASSUME NEW p \in Paths
  PROVE  /\ SplitPath(p).root \in 0 .. Len(p) /\ SplitPath(p).file \in 0 .. Len(p)
         /\ SplitPath(p).dir \in 0 .. Len(p) /\ SplitPath(p).ext \in 0 .. Len(p)
         /\ SplitPath(p).root = RootLength(p) /\ Len(p) \in Nat
<1>1. Len(p) \in Nat
  BY DEF Paths
<1>2. /\ SplitPath(p).root = RootLength(p) /\ SplitPath(p).root \in 0 .. Len(p)
      /\ SplitPath(p).file \in SplitPath(p).root .. Len(p)
      /\ SplitPath(p).dir \in SplitPath(p).root .. SplitPath(p).file
      /\ SplitPath(p).ext \in 0 .. Len(p)
  BY SplitIs DEF Paths
<1>3. ASSUME NEW r \in 0 .. Len(p), NEW f \in r .. Len(p), NEW d \in r .. f
      PROVE  f \in 0 .. Len(p) /\ d \in 0 .. Len(p)
  BY <1>1
<1>. QED  BY <1>1, <1>2, <1>3

LEMMA PartsType ==
  ASSUME NEW p \in Paths
  PROVE  /\ \A n \in 0 .. Len(p) : Upto(p, n) \in Paths /\ From(p, n) \in Paths
         /\ Extension(p) \in Paths \cup {None} /\ Root(p) \in Paths \cup {None}
         /\ Parent(p) \in Paths \cup {None} /\ FileName(p) \in Paths \cup {None}
         /\ \A k \in 1 .. 2 : Split(p)[k] \in Paths \cup {None}
<1>1. \A n \in 0 .. Len(p) : Upto(p, n) \in Paths /\ From(p, n) \in Paths
  BY UptoIs, FromIs DEF Paths
<1>2. Extension(p) \in Paths \cup {None}
  BY <1>1, SplitType DEF Extension
<1>3. Root(p) \in Paths \cup {None}
  BY <1>1, SplitType DEF Root
<1>4. Parent(p) \in Paths \cup {None}
  BY <1>1, SplitType DEF Parent
<1>5. FileName(p) \in Paths \cup {None}
  BY <1>1, SplitType DEF FileName
<1>6. \A k \in 1 .. 2 : Split(p)[k] \in Paths \cup {None}
  <2> DEFINE d == IF SplitPath(p).dir > 0 THEN Upto(p, SplitPath(p).dir) ELSE None
             f == FileName(p)
  <2>1. d \in Paths \cup {None} /\ f \in Paths \cup {None}
    BY <1>1, <1>5, SplitType
  <2>2. Split(p) = <<d, f>>
    BY DEF Split
  <2> HIDE DEF d, f
  <2>. QED  BY <2>1, <2>2
<1>. QED  BY <1>1, <1>2, <1>3, <1>4, <1>5, <1>6

LEMMA FileStemType ==
  ASSUME NEW p \in Paths
  PROVE  FileStem(p) \in Paths \cup {None}
<1> DEFINE c == SplitPath(p)
           behind == [i \in DOMAIN p |-> "junk"]
           more == p \o behind
           stem == SubSeq(more, c.file + 1, c.file + StemLength(p))
<1>1. c.file \in 0 .. Len(p) /\ c.ext \in 0 .. Len(p) /\ Len(p) \in Nat
  BY SplitType
<1>2. behind \in Paths /\ Len(behind) = Len(p)
  <2>1. behind \in [1 .. Len(p) -> Characters]
    BY Typed DEF Paths
  <2>. QED  BY <1>1, <2>1 DEF Paths
<1>3. StemLength(p) = Len(p) - c.ext + (IF c.ext = 0 THEN 0 ELSE 1)
  BY DEF StemLength
<1> HIDE DEF behind
<1>4. more \in Paths /\ Len(more) = Len(p) + Len(p)
  BY <1>2, JoinedIs DEF Paths
<1>5. FileStem(p) = IF c.file = Len(p) THEN None
                    ELSE IF c.file = 0 /\ c.ext = Len(p) THEN p ELSE stem
  BY DEF FileStem, behind
<1> HIDE DEF more, c
<1>6. /\ c.file + 1 \in Int /\ 1 <= c.file + 1 /\ c.file + StemLength(p) \in Int
      /\ c.file + StemLength(p) <= Len(more)
  <2>1. StemLength(p) \in Int /\ StemLength(p) <= Len(p)
    BY <1>1, <1>3
  <2>. QED  BY <1>1, <1>4, <2>1
<1>7. stem \in Paths
  BY <1>4, <1>6, Cut DEF Paths
<1>. QED  BY <1>5, <1>7

LEMMA ReplacedType ==
  ASSUME NEW p \in Paths, NEW q \in Paths
  PROVE  /\ \A v : Slash(p, v) \in Paths
         /\ SetExtension(p, q) \in Paths /\ SetRoot(p, q) \in Paths
         /\ SetParent(p, q) \in Paths /\ SetFileName(p, q) \in Paths
         /\ SetFileStem(p, q) \in Paths
<1>1. \A r \in Paths : \A v : Slash(r, v) \in Paths
  BY Typed DEF Slash
<1>2. \A n \in 0 .. Len(p) : Upto(p, n) \in Paths /\ From(p, n) \in Paths
  BY PartsType
<1>3. SetExtension(p, q) \in Paths
  <2> DEFINE stem == IF SplitPath(p).ext = 0 THEN p ELSE Upto(p, SplitPath(p).ext - 1)
  <2>1. SplitPath(p).ext # 0 => SplitPath(p).ext - 1 \in 0 .. Len(p)
    BY SplitType
  <2>2. stem \in Paths
    BY <1>2, <2>1
  <2>3. SetExtension(p, q) = IF p = <<>> \/ SplitPath(p).file = Len(p) THEN p
                             ELSE IF q = <<>> THEN stem ELSE stem \o <<".">> \o q
    BY DEF SetExtension
  <2> HIDE DEF stem
  <2>4. stem \o <<".">> \in Paths /\ (stem \o <<".">>) \o q \in Paths
    BY <2>2, Typed
  <2>. QED  BY <2>2, <2>3, <2>4
<1>4. SetRoot(p, q) \in Paths
  <2>1. RootLength(p) \in 0 .. Len(p)
    BY SplitType
  <2>2. q \o <<DirSep>> \in Paths
    BY Typed
  <2>3. (q \o <<DirSep>>) \o From(p, RootLength(p)) \in Paths
    BY <1>2, <2>1, <2>2, Typed
  <2>. QED  BY <2>3 DEF SetRoot
<1>5. SetParent(p, q) \in Paths
  <2>1. From(p, SplitPath(p).file) \in Paths
    BY <1>2, SplitType
  <2>2. Slash(q, IsVerbatim(q)) \o From(p, SplitPath(p).file) \in Paths
    BY <1>1, <2>1, Typed
  <2>. QED  BY <2>1, <2>2 DEF SetParent
<1>6. Upto(p, SplitPath(p).file) \in Paths
  BY <1>2, SplitType
<1>7. Slash(Upto(p, SplitPath(p).file), SplitPath(p).verbatim) \in Paths
  BY <1>1, <1>6
<1>8. SetFileName(p, q) \in Paths
  BY <1>6, <1>7, Typed DEF SetFileName
<1>9. SetFileStem(p, q) \in Paths
  <2>1. Slash(Upto(p, SplitPath(p).file), SplitPath(p).verbatim) \o q \in Paths
    BY <1>7, Typed
  <2>2. From(p, SplitPath(p).ext) \in Paths
    BY <1>2, SplitType
  <2>3. (Slash(Upto(p, SplitPath(p).file), SplitPath(p).verbatim) \o q)
          \o From(p, SplitPath(p).ext) \in Paths
    BY <2>1, <2>2, Typed
  <2>. QED  BY <2>3 DEF SetFileStem
<1>. QED  BY <1>1, <1>3, <1>4, <1>5, <1>8, <1>9

LEMMA CombineType ==
  ASSUME NEW parts \in Seq(Paths)
  PROVE  Combine(parts) \in Paths
<1> DEFINE Used == {i \in DOMAIN parts : parts[i] # <<>>}
           Rooted == {i \in Used : IsRooted(parts[i])}
           Verbatim == {i \in Rooted : SplitPath(parts[i]).verbatim}
           first == FirstOf(Verbatim, LastOf(Rooted, 1))
           Piece(i) == IF i \notin Used \/ i < first THEN <<>>
                       ELSE IF i = Max(Used) THEN parts[i]
                       ELSE Slash(parts[i], SplitPath(parts[i]).verbatim)
           pieces == [i \in DOMAIN parts |-> Piece(i)]
<1>1. \A i \in DOMAIN parts : parts[i] \in Paths
  OBVIOUS
<1>2. \A i \in DOMAIN parts : Slash(parts[i], SplitPath(parts[i]).verbatim) \in Paths
  BY <1>1, ReplacedType
<1>3. Combine(parts) = FlattenSeq(pieces)
  BY DEF Combine
<1> HIDE DEF Used, first
<1>4. \A i \in DOMAIN parts : Piece(i) \in Paths
  BY <1>1, <1>2, Typed
<1> HIDE DEF Piece
<1>5. DOMAIN parts = 1 .. Len(parts) /\ Len(parts) \in Nat
  OBVIOUS
<1>6. pieces \in Seq(Paths)
  BY <1>4, <1>5
<1>. QED  BY <1>3, <1>6, FlattenType DEF Paths

LEMMA CombinedType ==
  ASSUME NEW p \in Paths, NEW q \in Paths
  PROVE  Combine(<<p, q>>) \in Paths /\ Combine(<<q, p, q>>) \in Paths
<1>1. <<p, q>> \in Seq(Paths) /\ <<q, p, q>> \in Seq(Paths)
  OBVIOUS
<1>. QED  BY <1>1, CombineType

LEMMA RandomType ==
  ASSUME NEW template \in Paths, NEW name \in RandomNames(template)
  PROVE  name \in Paths
<1>1. name \in [DOMAIN template -> Letters \cup ToSet(template)]
  BY DEF RandomNames
<1>2. DOMAIN template = 1 .. Len(template) /\ Len(template) \in Nat
  BY DEF Paths
<1>3. \A i \in DOMAIN template : template[i] \in Characters
  BY DEF Paths
<1>4. Letters \cup ToSet(template) \subseteq Characters
  BY <1>3, Typed DEF ToSet
<1>5. name \in [1 .. Len(template) -> Characters]
  BY <1>1, <1>2, <1>4
<1>. QED  BY <1>2, <1>5 DEF Paths

(* The characters Collapsed keeps, and where they come from.               *)
CollapsedAt(p) == {i \in DOMAIN p : IsDirsep(p[i], FALSE) => ~ AfterSep(p, i)}

LEMMA CollapsedIs ==
  ASSUME NEW p \in Paths
  PROVE  /\ CollapsedAt(p) \subseteq 1 .. Len(p) /\ Len(p) \in Nat
         /\ DOMAIN Collapsed(p) = 1 .. Cardinality(CollapsedAt(p))
         /\ \A k \in 1 .. Cardinality(CollapsedAt(p)) :
              Collapsed(p)[k] = Native(p[Nth(CollapsedAt(p), k)])
         /\ Collapsed(p) \in Paths /\ Len(Collapsed(p)) = Cardinality(CollapsedAt(p))
<1> DEFINE S == CollapsedAt(p)
           n == Cardinality(S)
<1>1. Len(p) \in Nat /\ DOMAIN p = 1 .. Len(p) /\ S \subseteq 1 .. Len(p)
  <2>1. Len(p) \in Nat /\ DOMAIN p = 1 .. Len(p)
    BY DEF Paths
  <2>2. S \subseteq DOMAIN p
    BY Zenon DEF CollapsedAt
  <2>. QED  BY <2>1, <2>2
<1>2. Collapsed(p) = [k \in DOMAIN InOrder(S) |-> Native(p[InOrder(S)[k]])]
  BY DEF Collapsed, CollapsedAt
<1> HIDE DEF S
<1>3. /\ n \in Nat /\ DOMAIN InOrder(S) = 1 .. n
      /\ \A k \in 1 .. n : InOrder(S)[k] = Nth(S, k) /\ Nth(S, k) \in S
  <2>1. 1 \in Int /\ Len(p) \in Int
    BY <1>1
  <2>. QED  BY <1>1, <2>1, InOrderIs
<1> HIDE DEF n
<1>4. \A i \in 1 .. Len(p) : Native(p[i]) \in Characters
  <2>1. \A i \in 1 .. Len(p) : p[i] \in Characters
    BY <1>1 DEF Paths
  <2>. QED  BY <2>1, Typed DEF Native
<1>5. Collapsed(p) = [k \in 1 .. n |-> Native(p[Nth(S, k)])]
  BY <1>2, <1>3
<1>6. Collapsed(p) \in [1 .. n -> Characters]
  BY <1>1, <1>3, <1>4, <1>5
<1>7. Collapsed(p) \in Paths /\ Len(Collapsed(p)) = n
  BY <1>3, <1>6 DEF Paths
<1>. QED  BY <1>1, <1>5, <1>7 DEF S, n

LEMMA NormalizeType ==
  ASSUME NEW p \in Paths
  PROVE  Normalize(p) \in Paths /\ TrimEndingSeparator(p) \in Paths
<1>1. p # <<>> => Tail(p) \in Paths /\ Front(p) \in Paths
  <2>1. ASSUME p # <<>> PROVE Tail(p) \in Paths
    BY <2>1 DEF Paths
  <2>2. ASSUME p # <<>> PROVE Front(p) \in Paths
    <3>1. Len(p) \in Nat /\ Len(p) - 1 \in Int /\ Len(p) - 1 <= Len(p) /\ 1 \in Int /\ 1 <= 1
      BY DEF Paths
    <3>2. SubSeq(p, 1, Len(p) - 1) \in Paths
      BY <3>1, Cut DEF Paths
    <3>. QED  BY <3>2 DEF Front
  <2>. QED  BY <2>1, <2>2
<1>2. TrimEndingSeparator(p) \in Paths
  BY <1>1 DEF TrimEndingSeparator
<1>3. p = <<>> => IsNormalized(p)
  <2>1. ASSUME p = <<>> PROVE LookedAt(p) = <<>>
    <3>1. RootLength(p) = 0 /\ Len(p) = 0
      BY <2>1 DEF RootLength
    <3>2. Upto(p, 0) = <<>>
      BY <2>1 DEF Upto
    <3>. QED  BY <2>1, <3>1, <3>2 DEF LookedAt
  <2>2. DOMAIN <<>> = {}
    OBVIOUS
  <2>. QED  BY <2>1, <2>2 DEF IsNormalized
<1>4. p # <<>> => <<DirSep>> \o Collapsed(Tail(p)) \in Paths
  BY <1>1, CollapsedIs, Typed
<1>. QED  BY <1>2, <1>3, <1>4, CollapsedIs DEF Normalize

---------------------------------------------------------------------------
(* Resolve, from one character to the next.                                *)
States == [out : Paths, next : Int]

LEMMA ResolvedType ==
  ASSUME NEW p \in Paths, NEW t \in States, NEW i \in 0 .. Len(p) - 1
  PROVE  Resolved(p, t, i) \in States
<1> DEFINE S == {j \in 1 .. Len(t.out) - 1 : At(t.out, j) = DirSep}
           n == LastOf(S, 0)
           dots == [out |-> Rewound(t.out), next |-> i + 3]
           dot  == [t EXCEPT !.next = i + 2]
           kept == [t EXCEPT !.out = Append(@, At(p, i))]
<1>1. t.out \in Paths /\ t.next \in Int /\ Len(t.out) \in Nat /\ i \in Int
  BY DEF States, Paths
<1>2. n \in 0 .. Len(t.out)
  <2>1. S \subseteq 1 .. Len(t.out) - 1 /\ 1 \in Int /\ Len(t.out) - 1 \in Int
    BY <1>1
  <2> HIDE DEF S
  <2>2. n = 0 \/ n \in S
    BY <2>1, LastOfIs
  <2>3. \A j \in S : j \in 0 .. Len(t.out)
    BY <1>1, <2>1
  <2>4. 0 \in 0 .. Len(t.out)
    BY <1>1
  <2>. QED  BY <2>2, <2>3, <2>4, Zenon
<1>3. Rewound(t.out) = Upto(t.out, n)
  BY DEF Rewound
<1> HIDE DEF n
<1>4. Rewound(t.out) \in Paths
  BY <1>1, <1>2, <1>3, PartsType
<1>5. dots \in States /\ dot \in States
  BY <1>1, <1>4 DEF States
<1>6. At(p, i) \in Characters
  <2>1. Len(p) \in Nat /\ i + 1 \in 1 .. Len(p)
    BY <1>1 DEF Paths
  <2>. QED  BY <2>1 DEF At, Paths
<1>7. kept \in States
  BY <1>1, <1>6, Typed DEF States
<1>8. Resolved(p, t, i) \in {t, dot, dots, kept}
  BY DEF Resolved
<1> HIDE DEF dot, dots, kept
<1>. QED  BY <1>5, <1>7, <1>8

LEMMA ResolveIs ==
  ASSUME NEW p \in Paths
  PROVE  \E u \in [0 .. Len(p) -> States] :
           /\ u[0] = [out |-> <<>>, next |-> 0]
           /\ \A n \in 1 .. Len(p) : u[n] = Resolved(p, u[n - 1], n - 1)
           /\ Resolve(p) = IF u[Len(p)].out = <<>> THEN <<DirSep>> ELSE u[Len(p)].out
<1> DEFINE L == Len(p)
           a == [out |-> <<>>, next |-> 0]
           G == [x \in (1 .. L) \X States |-> Resolved(p, x[2], x[1] - 1)]
           Put(f, n) == IF n = 0 THEN a ELSE Resolved(p, f[n - 1], n - 1)
           g == CHOOSE f : f = [n \in 0 .. L |-> Put(f, n)]
<1>1. L \in Nat /\ a \in States
  BY Typed DEF Paths, States
<1>2. Resolve(p) = IF g[L].out = <<>> THEN <<DirSep>> ELSE g[L].out
  BY DEF Resolve
<1>3. \A n \in 1 .. L, t \in States : Resolved(p, t, n - 1) \in States
  <2>1. \A n \in 1 .. L : n - 1 \in 0 .. Len(p) - 1
    BY <1>1
  <2>. QED  BY <2>1, ResolvedType
<1>4. G \in [(1 .. L) \X States -> States]
  <2>1. \A x \in (1 .. L) \X States : x[1] \in 1 .. L /\ x[2] \in States
    OBVIOUS
  <2>. QED  BY <1>3, <2>1
<1>5. \A n \in 1 .. L, t \in States : G[<<n, t>>] = Resolved(p, t, n - 1)
  <2>1. \A n \in 1 .. L, t \in States : <<n, t>> \in (1 .. L) \X States
    OBVIOUS
  <2>2. \A n, t : <<n, t>>[1] = n /\ <<n, t>>[2] = t
    OBVIOUS
  <2> HIDE DEF L
  <2>. QED  BY <2>1, <2>2
<1> HIDE DEF a, G, L
<1>6. PICK h \in [0 .. L -> States] : Runs(h, L, a, G)
  BY <1>1, <1>4, Recursion
<1>7. \A n \in 0 .. L : h[n] = Put(h, n)
  <2>1. \A n \in 0 .. L : n = 0 \/ (n \in 1 .. L /\ n - 1 \in 0 .. L /\ n # 0)
    BY <1>1
  <2>2. ASSUME NEW n \in 1 .. L PROVE h[n] = Resolved(p, h[n - 1], n - 1)
    <3>1. h[n - 1] \in States
      BY <1>6, <2>1
    <3>2. h[n] = G[<<n, h[n - 1]>>]
      BY <1>6 DEF Runs
    <3>. QED  BY <1>5, <3>1, <3>2
  <2>3. h[0] = a
    BY <1>6 DEF Runs
  <2>. QED  BY <2>1, <2>2, <2>3
<1>8. h = [n \in 0 .. L |-> Put(h, n)]
  <2> HIDE DEF Put
  <2>. QED  BY <1>6, <1>7
<1>9. g = [n \in 0 .. L |-> Put(g, n)]
  BY <1>8
<1> HIDE DEF g
<1>10. \A n \in 0 .. L : g[n] = Put(g, n)
  <2> HIDE DEF Put
  <2>. QED  BY <1>9
<1>11. g[0] = a /\ \A n \in 1 .. L : g[n] = Resolved(p, g[n - 1], n - 1)
  <2>1. 0 \in 0 .. L /\ \A n \in 1 .. L : n \in 0 .. L /\ n # 0
    BY <1>1
  <2>. QED  BY <1>10, <2>1
<1> DEFINE T == {n \in 0 .. L : g[n] \in States}
<1>12. 0 .. L \subseteq T
  <2>1. 0 \in T
    BY <1>1, <1>11
  <2>2. ASSUME NEW n \in 0 .. L - 1, n \in T PROVE n + 1 \in T
    <3>1. n + 1 \in 1 .. L /\ (n + 1) - 1 = n /\ n + 1 \in 0 .. L
      BY <1>1
    <3>2. g[n + 1] = Resolved(p, g[n], n)
      BY <1>11, <3>1
    <3>3. Resolved(p, g[n], n) \in States
      BY <1>3, <2>2, <3>1
    <3>. QED  BY <3>1, <3>2, <3>3
  <2> HIDE DEF T
  <2>3. 0 \in Int /\ L \in Int /\ \A n \in 0 .. L - 1 : n \in T => n + 1 \in T
    BY <1>1, <2>2
  <2>. QED  BY <2>1, <2>3, Climb
<1>13. g \in [0 .. L -> States]
  <2> HIDE DEF Put
  <2>. QED  BY <1>9, <1>12
<1>. QED  BY <1>2, <1>11, <1>13 DEF L, a

LEMMA FullPathType ==
  ASSUME NEW p \in Paths, NEW base \in Paths \cup {None}, NEW cwd \in Paths
  PROVE  FullPath(p, base, cwd) \in Paths
<1>1. \A q \in Paths : Resolve(q) \in Paths
  <2>1. ASSUME NEW q \in Paths PROVE Resolve(q) \in Paths
    <3>1. PICK u \in [0 .. Len(q) -> States] :
            Resolve(q) = IF u[Len(q)].out = <<>> THEN <<DirSep>> ELSE u[Len(q)].out
      BY ResolveIs
    <3>2. Len(q) \in 0 .. Len(q)
      <4>1. Len(q) \in Nat
        BY DEF Paths
      <4>. QED  BY <4>1
    <3>3. u[Len(q)].out \in Paths
      BY <3>2 DEF States
    <3>. QED  BY <3>1, <3>3, Typed
  <2>. QED  BY <2>1
<1> DEFINE q == Based(p, base)
<1>2. \A b \in Paths, r \in Paths : (b \o <<DirSep>>) \o r \in Paths
  BY Typed
<1>3. q \in Paths
  <2>1. base # None => (base \o <<DirSep>>) \o p \in Paths
    BY <1>2
  <2>. QED  BY <2>1 DEF Based
<1> HIDE DEF q
<1>4. (cwd \o <<DirSep>>) \o q \in Paths
  BY <1>2, <1>3
<1>5. FullPath(p, base, cwd) = Resolve(IF IsRooted(q) THEN q ELSE cwd \o <<DirSep>> \o q)
  BY DEF FullPath, q
<1>. QED  BY <1>1, <1>3, <1>4, <1>5

---------------------------------------------------------------------------
PathType == platform \in Platforms /\ path \in Paths

LEMMA Given ==
  ASSUME NEW w \in Platforms
  PROVE  /\ Inputs[w] \subseteq Paths /\ Others[w] \subseteq Paths
         /\ Names \subseteq Paths /\ Templates \subseteq Paths /\ Cwd \in Paths
         /\ None \notin Paths
BY PathAssumption DEF Paths

LEMMA TypeInit ==
  Init => PathType
BY Given DEF Init, PathType

LEMMA BecomesType ==
  ASSUME PathType, NEW p \in Paths \cup {None}, Becomes(p)
  PROVE  PathType'
BY DEF Becomes, PathType

LEMMA TypeStep ==
  ASSUME PathType, [Next]_vars
  PROVE  PathType'
<1>0. platform \in Platforms /\ path \in Paths
  BY DEF PathType
<1>1. CASE TakePart
  <2>1. /\ Extension(path) \in Paths \cup {None} /\ Root(path) \in Paths \cup {None}
        /\ Parent(path) \in Paths \cup {None} /\ FileName(path) \in Paths \cup {None}
        /\ FileStem(path) \in Paths \cup {None}
        /\ \A k \in 1 .. 2 : Split(path)[k] \in Paths \cup {None}
    BY <1>0, PartsType, FileStemType
  <2>. QED  BY <1>1, <2>1, BecomesType DEF TakePart
<1>2. CASE ReplacePart
  <2>1. ASSUME NEW n \in Paths
        PROVE  /\ SetExtension(path, n) \in Paths /\ SetFileName(path, n) \in Paths
               /\ SetFileStem(path, n) \in Paths /\ SetParent(path, n) \in Paths
               /\ SetRoot(path, n) \in Paths
    BY <1>0, ReplacedType
  <2>2. Names \cup {<<>>} \subseteq Paths /\ Others[platform] \subseteq Paths
    BY <1>0, Given, Typed
  <2>3. \A n \in Names \cup {<<>>} :
          (\/ Becomes(SetExtension(path, n)) \/ Becomes(SetFileName(path, n))
           \/ Becomes(SetFileStem(path, n))) => PathType'
    BY <2>1, <2>2, BecomesType
  <2>4. \A q \in Others[platform] :
          (Becomes(SetParent(path, q)) \/ Becomes(SetRoot(path, q))) => PathType'
    BY <2>1, <2>2, BecomesType
  <2>. QED  BY <1>2, <2>3, <2>4 DEF ReplacePart
<1>3. CASE Join
  <2>1. PICK q \in Others[platform] : \/ Becomes(Combine(<<path, q>>))
                                      \/ Becomes(Combine(<<q, path, q>>))
    BY <1>3 DEF Join
  <2>2. q \in Paths
    BY <1>0, Given
  <2>3. Combine(<<path, q>>) \in Paths /\ Combine(<<q, path, q>>) \in Paths
    BY <1>0, <2>2, CombinedType
  <2>. QED  BY <2>1, <2>3, BecomesType
<1>4. CASE TakeFullPath
  <2>1. CASE Becomes(path)
    BY <1>0, <2>1, BecomesType
  <2>2. CASE \E base \in {q \in Others[platform] : IsFullyQualified(q)} \cup {None} :
               Becomes(FullPath(path, base, Cwd))
    <3>1. PICK base \in {q \in Others[platform] : IsFullyQualified(q)} \cup {None} :
            Becomes(FullPath(path, base, Cwd))
      BY <2>2
    <3>2. base \in Paths \cup {None} /\ Cwd \in Paths
      BY <1>0, Given
    <3>3. FullPath(path, base, Cwd) \in Paths
      BY <1>0, <3>2, FullPathType
    <3>. QED  BY <3>1, <3>3, BecomesType
  <2>. QED  BY <1>4, <2>1, <2>2 DEF TakeFullPath
<1>5. CASE TakeNormal
  <2>1. Normalize(path) \in Paths /\ TrimEndingSeparator(path) \in Paths
    BY <1>0, NormalizeType
  <2>. QED  BY <1>5, <2>1, BecomesType DEF TakeNormal
<1>6. CASE MakeName
  <2>1. PICK template \in {t \in Templates : "X" \in ToSet(t)} :
          \E n \in RandomNames(template) : Becomes(n)
    BY <1>6 DEF MakeName
  <2>2. PICK n \in RandomNames(template) : Becomes(n)
    BY <2>1
  <2>3. template \in Paths
    BY <1>0, Given
  <2>4. n \in Paths
    BY <2>3, RandomType
  <2>. QED  BY <2>2, <2>4, BecomesType
<1>7. CASE \E q \in Others[platform] : StartsWith(q) \/ EndsWith(q)
  <2>1. UNCHANGED <<platform, path>>
    BY <1>7 DEF StartsWith, EndsWith
  <2>. QED  BY <1>0, <2>1 DEF PathType
<1>8. CASE TurnStarts \/ TurnEnds
  <2>1. UNCHANGED <<platform, path>>
    BY <1>8 DEF TurnStarts, TurnEnds
  <2>. QED  BY <1>0, <2>1 DEF PathType
<1>9. CASE UNCHANGED vars
  BY <1>0, <1>9 DEF PathType, vars
<1>. QED  BY <1>1, <1>2, <1>3, <1>4, <1>5, <1>6, <1>7, <1>8, <1>9 DEF Next

(* Whatever part of a path is taken or replaced, however paths are joined, *)
(* resolved or normalized, the result is a path again, or nil: what is     *)
(* copied lies inside the strings it is copied from, but for what          *)
(* file_stem may find behind the path ("junk").                            *)
THEOREM PathsOnly == Spec => []PathType
<1>1. Init => PathType
  BY TypeInit
<1>2. PathType /\ [Next]_vars => PathType'
  BY TypeStep
<1>. QED  BY <1>1, <1>2, PTL DEF Spec

(* Whatever the path and its length, on both platforms: the offsets of its *)
(* parts are in order and inside the path, what lies between them are      *)
(* separators, and a period is before the extension (pathL_split_path).    *)
(* None of the offsets that are counted down passes below zero.            *)
THEOREM OffsetsInOrder == Spec => []SplitOrdered
<1>1. PathType => SplitOrdered
  BY SplitIs DEF PathType, Paths, SplitOrdered
<1>. QED  BY <1>1, PathsOnly, PTL

---------------------------------------------------------------------------
(* What is put into a path is found there.                                 *)
LEMMA FileFound ==
  ASSUME NEW Chars, NEW p \in Seq(Chars), NEW root \in 0 .. Len(p), NEW v,
         NEW f \in root .. Len(p), \A i \in f .. Len(p) - 1 : i > root => ~ IsDirsep(At(p, i), v),
         f = root \/ (f - 1 > root /\ IsDirsep(At(p, f - 1), v))
  PROVE  FileOffset(p, root, v) = f
<1> DEFINE S == {i \in Seps(p, 0, v) : i > root}
           last == LastOf(S, root - 1)
<1>1. /\ Len(p) \in Nat /\ root \in Int /\ f \in Int /\ 0 <= root /\ root <= f /\ f <= Len(p)
      /\ S \subseteq root + 1 .. Len(p) - 1 /\ root + 1 \in Int /\ Len(p) - 1 \in Int
  BY DEF Seps
<1>2. \A i \in S : i \in Int /\ i > root /\ i <= f - 1
  <2>1. ASSUME NEW i \in S PROVE i \in Int /\ i > root /\ i <= f - 1
    <3>1. i \in Int /\ i > root /\ i <= Len(p) - 1 /\ IsDirsep(At(p, i), v)
      BY <1>1 DEF Seps
    <3>. QED  BY <1>1, <3>1
  <2>. QED  BY <2>1
<1>3. f - 1 > root /\ IsDirsep(At(p, f - 1), v) => f - 1 \in S
  BY <1>1 DEF Seps
<1>4. FileOffset(p, root, v) = 1 + last
  BY DEF FileOffset
<1> HIDE DEF S
<1>5. /\ S = {} => last = root - 1
      /\ S # {} => last \in S /\ \A i \in S : i <= last
  BY <1>1, LastOfIs
<1> HIDE DEF last
<1>6. CASE f = root
  <2>1. S = {}
    BY <1>1, <1>2, <1>6
  <2>. QED  BY <1>1, <1>4, <1>5, <1>6, <2>1
<1>7. CASE f - 1 > root /\ IsDirsep(At(p, f - 1), v)
  <2>1. last \in S /\ f - 1 <= last
    BY <1>3, <1>5, <1>7
  <2>2. last = f - 1
    BY <1>1, <1>2, <2>1
  <2>. QED  BY <1>1, <1>4, <2>2
<1>. QED  BY <1>6, <1>7

LEMMA FileLast ==
  ASSUME NEW Chars, NEW p \in Seq(Chars), NEW root \in 0 .. Len(p), NEW v,
         FileOffset(p, root, v) # root
  PROVE  /\ FileOffset(p, root, v) - 1 > root
         /\ IsDirsep(At(p, FileOffset(p, root, v) - 1), v)
<1> DEFINE S == {i \in Seps(p, 0, v) : i > root}
           last == LastOf(S, root - 1)
<1>1. /\ Len(p) \in Nat /\ root \in Int
      /\ S \subseteq root + 1 .. Len(p) - 1 /\ root + 1 \in Int /\ Len(p) - 1 \in Int
  BY DEF Seps
<1>2. \A i \in S : i \in Int /\ i > root /\ IsDirsep(At(p, i), v)
  BY <1>1 DEF Seps
<1>4. FileOffset(p, root, v) = 1 + last
  BY DEF FileOffset
<1> HIDE DEF S
<1>5. /\ S = {} => last = root - 1
      /\ S # {} => last \in S
  BY <1>1, LastOfIs
<1> HIDE DEF last
<1>6. last \in S
  BY <1>1, <1>4, <1>5
<1>7. last \in Int /\ last > root /\ IsDirsep(At(p, last), v) /\ 1 + last - 1 = last
  BY <1>2, <1>6
<1>. QED  BY <1>4, <1>7

(* A path that is no share or device, whose root is a drive or a separator.*)
LEMMA PlainRoot ==
  ASSUME NEW Chars, NEW p \in Seq(Chars), ~ IsUnc(p)
  PROVE  /\ ~ IsVerbatim(p) /\ SplitPath(p).verbatim = FALSE
         /\ p = <<>> => RootLength(p) = 0
         /\ p # <<>> /\ ~ HasDrive(p) =>
              RootLength(p) = IF IsDirsep(p[1], FALSE) THEN 1 ELSE 0
         /\ HasDrive(p) => RootLength(p) = IF Len(p) > 2 /\ IsDirsep(p[3], FALSE) THEN 3 ELSE 2
<1>1. ~ IsVerbatim(p) /\ ~ IsDevice(p)
  <2>1. ASSUME IsVerbatim(p) \/ IsDevice(p) PROVE FALSE
    <3>1. Windows /\ Len(p) >= 4 /\ p[1] = "\\" /\ p[2] = "\\"
      BY <2>1 DEF IsVerbatim, IsDevice, IsPrefix
    <3>2. IsUnc(p)
      BY <3>1 DEF IsUnc, IsPrefix
    <3>. QED  BY <3>2
  <2>. QED  BY <2>1
<1>2. SplitPath(p).verbatim = IsVerbatim(p) /\ IsVerbatim(p) \in BOOLEAN
  BY SplitIs DEF IsVerbatim
<1>3. SplitPath(p).verbatim = FALSE
  BY <1>1, <1>2
<1>4. HasDrive(p) => p # <<>>
  BY DEF HasDrive
<1>. QED  BY <1>1, <1>3, <1>4, Zenon DEF RootLength

LEMMA UncIs ==
  ASSUME NEW Chars, NEW p \in Seq(Chars)
  PROVE  IsUnc(p) <=> Windows /\ Len(p) >= 2 /\ p[1] = "\\" /\ p[2] = "\\"
BY DEF IsUnc, IsPrefix

(* A separator, but in a verbatim path.                                    *)
Sep(c)   == IsDirsep(c, FALSE)
Ended(p) == Slash(p, FALSE)

LEMMA SepsAre ==
  /\ Sep(DirSep) /\ ~ Sep(":") /\ ~ Sep(".") /\ (Windows => DirSep = "\\")
  /\ \A v : IsDirsep(DirSep, v) /\ ~ IsDirsep(".", v)
  /\ \A c : Sep(c) => c \in {"/", "\\"}
  /\ \A c, v : IsDirsep(c, v) => Sep(c)
BY DEF IsDirsep, DirSep, Sep

LEMMA NamesAre ==
  ASSUME NEW n \in Names, NEW Chars, n \in Seq(Chars)
  PROVE  /\ n # <<>> /\ Len(n) \in Nat /\ Len(n) >= 1
         /\ \A i \in 1 .. Len(n) : n[i] # ":" /\ n[i] # "\\" /\ n[i] # "/"
         /\ \A i \in 1 .. Len(n) : ~ Sep(n[i])
<1>1. n # <<>> /\ ToSet(n) \cap {"/", "\\", ":"} = {}
  BY NamesAssumption
<1>2. Len(n) \in Nat /\ Len(n) >= 1 /\ DOMAIN n = 1 .. Len(n)
  <2>1. Len(n) \in Nat /\ DOMAIN n = 1 .. Len(n)
    OBVIOUS
  <2>. QED  BY <1>1, <2>1
<1>3. \A i \in 1 .. Len(n) : n[i] # ":" /\ n[i] # "\\" /\ n[i] # "/"
  <2>1. \A i \in 1 .. Len(n) : n[i] \in ToSet(n)
    BY <1>2 DEF ToSet
  <2>. QED  BY <1>1, <2>1
<1>4. \A i \in 1 .. Len(n) : ~ Sep(n[i])
  BY <1>3, SepsAre
<1>. QED  BY <1>1, <1>2, <1>3, <1>4

LEMMA FromJoined ==
  ASSUME NEW Chars, NEW l \in Seq(Chars), NEW n \in Seq(Chars)
  PROVE  From(l \o n, Len(l)) = n
<1> DEFINE r == l \o n
           t == From(r, Len(l))
<1>1. /\ r \in Seq(Chars) /\ Len(r) = Len(l) + Len(n) /\ Len(l) \in Nat /\ Len(n) \in Nat
      /\ \A i \in 1 .. Len(n) : r[Len(l) + i] = n[i]
  BY JoinedIs
<1> HIDE DEF r
<1>2. Len(l) \in 0 .. Len(r) /\ Len(r) - Len(l) = Len(n)
  BY <1>1
<1>3. /\ t \in Seq(Chars) /\ Len(t) = Len(n)
      /\ \A i \in 1 .. Len(n) : t[i] = r[Len(l) + i]
  BY <1>1, <1>2, FromIs
<1> HIDE DEF t
<1>4. t = n
  BY <1>1, <1>3
<1>. QED  BY <1>4 DEF t, r

LEMMA SlashIs ==
  ASSUME NEW d \in Paths, d # <<>>
  PROVE  /\ Ended(d) \in Paths /\ Len(d) \in Nat /\ Len(d) >= 1
         /\ \A i \in 1 .. Len(d) : Ended(d)[i] = d[i]
         /\ Sep(Ended(d)[Len(Ended(d))])
         /\ Sep(d[Len(d)]) => Ended(d) = d
         /\ ~ Sep(d[Len(d)]) => /\ Len(Ended(d)) = Len(d) + 1
                                /\ Ended(d)[Len(d) + 1] = DirSep
<1>1. Len(d) \in Nat /\ Len(d) >= 1
  BY DEF Paths
<1>2. Ended(d) = IF Sep(d[Len(d)]) THEN d ELSE Append(d, DirSep)
  BY Zenon DEF Ended, Slash, Sep
<1>3. CASE Sep(d[Len(d)])
  BY <1>1, <1>2, <1>3
<1>4. CASE ~ Sep(d[Len(d)])
  <2>1. /\ Append(d, DirSep) \in Paths /\ Len(Append(d, DirSep)) = Len(d) + 1
        /\ \A i \in 1 .. Len(d) : Append(d, DirSep)[i] = d[i]
        /\ Append(d, DirSep)[Len(d) + 1] = DirSep
    BY <1>1, Typed DEF Paths
  <2>. QED  BY <1>1, <1>2, <1>4, <2>1, SepsAre
<1>. QED  BY <1>3, <1>4

(* The root and the file offset of a path that is no share or device.      *)
LEMMA PlainIs ==
  ASSUME NEW p \in Paths, ~ IsUnc(p)
  PROVE  /\ Len(p) \in Nat /\ SplitPath(p).verbatim = FALSE /\ IsVerbatim(p) = FALSE
         /\ p = <<>> => RootLength(p) = 0
         /\ p # <<>> /\ ~ HasDrive(p) => RootLength(p) = IF Sep(p[1]) THEN 1 ELSE 0
         /\ HasDrive(p) => RootLength(p) = IF Len(p) > 2 /\ Sep(p[3]) THEN 3 ELSE 2
         /\ RootLength(p) \in 0 .. Len(p) /\ SplitPath(p).file \in RootLength(p) .. Len(p)
         /\ \A i \in SplitPath(p).file .. Len(p) - 1 : Sep(At(p, i)) => i = RootLength(p)
         /\ \/ SplitPath(p).file = RootLength(p)
            \/ /\ SplitPath(p).file - 1 > RootLength(p)
               /\ Sep(At(p, SplitPath(p).file - 1))
<1> DEFINE root == RootLength(p)
           f == FileOffset(p, root, FALSE)
<1>1. /\ ~ IsVerbatim(p) /\ SplitPath(p).verbatim = FALSE
      /\ p = <<>> => root = 0
      /\ p # <<>> /\ ~ HasDrive(p) => root = IF IsDirsep(p[1], FALSE) THEN 1 ELSE 0
      /\ HasDrive(p) => root = IF Len(p) > 2 /\ IsDirsep(p[3], FALSE) THEN 3 ELSE 2
  BY PlainRoot DEF Paths
<1>2. IsVerbatim(p) = FALSE
  BY <1>1 DEF IsVerbatim
<1>3. SplitPath(p).file = f
  BY <1>2 DEF SplitPath
<1>4. Len(p) \in Nat /\ root \in 0 .. Len(p)
  BY SplitType
<1> HIDE DEF root
<1>5. /\ f \in root .. Len(p)
      /\ \A i \in f .. Len(p) - 1 : IsDirsep(At(p, i), FALSE) => i = root
  BY <1>4, FileIn DEF Paths
<1>6. f # root => f - 1 > root /\ IsDirsep(At(p, f - 1), FALSE)
  BY <1>4, FileLast DEF Paths
<1> HIDE DEF f
<1>7. /\ p # <<>> /\ ~ HasDrive(p) => root = IF Sep(p[1]) THEN 1 ELSE 0
      /\ HasDrive(p) => root = IF Len(p) > 2 /\ Sep(p[3]) THEN 3 ELSE 2
  BY <1>1, Zenon DEF Sep
<1>8. /\ \A i \in f .. Len(p) - 1 : Sep(At(p, i)) => i = root
      /\ f # root => f - 1 > root /\ Sep(At(p, f - 1))
  BY <1>5, <1>6, Zenon DEF Sep
<1>. QED  BY <1>1, <1>2, <1>3, <1>4, <1>5, <1>7, <1>8 DEF root

LEMMA PlainFound ==
  ASSUME NEW p \in Paths, ~ IsUnc(p), NEW f \in RootLength(p) .. Len(p),
         \A i \in f .. Len(p) - 1 : ~ Sep(At(p, i)),
         f = RootLength(p) \/ (f - 1 > RootLength(p) /\ Sep(At(p, f - 1)))
  PROVE  SplitPath(p).file = f /\ (f # Len(p) => FileName(p) = From(p, f))
<1>1. RootLength(p) \in 0 .. Len(p) /\ IsVerbatim(p) = FALSE
  BY PlainIs
<1>2. FileOffset(p, RootLength(p), FALSE) = f
  BY <1>1, FileFound DEF Paths, Sep
<1>3. SplitPath(p).file = f
  BY <1>1, <1>2 DEF SplitPath
<1>. QED  BY <1>3 DEF FileName

LEMMA NamePut ==
  ASSUME NEW p \in Paths, ~ IsUnc(p), NEW n \in Names, n \in Paths
  PROVE  FileName(SetFileName(p, n)) = n
<1> DEFINE f == SplitPath(p).file
           dir == Upto(p, f)
           l == Ended(dir)
           m == Len(l)
           r == l \o n
<1>1. /\ n # <<>> /\ Len(n) \in Nat /\ Len(n) >= 1
      /\ \A i \in 1 .. Len(n) : n[i] # ":" /\ n[i] # "\\" /\ n[i] # "/"
      /\ \A i \in 1 .. Len(n) : ~ Sep(n[i])
  BY NamesAre DEF Paths
<1>2. f \in 0 .. Len(p) /\ f \in Int /\ f >= 0 /\ f <= Len(p) /\ Len(p) \in Nat
  BY SplitType
<1>3. SetFileName(p, n) = IF f = 0 THEN n ELSE r
  <2>1. SplitPath(p).verbatim = FALSE
    BY PlainIs
  <2>. QED  BY <1>1, <2>1 DEF SetFileName, Ended
<1>5. CASE f = 0
  <2>1. n[1] # "\\" /\ ~ Sep(n[1]) /\ (Len(n) > 1 => n[2] # ":")
    BY <1>1
  <2>2. ~ IsUnc(n) /\ ~ HasDrive(n)
    BY <1>1, <2>1, UncIs DEF HasDrive, Paths
  <2>3. RootLength(n) = 0
    BY <1>1, <2>1, <2>2, PlainIs
  <2>4. \A i \in 0 .. Len(n) - 1 : ~ Sep(At(n, i))
    BY <1>1 DEF At
  <2>5. FileName(n) = From(n, 0)
    <3>1. 0 \in 0 .. Len(n) /\ 0 # Len(n)
      BY <1>1
    <3>. QED  BY <2>2, <2>3, <2>4, <3>1, PlainFound
  <2>6. From(n, 0) = n
    BY DEF From, Paths
  <2>. QED  BY <1>3, <1>5, <2>5, <2>6
<1>6. CASE f # 0
  <2>1. /\ dir \in Paths /\ Len(dir) = f /\ dir # <<>>
        /\ \A i \in 1 .. f : dir[i] = p[i]
    <3>1. /\ dir \in Paths /\ Len(dir) = f /\ \A i \in 1 .. f : dir[i] = p[i]
      BY <1>2, UptoIs DEF Paths
    <3>. QED  BY <1>6, <3>1
  <2>2. /\ l \in Paths /\ \A i \in 1 .. f : l[i] = p[i]
        /\ Sep(l[m]) /\ (Sep(p[f]) => m = f) /\ (~ Sep(p[f]) => m = f + 1)
    <3>1. f \in 1 .. f
      BY <1>2, <1>6
    <3> HIDE DEF f, dir
    <3>. QED  BY <2>1, <3>1, SlashIs
  <2> HIDE DEF dir, l
  <2>3. m \in Nat /\ m >= f /\ f >= 1 /\ m >= 1
    BY <1>2, <1>6, <2>2 DEF Paths
  <2>4. /\ r \in Paths /\ Len(r) = m + Len(n)
        /\ \A i \in 1 .. m : r[i] = l[i]
        /\ \A i \in 1 .. Len(n) : r[m + i] = n[i]
    BY <2>2, JoinedIs DEF Paths
  <2>5. From(r, m) = n
    BY <2>2, FromJoined DEF Paths
  <2> HIDE DEF r, m, f
  <2>6. /\ \A i \in 1 .. f : r[i] = p[i]
        /\ Sep(r[m]) /\ r[m + 1] = n[1] /\ ~ Sep(n[1]) /\ n[1] # ":" /\ n[1] # "\\"
        /\ r[1] = l[1] /\ (m > 1 => r[2] = l[2]) /\ (m > 2 => r[3] = l[3])
    <3>1. \A i \in 1 .. f : i \in 1 .. m
      BY <1>2, <2>3
    <3>2. m \in 1 .. m /\ 1 \in 1 .. m /\ 1 \in 1 .. Len(n) /\ (m > 1 => 2 \in 1 .. m)
          /\ (m > 2 => 3 \in 1 .. m)
      BY <1>1, <2>3
    <3>. QED  BY <1>1, <2>2, <2>4, <3>1, <3>2
  <2>7. f = 1 => r[1] = p[1]
    BY <2>6
  <2>8. f >= 2 => r[1] = p[1] /\ r[2] = p[2] /\ Len(p) >= 2
    BY <1>2, <2>6
  <2>9. ~ IsUnc(r)
    <3>1. ASSUME Windows, r[1] = "\\", r[2] = "\\" PROVE FALSE
      <4>1. Sep("\\")
        BY <3>1, SepsAre
      <4>2. CASE f = 1
        <5>1. m = 1 \/ (m = 2 /\ ~ Sep(p[1]))
          BY <2>2, <2>3, <4>2
        <5>. QED  BY <2>6, <2>7, <3>1, <4>1, <4>2, <5>1
      <4>3. CASE f >= 2
        <5>1. IsUnc(p)
          BY <2>8, <3>1, <4>3, UncIs DEF Paths
        <5>. QED  BY <5>1
      <4>. QED  BY <1>2, <2>3, <4>2, <4>3
    <3>. QED  BY <2>4, <3>1, UncIs DEF Paths
  <2> DEFINE root == RootLength(r)
             was == RootLength(p)
  <2>10. f = was \/ f - 1 > was
    BY PlainIs DEF f
  <2>11. m = root \/ m - 1 > root
    <3>1. CASE HasDrive(r)
      <4>1. r[1] \in Letters /\ r[2] = ":" /\ Windows /\ ~ Sep(":")
        BY <3>1, SepsAre DEF HasDrive
      <4>2. m >= 3
        BY <2>3, <2>6, <4>1
      <4>3. f >= 2
        BY <1>2, <2>2, <2>3, <4>2
      <4>4. HasDrive(p)
        BY <2>8, <4>1, <4>3, <1>2 DEF HasDrive
      <4>5. root = IF Len(r) > 2 /\ Sep(r[3]) THEN 3 ELSE 2
        BY <2>4, <2>9, <3>1, PlainIs
      <4>6. was = IF Len(p) > 2 /\ Sep(p[3]) THEN 3 ELSE 2
        BY <4>4, PlainIs
      <4>7. Len(r) > 2
        BY <1>1, <2>3, <2>4, <4>2
      <4>8. f >= 3 => r[3] = p[3] /\ Len(p) > 2
        BY <1>2, <2>6
      <4> HIDE DEF root, was
      <4>9. CASE ~ Sep(r[3])
        <5>1. root = 2 /\ m # 3
          BY <2>6, <4>5, <4>9
        <5>. QED  BY <2>3, <4>2, <5>1
      <4>10. CASE Sep(r[3])
        <5>1. root = 3
          BY <4>5, <4>7, <4>10
        <5>2. m # 4
          <6>1. ASSUME m = 4 PROVE FALSE
            <7>1. f = 3 \/ f = 4
              BY <1>2, <2>2, <2>3, <6>1
            <7>2. f # 3
              BY <2>2, <4>8, <4>10, <6>1
            <7>3. f = 4 /\ was = 3
              BY <4>6, <4>8, <4>10, <7>1, <7>2
            <7>. QED  BY <2>10, <7>3
          <6>. QED  BY <6>1
        <5>. QED  BY <2>3, <4>2, <5>1, <5>2
      <4>. QED  BY <4>9, <4>10
    <3>2. CASE ~ HasDrive(r)
      <4>1. root = IF Sep(r[1]) THEN 1 ELSE 0
        <5>1. r # <<>>
          BY <2>3, <2>4, <1>1
        <5>. QED  BY <2>4, <2>9, <3>2, <5>1, PlainIs
      <4>2. r[1] = p[1]
        BY <1>2, <2>3, <2>7, <2>8
      <4> HIDE DEF root
      <4>3. CASE ~ Sep(r[1])
        <5>1. m # 1
          BY <2>6, <4>3
        <5>. QED  BY <2>3, <4>1, <4>3, <5>1
      <4>4. CASE Sep(r[1])
        <5>1. m # 2
          <6>1. ASSUME m = 2 PROVE FALSE
            <7>1. f = 1 \/ f = 2
              BY <1>2, <2>3, <6>1
            <7>2. f # 1
              BY <2>2, <4>2, <4>4, <6>1
            <7>3. Sep(p[1]) /\ Sep(p[2]) /\ Len(p) >= 2
              BY <2>6, <2>8, <4>4, <6>1, <7>1, <7>2
            <7>4. ~ HasDrive(p) /\ p # <<>>
              BY <7>3, SepsAre DEF HasDrive
            <7>5. was = 1
              BY <7>3, <7>4, PlainIs
            <7>. QED  BY <2>10, <7>1, <7>2, <7>5
          <6>. QED  BY <6>1
        <5>. QED  BY <2>3, <4>1, <4>4, <5>1
      <4>. QED  BY <4>3, <4>4
    <3>. QED  BY <3>1, <3>2
  <2>12. FileName(r) = From(r, m)
    <3>1. root \in 0 .. Len(r)
      BY <2>4, SplitType
    <3>2. m \in root .. Len(r) /\ m # Len(r)
      BY <1>1, <2>3, <2>4, <2>11, <3>1
    <3>3. \A i \in m .. Len(r) - 1 : ~ Sep(At(r, i))
      <4>1. ASSUME NEW i \in m .. Len(r) - 1 PROVE ~ Sep(At(r, i))
        <5>1. i + 1 = m + (i + 1 - m) /\ i + 1 - m \in 1 .. Len(n)
          BY <1>1, <2>3, <2>4
        <5>2. r[i + 1] = n[i + 1 - m]
          BY <2>4, <5>1
        <5>. QED  BY <1>1, <5>1, <5>2 DEF At
      <4>. QED  BY <4>1
    <3>4. Sep(At(r, m - 1))
      <4>1. m - 1 + 1 = m
        BY <2>3
      <4>. QED  BY <2>6, <4>1 DEF At
    <3>. QED  BY <2>4, <2>9, <2>11, <3>2, <3>3, <3>4, PlainFound
  <2>. QED  BY <1>3, <1>6, <2>5, <2>12
<1>. QED  BY <1>5, <1>6

(* Two paths with the same first characters have the same first separator, *)
(* if it is one of those.                                                  *)
SameStart(p, r, m) == \A i \in 1 .. m : r[i] = p[i]

LEMMA FirstSepSame ==
  ASSUME NEW p \in Paths, NEW r \in Paths, NEW m \in 0 .. Len(p), m <= Len(r),
         SameStart(p, r, m), NEW n \in 0 .. m, NEW v, FirstSep(p, n, v) < m
  PROVE  FirstSep(r, n, v) = FirstSep(p, n, v)
<1> DEFINE S == Seps(p, n, v)
           R == Seps(r, n, v)
           s == FirstSep(p, n, v)
           t == FirstSep(r, n, v)
           a == Len(p) - 1
           b == Len(r) - 1
<1>1. /\ Len(p) \in Nat /\ Len(r) \in Nat /\ n \in Int /\ m \in Int /\ m <= Len(p) /\ n >= 0
      /\ S \subseteq n .. a /\ R \subseteq n .. b /\ a \in Int /\ b \in Int
  BY DEF Paths, Seps
<1>2. \A i \in n .. m - 1 : i \in S <=> i \in R
  <2>1. ASSUME NEW i \in n .. m - 1 PROVE i \in S <=> i \in R
    <3>1. i \in n .. Len(p) - 1 /\ i \in n .. Len(r) - 1 /\ i + 1 \in 1 .. m
      BY <1>1
    <3>2. At(r, i) = At(p, i)
      BY <3>1 DEF At, SameStart
    <3>. QED  BY <3>1, <3>2 DEF Seps
  <2>. QED  BY <2>1
<1>3. s = FirstOf(S, Len(p)) /\ t = FirstOf(R, Len(r))
  BY DEF FirstSep
<1> HIDE DEF S, R, a, b
<1>4. S # {} => s \in S /\ \A i \in S : s <= i
  <2>1. S # {} => FirstOf(S, Len(p)) \in S /\ \A i \in S : FirstOf(S, Len(p)) <= i
    BY <1>1, FirstOfIs
  <2> HIDE DEF s
  <2>. QED  BY <1>3, <2>1
<1>5. S = {} => s = Len(p)
  BY <1>1, <1>3, FirstOfIs
<1>6. R # {} => t \in R /\ \A i \in R : t <= i
  <2>1. R # {} => FirstOf(R, Len(r)) \in R /\ \A i \in R : FirstOf(R, Len(r)) <= i
    BY <1>1, FirstOfIs
  <2> HIDE DEF t
  <2>. QED  BY <1>3, <2>1
<1>7. s < m
  OBVIOUS
<1> HIDE DEF s, t
<1>8. s \in S
  BY <1>1, <1>4, <1>5, <1>7 DEF a
<1>9. s \in n .. m - 1 /\ s \in R
  BY <1>1, <1>2, <1>7, <1>8
<1>10. t \in R /\ t <= s
  BY <1>6, <1>9
<1>11. t \in n .. m - 1
  BY <1>1, <1>7, <1>9, <1>10
<1>12. t \in S /\ s <= t
  BY <1>2, <1>4, <1>10, <1>11
<1>13. s \in Int /\ t \in Int
  BY <1>9, <1>11
<1>. QED  BY <1>10, <1>12, <1>13 DEF s, t

LEMMA UncRootSame ==
  ASSUME NEW p \in Paths, NEW r \in Paths, NEW m \in 0 .. Len(p), m <= Len(r),
         SameStart(p, r, m), NEW n \in 0 .. m, NEW v, UncRoot(p, n, v) < m
  PROVE  UncRoot(r, n, v) = UncRoot(p, n, v)
<1> DEFINE server == FirstSep(p, n, v)
           share == Min({server + 1, Len(p)})
<1>1. Len(p) \in Nat /\ Len(r) \in Nat /\ m \in Int /\ m <= Len(p) /\ n \in 0 .. Len(p)
  BY DEF Paths
<1>2. server \in n .. Len(p)
  BY <1>1, FirstSepIn DEF Paths
<1>3. UncRoot(p, n, v) = FirstSep(p, share, v)
  BY DEF UncRoot
<1>4. share = IF server + 1 <= Len(p) THEN server + 1 ELSE Len(p)
  BY <1>1, <1>2, MinOfTwo
<1> HIDE DEF share
<1>5. share \in 0 .. Len(p)
  BY <1>1, <1>2, <1>4
<1>6. FirstSep(p, share, v) \in share .. Len(p)
  BY <1>5, FirstSepIn DEF Paths
<1>7. FirstSep(p, share, v) < m
  BY <1>3
<1>8. share < m
  BY <1>1, <1>5, <1>6, <1>7
<1>9. server < m /\ share = server + 1
  BY <1>1, <1>2, <1>4, <1>8
<1>10. FirstSep(r, n, v) = server
  BY <1>9, FirstSepSame
<1>11. FirstSep(r, share, v) = FirstSep(p, share, v)
  <2>1. share \in 0 .. m
    BY <1>1, <1>5, <1>8
  <2>. QED  BY <1>7, <2>1, FirstSepSame
<1>12. UncRoot(r, n, v) = FirstSep(r, Min({server + 1, Len(r)}), v)
  BY <1>10 DEF UncRoot
<1>13. Min({server + 1, Len(r)}) = share
  <2> HIDE DEF server
  <2>1. server + 1 \in Int /\ server + 1 <= Len(r)
    BY <1>1, <1>2, <1>8, <1>9
  <2>. QED  BY <1>1, <1>9, <2>1, MinOfTwo
<1>. QED  BY <1>3, <1>11, <1>12, <1>13

LEMMA DeviceIs ==
  ASSUME NEW p \in Paths
  PROVE  /\ IsVerbatim(p) <=> Windows /\ Len(p) >= 4 /\ p[1] = "\\" /\ p[2] = "\\"
                              /\ p[3] = "?" /\ p[4] = "\\"
         /\ IsDevice(p) <=> Windows /\ Len(p) >= 4 /\ p[1] = "\\" /\ p[2] = "\\"
                            /\ p[3] = "." /\ p[4] = "\\"
BY DEF IsVerbatim, IsDevice, IsPrefix, Paths

(* The roots of shares and devices.                                        *)
LEMMA UncRootIs ==
  ASSUME NEW p \in Paths, IsUnc(p)
  PROVE  /\ ~ HasDrive(p) /\ p # <<>> /\ Len(p) >= 2
         /\ (IsVerbatim(p) \/ IsDevice(p)) /\ HasUncName(p) =>
              RootLength(p) = UncRoot(p, 6, IsVerbatim(p)) /\ RootLength(p) >= 6
         /\ (IsVerbatim(p) \/ IsDevice(p)) /\ ~ HasUncName(p) =>
              /\ RootLength(p) = Min({FirstSep(p, 4, IsVerbatim(p)) + 1, Len(p)})
              /\ RootLength(p) >= 4
         /\ ~ (IsVerbatim(p) \/ IsDevice(p)) =>
              RootLength(p) = UncRoot(p, 2, FALSE) /\ RootLength(p) >= 2
<1>1. /\ Windows /\ Len(p) >= 2 /\ Len(p) \in Nat /\ p[1] = "\\" /\ p[2] = "\\"
      /\ p # <<>> /\ ~ HasDrive(p)
  <2>1. Windows /\ Len(p) >= 2 /\ p[1] = "\\" /\ p[2] = "\\"
    BY UncIs DEF Paths
  <2>. QED  BY <2>1 DEF HasDrive, Paths
<1> DEFINE long == IsVerbatim(p) \/ IsDevice(p)
           v == IsVerbatim(p)
<1>2. /\ long /\ HasUncName(p) => RootLength(p) = UncRoot(p, 6, v)
      /\ long /\ ~ HasUncName(p) => RootLength(p) = Min({FirstSep(p, 4, v) + 1, Len(p)})
      /\ ~ long => RootLength(p) = UncRoot(p, 2, FALSE)
  BY <1>1, Zenon DEF RootLength
<1>3. long => Len(p) >= 4
  BY DeviceIs
<1> HIDE DEF long, v
<1>4. long /\ HasUncName(p) => RootLength(p) >= 6
  <2>1. HasUncName(p) => 6 \in 0 .. Len(p)
    BY <1>1 DEF HasUncName
  <2>2. HasUncName(p) => UncRoot(p, 6, v) \in 6 .. Len(p)
    BY <2>1, UncRootIn DEF Paths
  <2>. QED  BY <1>2, <2>2
<1>5. long /\ ~ HasUncName(p) => RootLength(p) >= 4
  <2>1. long => 4 \in 0 .. Len(p)
    BY <1>1, <1>3
  <2>2. long => FirstSep(p, 4, v) \in 4 .. Len(p)
    BY <2>1, FirstSepIn DEF Paths
  <2>. QED  BY <1>1, <1>2, <1>3, <2>2, MinOfTwo
<1>6. ~ long => RootLength(p) >= 2
  <2>1. 2 \in 0 .. Len(p)
    BY <1>1
  <2> DEFINE root == UncRoot(p, 2, FALSE)
  <2>2. root \in 2 .. Len(p)
    BY <2>1, UncRootIn DEF Paths
  <2>3. ~ long => RootLength(p) = root
    BY <1>2
  <2> HIDE DEF root
  <2>. QED  BY <2>2, <2>3
<1>. QED  BY <1>1, <1>2, <1>4, <1>5, <1>6, Zenon DEF long, v

LEMMA RootSame ==
  ASSUME NEW p \in Paths, NEW r \in Paths, NEW m \in 0 .. Len(p), m <= Len(r),
         SameStart(p, r, m), RootLength(p) + 2 <= m
  PROVE  RootLength(r) = RootLength(p) /\ IsVerbatim(r) = IsVerbatim(p)
<1> DEFINE root == RootLength(p)
<1>1. /\ Len(p) \in Nat /\ Len(r) \in Nat /\ m \in Int /\ m <= Len(p)
      /\ root \in 0 .. Len(p) /\ root \in Int /\ root >= 0 /\ root + 2 <= m
      /\ p # <<>> /\ r # <<>>
  <2>1. /\ Len(p) \in Nat /\ Len(r) \in Nat /\ m \in Int /\ m <= Len(p)
        /\ root \in 0 .. Len(p)
    BY SplitType DEF Paths
  <2> HIDE DEF root
  <2>2. root \in Int /\ root >= 0
    BY <2>1
  <2>3. root + 2 <= m
    BY DEF root
  <2>4. Len(p) > 0 /\ Len(r) > 0
    BY <2>1, <2>2, <2>3
  <2>. QED  BY <2>1, <2>2, <2>3, <2>4
<1>2. ASSUME NEW i \in Nat, 1 <= i, i <= m PROVE r[i] = p[i]
  BY <1>1, <1>2 DEF SameStart
<1> HIDE DEF root
<1>3. r[1] = p[1] /\ r[2] = p[2] /\ Len(p) >= 2 /\ Len(r) >= 2
  BY <1>1, <1>2
<1>4. /\ IsUnc(r) <=> IsUnc(p)
      /\ HasDrive(r) <=> HasDrive(p)
  BY <1>1, <1>3, UncIs DEF HasDrive, Paths
<1>5. CASE ~ IsUnc(p)
  <2>1. IsVerbatim(r) = FALSE /\ IsVerbatim(p) = FALSE
    BY <1>4, <1>5, PlainIs
  <2>2. CASE HasDrive(p)
    <3>1. /\ root = IF Len(p) > 2 /\ Sep(p[3]) THEN 3 ELSE 2
          /\ RootLength(r) = IF Len(r) > 2 /\ Sep(r[3]) THEN 3 ELSE 2
      BY <1>4, <1>5, <2>2, PlainIs DEF root
    <3>2. m >= 4
      BY <1>1, <3>1
    <3>3. r[3] = p[3] /\ Len(p) > 2 /\ Len(r) > 2
      BY <1>1, <1>2, <3>2
    <3>4. RootLength(r) = root
      BY <3>1, <3>3
    <3>. QED  BY <2>1, <3>4, Zenon DEF root
  <2>3. CASE ~ HasDrive(p)
    <3>1. /\ root = IF Sep(p[1]) THEN 1 ELSE 0
          /\ RootLength(r) = IF Sep(r[1]) THEN 1 ELSE 0
      BY <1>1, <1>4, <1>5, <2>3, PlainIs DEF root
    <3>2. RootLength(r) = root
      BY <1>3, <3>1
    <3>. QED  BY <2>1, <3>2, Zenon DEF root
  <2>. QED  BY <2>2, <2>3
<1>6. CASE IsUnc(p)
  <2> DEFINE v == IsVerbatim(p)
             long == IsVerbatim(p) \/ IsDevice(p)
  <2>1. /\ long /\ HasUncName(p) => root = UncRoot(p, 6, v) /\ root >= 6
        /\ long /\ ~ HasUncName(p) => /\ root = Min({FirstSep(p, 4, v) + 1, Len(p)})
                                      /\ root >= 4
        /\ ~ long => root = UncRoot(p, 2, FALSE) /\ root >= 2
    BY <1>6, UncRootIs DEF root
  <2>2. m >= 4
    <3>1. root >= 2
      <4>1. root >= 6 \/ root >= 4 \/ root >= 2
        BY <2>1, Zenon
      <4>. QED  BY <1>1, <4>1
    <3>. QED  BY <1>1, <3>1
  <2>3. r[3] = p[3] /\ r[4] = p[4] /\ Len(p) >= 4 /\ Len(r) >= 4
    BY <1>1, <1>2, <2>2
  <2>4. IsVerbatim(r) = v /\ (IsVerbatim(r) \/ IsDevice(r) <=> long)
    <3>1. (IsVerbatim(r) <=> v) /\ (IsDevice(r) <=> IsDevice(p))
      BY <1>3, <2>3, DeviceIs
    <3>. QED  BY <3>1 DEF IsVerbatim
  <2>5. /\ long /\ HasUncName(r) => RootLength(r) = UncRoot(r, 6, v)
        /\ long /\ ~ HasUncName(r) => RootLength(r) = Min({FirstSep(r, 4, v) + 1, Len(r)})
        /\ ~ long => RootLength(r) = UncRoot(r, 2, FALSE)
    BY <1>4, <1>6, <2>4, UncRootIs
  <2> HIDE DEF long, v
  <2>6. CASE ~ long
    <3>1. 2 \in 0 .. m /\ root < m
      BY <1>1
    <3>2. UncRoot(p, 2, FALSE) < m
      BY <2>1, <2>6, <3>1
    <3>3. UncRoot(r, 2, FALSE) = UncRoot(p, 2, FALSE)
      BY <1>1, <3>1, <3>2, UncRootSame
    <3>. QED  BY <2>1, <2>4, <2>5, <2>6, <3>3 DEF root, v
  <2>7. CASE long /\ HasUncName(p)
    <3>1. m >= 8 /\ 6 \in 0 .. m /\ UncRoot(p, 6, v) < m
      BY <1>1, <2>1, <2>7
    <3>2. HasUncName(r)
      <4>1. r[5] = p[5] /\ r[6] = p[6] /\ Len(r) >= 6
        BY <1>1, <1>2, <3>1
      <4>. QED  BY <2>7, <4>1 DEF HasUncName
    <3>3. UncRoot(r, 6, v) = UncRoot(p, 6, v)
      BY <1>1, <3>1, UncRootSame
    <3>. QED  BY <2>1, <2>4, <2>5, <2>7, <3>2, <3>3 DEF root, v
  <2>8. CASE long /\ ~ HasUncName(p)
    <3>1. 4 \in 0 .. Len(p) /\ 4 \in 0 .. m
      BY <1>1, <2>2
    <3>2. FirstSep(p, 4, v) \in 4 .. Len(p)
      BY <3>1, FirstSepIn DEF Paths
    <3>3. root = Min({FirstSep(p, 4, v) + 1, Len(p)})
      BY <2>1, <2>8
    <3>4. root = FirstSep(p, 4, v) + 1 /\ root >= 5
      BY <1>1, <3>2, <3>3, MinOfTwo
    <3>5. ~ HasUncName(r)
      <4>1. r[5] = p[5] /\ r[6] = p[6] /\ Len(p) >= 6
        BY <1>1, <1>2, <3>4
      <4>. QED  BY <2>8, <4>1 DEF HasUncName
    <3>6. FirstSep(r, 4, v) = FirstSep(p, 4, v)
      <4>1. FirstSep(p, 4, v) < m
        BY <1>1, <3>2, <3>4
      <4>. QED  BY <1>1, <3>1, <4>1, FirstSepSame
    <3>7. RootLength(r) = Min({FirstSep(p, 4, v) + 1, Len(r)})
      BY <2>5, <2>8, <3>5, <3>6
    <3>8. RootLength(r) = root
      BY <1>1, <3>2, <3>4, <3>7, MinOfTwo
    <3>. QED  BY <2>4, <3>8 DEF root, v
  <2>. QED  BY <2>6, <2>7, <2>8
<1>. QED  BY <1>5, <1>6

LEMMA ExtFound ==
  ASSUME NEW r \in Paths, NEW f \in 0 .. Len(r), NEW m \in f + 2 .. Len(r) - 1,
         At(r, m) = ".", \A i \in m + 1 .. Len(r) - 1 : At(r, i) # "."
  PROVE  ExtOffset(r, f) = m + 1
<1> DEFINE a == f + 2
           b == Len(r) - 1
           S == {i \in a .. b : At(r, i) = "."}
           last == LastOf(S, -1)
<1>1. a \in Int /\ b \in Int /\ S \subseteq a .. b /\ m \in S /\ m \in Int
  BY DEF Paths
<1>2. \A i \in S : i \in Int /\ i <= m
  <2>1. ASSUME NEW i \in S PROVE i \in Int /\ i <= m
    <3>1. i \in Int /\ i <= b /\ At(r, i) = "."
      BY <1>1
    <3>2. ~ i >= m + 1
      BY <1>1, <3>1
    <3>. QED  BY <1>1, <3>1, <3>2
  <2>. QED  BY <2>1
<1>3. ExtOffset(r, f) = 1 + last
  BY DEF ExtOffset
<1> HIDE DEF S, a, b
<1>4. LastOf(S, -1) \in S /\ \A i \in S : i <= LastOf(S, -1)
  BY <1>1, LastOfIs
<1> HIDE DEF last
<1>5. last \in S /\ m <= last
  BY <1>1, <1>4 DEF last
<1>. QED  BY <1>1, <1>2, <1>3, <1>5

LEMMA PathsJoined ==
  ASSUME NEW p \in Paths, NEW q \in Paths
  PROVE  /\ p \o q \in Paths /\ Len(p \o q) = Len(p) + Len(q)
         /\ \A i \in 1 .. Len(p) : (p \o q)[i] = p[i]
         /\ \A i \in 1 .. Len(q) : (p \o q)[Len(p) + i] = q[i]
BY DEF Paths

LEMMA ExtensionPut ==
  ASSUME NEW p \in Paths, NEW n \in Names, n \in Paths, "." \notin ToSet(n),
         SetExtension(p, n) # p, Len(p) - SplitPath(p).file > 1
  PROVE  Extension(SetExtension(p, n)) = n
<1> DEFINE c == SplitPath(p)
           root == RootLength(p)
           f == c.file
           v == IsVerbatim(p)
           stem == IF c.ext = 0 THEN p ELSE Upto(p, c.ext - 1)
           m == Len(stem)
           l == stem \o <<".">>
           r == l \o n
<1>1. /\ n # <<>> /\ Len(n) \in Nat /\ Len(n) >= 1
      /\ \A i \in 1 .. Len(n) : ~ Sep(n[i])
  BY NamesAre DEF Paths
<1>2. \A i \in 1 .. Len(n) : n[i] # "."
  <2>1. \A i \in 1 .. Len(n) : n[i] \in ToSet(n)
    BY DEF ToSet, Paths
  <2>. QED  BY <2>1
<1>3. SetExtension(p, n) = r
  BY <1>1 DEF SetExtension
<1>4. /\ root \in 0 .. Len(p) /\ f \in root .. Len(p) /\ c.ext \in 0 .. Len(p)
      /\ Len(p) \in Nat /\ c.verbatim = v /\ c.root = root /\ f \in 0 .. Len(p)
      /\ Ordered(p, c)
  <2>1. /\ c.root = RootLength(p) /\ c.root \in 0 .. Len(p) /\ c.file \in c.root .. Len(p)
        /\ c.ext \in 0 .. Len(p) /\ c.verbatim = v /\ Ordered(p, c)
    BY SplitIs DEF Paths
  <2>2. f \in 0 .. Len(p) /\ Len(p) \in Nat
    BY SplitType
  <2>. QED  BY <2>1, <2>2
<1>5. /\ \A i \in f .. Len(p) - 1 : IsDirsep(At(p, i), v) => i = root
      /\ c.ext # 0 => f + 2 < c.ext
  BY <1>4 DEF Ordered
<1>6. f = FileOffset(p, root, v)
  BY DEF SplitPath
<1>7. f = root \/ (f - 1 > root /\ IsDirsep(At(p, f - 1), v))
  BY <1>4, <1>6, FileLast DEF Paths
<1>8. Len(p) - f > 1
  OBVIOUS
<1>9. stem \in Paths /\ m \in 0 .. Len(p) /\ SameStart(p, stem, m) /\ m >= f + 2
  <2>1. CASE c.ext = 0
    <3>1. stem = p
      BY <2>1
    <3>. QED  BY <1>4, <1>8, <3>1 DEF SameStart
  <2>2. CASE c.ext # 0
    <3> DEFINE k == c.ext - 1
    <3>1. stem = Upto(p, k)
      BY <2>2
    <3> HIDE DEF f
    <3>2. k \in 0 .. Len(p) /\ k >= f + 2
      BY <1>4, <1>5, <2>2
    <3> HIDE DEF k
    <3>3. /\ Upto(p, k) \in Paths /\ Len(Upto(p, k)) = k
          /\ \A i \in 1 .. k : Upto(p, k)[i] = p[i]
      BY <3>2, UptoIs DEF Paths
    <3>. QED  BY <3>1, <3>2, <3>3 DEF SameStart
  <2>. QED  BY <2>1, <2>2
<1> HIDE DEF c, f, root, v, stem, m
<1>10. /\ l \in Paths /\ Len(l) = m + 1 /\ l[m + 1] = "." /\ \A i \in 1 .. m : l[i] = stem[i]
  <2> DEFINE dot == <<".">>
  <2>1. dot \in Paths /\ Len(dot) = 1 /\ dot[1] = "."
    BY Typed
  <2> HIDE DEF dot
  <2>2. /\ stem \o dot \in Paths /\ Len(stem \o dot) = Len(stem) + Len(dot)
        /\ \A i \in 1 .. Len(stem) : (stem \o dot)[i] = stem[i]
        /\ \A i \in 1 .. Len(dot) : (stem \o dot)[Len(stem) + i] = dot[i]
    BY <1>9, <2>1, PathsJoined
  <2>3. 1 \in 1 .. Len(dot)
    BY <2>1
  <2>. QED  BY <2>1, <2>2, <2>3 DEF dot, m
<1>11. From(l \o n, Len(l)) = n
  BY <1>10, FromJoined DEF Paths
<1> HIDE DEF l
<1>12. /\ r \in Paths /\ Len(r) = Len(l) + Len(n)
       /\ \A i \in 1 .. Len(l) : r[i] = l[i]
       /\ \A i \in 1 .. Len(n) : r[Len(l) + i] = n[i]
  BY <1>10, PathsJoined
<1> HIDE DEF r
<1>13. m \in Int /\ f \in Int /\ root \in Int /\ root >= 0 /\ f >= root /\ m <= Len(p) /\ m >= 0
  BY <1>4, <1>9
<1>14. /\ Len(r) = m + 1 + Len(n) /\ r[m + 1] = "."
       /\ \A i \in 1 .. m : r[i] = p[i]
       /\ \A i \in 1 .. Len(n) : r[m + 1 + i] = n[i]
  <2>1. m + 1 \in 1 .. Len(l) /\ \A i \in 1 .. m : i \in 1 .. Len(l)
    BY <1>10, <1>13
  <2>. QED  BY <1>9, <1>10, <1>12, <2>1 DEF SameStart
<1>15. RootLength(r) = root /\ IsVerbatim(r) = v
  <2>1. m <= Len(r) /\ root + 2 <= m
    BY <1>1, <1>9, <1>13, <1>14
  <2>2. SameStart(p, r, m)
    BY <1>14 DEF SameStart
  <2>. QED  BY <1>9, <1>12, <2>1, <2>2, RootSame DEF root, v
<1>16. \A i \in m + 1 .. Len(r) - 1 : ~ Sep(At(r, i)) /\ At(r, i) # "."
  <2>1. ASSUME NEW i \in m + 1 .. Len(r) - 1 PROVE ~ Sep(At(r, i)) /\ At(r, i) # "."
    <3>1. i - m \in 1 .. Len(n) /\ i + 1 = m + 1 + (i - m)
      BY <1>1, <1>13, <1>14
    <3>2. At(r, i) = n[i - m]
      BY <1>14, <3>1 DEF At
    <3>. QED  BY <1>1, <1>2, <3>1, <3>2
  <2>. QED  BY <2>1
<1>17. FileOffset(r, root, v) = f
  <2>1. ASSUME NEW i \in f .. Len(r) - 1, i > root PROVE ~ IsDirsep(At(r, i), v)
    <3>1. CASE i < m
      <4>1. i + 1 \in 1 .. m /\ i \in f .. Len(p) - 1 /\ i # root
        BY <1>4, <1>13, <2>1, <3>1
      <4>2. At(r, i) = At(p, i)
        BY <1>14, <4>1 DEF At
      <4>. QED  BY <1>5, <4>1, <4>2
    <3>2. CASE i = m
      <4>1. At(r, i) = "."
        BY <1>14, <3>2 DEF At
      <4>. QED  BY <4>1, SepsAre
    <3>3. CASE i > m
      <4>1. i \in m + 1 .. Len(r) - 1
        BY <1>13, <3>3, <1>14, <1>1
      <4>. QED  BY <1>16, <4>1, SepsAre
    <3>. QED  BY <1>13, <3>1, <3>2, <3>3
  <2>2. f = root \/ (f - 1 > root /\ IsDirsep(At(r, f - 1), v))
    <3>1. ASSUME f - 1 > root PROVE At(r, f - 1) = At(p, f - 1)
      <4>1. f - 1 + 1 \in 1 .. m
        BY <1>9, <1>13, <3>1
      <4>. QED  BY <1>14, <4>1 DEF At
    <3>. QED  BY <1>7, <3>1
  <2>3. root \in 0 .. Len(r) /\ f \in root .. Len(r)
    BY <1>1, <1>9, <1>13, <1>14
  <2>. QED  BY <1>12, <2>1, <2>2, <2>3, FileFound DEF Paths
<1>18. ExtOffset(r, f) = m + 1
  <2>1. f \in 0 .. Len(r) /\ m \in f + 2 .. Len(r) - 1
    BY <1>1, <1>9, <1>13, <1>14
  <2>2. At(r, m) = "."
    BY <1>14 DEF At
  <2>. QED  BY <1>12, <1>16, <2>1, <2>2, ExtFound
<1>19. SplitPath(r).ext = m + 1
  <2>1. SplitPath(r).ext = ExtOffset(r, FileOffset(r, RootLength(r), IsVerbatim(r)))
    BY DEF SplitPath
  <2>. QED  BY <1>15, <1>17, <1>18, <2>1
<1>20. m + 1 # 0 /\ m + 1 # Len(r) /\ m + 1 = Len(l)
  BY <1>1, <1>10, <1>13, <1>14
<1>21. Extension(r) = From(r, m + 1)
  BY <1>19, <1>20 DEF Extension
<1>. QED  BY <1>3, <1>11, <1>20, <1>21 DEF r

LEMMA Halves ==
  ASSUME NEW p \in Paths, NEW k \in 0 .. Len(p)
  PROVE  Upto(p, k) \o From(p, k) = p
<1> DEFINE d == Upto(p, k)
           e == From(p, k)
           r == d \o e
<1>1. Len(p) \in Nat /\ k \in Int /\ k >= 0 /\ k <= Len(p)
  BY DEF Paths
<1>2. /\ d \in Paths /\ Len(d) = k /\ \A i \in 1 .. k : d[i] = p[i]
  BY UptoIs DEF Paths
<1>3. /\ e \in Paths /\ Len(e) = Len(p) - k /\ \A i \in 1 .. Len(p) - k : e[i] = p[k + i]
  BY FromIs DEF Paths
<1> HIDE DEF d, e
<1>4. /\ r \in Paths /\ Len(r) = Len(d) + Len(e)
      /\ \A i \in 1 .. Len(d) : r[i] = d[i]
      /\ \A i \in 1 .. Len(e) : r[Len(d) + i] = e[i]
  BY <1>2, <1>3, PathsJoined
<1> HIDE DEF r
<1>5. Len(r) = Len(p)
  BY <1>1, <1>2, <1>3, <1>4
<1>6. ASSUME NEW i \in 1 .. Len(p) PROVE r[i] = p[i]
  <2>1. CASE i <= k
    BY <1>1, <1>2, <1>4, <2>1
  <2>2. CASE i > k
    <3>1. i - k \in 1 .. Len(p) - k /\ k + (i - k) = i
      BY <1>1, <2>2
    <3>2. r[k + (i - k)] = e[i - k]
      BY <1>2, <1>3, <1>4, <3>1
    <3>3. e[i - k] = p[k + (i - k)]
      BY <1>3, <3>1
    <3>. QED  BY <3>1, <3>2, <3>3
  <2>. QED  BY <1>1, <2>1, <2>2
<1>7. r = p
  BY <1>4, <1>5, <1>6 DEF Paths
<1>. QED  BY <1>7 DEF r, d, e

LEMMA RootFirst ==
  ASSUME NEW e \in Paths, e # <<>>, Sep(e[1])
  PROVE  IsRooted(e)
<1>1. CASE IsUnc(e)
  <2>1. RootLength(e) >= 2 /\ RootLength(e) \in 0 .. Len(e)
    <3>1. RootLength(e) >= 6 \/ RootLength(e) >= 4 \/ RootLength(e) >= 2
      BY <1>1, UncRootIs, Zenon
    <3>2. RootLength(e) \in 0 .. Len(e)
      BY SplitType
    <3>. QED  BY <3>1, <3>2
  <2>. QED  BY <2>1 DEF IsRooted
<1>2. CASE ~ IsUnc(e)
  <2>1. RootLength(e) \in {1, 2, 3}
    BY <1>2, PlainIs
  <2>. QED  BY <2>1 DEF IsRooted
<1>. QED  BY <1>1, <1>2

(* The two halves of a tidy path, and what Combine makes of two paths of   *)
(* which the second has no root.                                           *)
LEMMA CombineTwo ==
  ASSUME NEW d \in Paths, NEW e \in Paths, d # <<>>, e # <<>>, ~ IsUnc(d), ~ IsRooted(e)
  PROVE  Combine(<<d, e>>) = Ended(d) \o e
<1> DEFINE parts == <<d, e>>
           Used == {i \in DOMAIN parts : parts[i] # <<>>}
           Rooted == {i \in Used : IsRooted(parts[i])}
           Verbatim == {i \in Rooted : SplitPath(parts[i]).verbatim}
           first == FirstOf(Verbatim, LastOf(Rooted, 1))
           Piece(i) == IF i \notin Used \/ i < first THEN <<>>
                       ELSE IF i = Max(Used) THEN parts[i]
                       ELSE Slash(parts[i], SplitPath(parts[i]).verbatim)
           pieces == [i \in DOMAIN parts |-> Piece(i)]
<1>1. DOMAIN parts = {1, 2} /\ parts[1] = d /\ parts[2] = e
  <2>1. 1 .. 2 = {1, 2}
    OBVIOUS
  <2>. QED  BY <2>1
<1>2. Combine(parts) = FlattenSeq(pieces)
  BY DEF Combine
<1> HIDE DEF parts
<1>3. SplitPath(d).verbatim = FALSE
  BY PlainIs
<1>4. Used = {1, 2}
  BY <1>1
<1>5. Rooted \subseteq {1}
  BY <1>1
<1>6. Verbatim = {}
  BY <1>1, <1>3, <1>5
<1> HIDE DEF Used, Rooted, Verbatim
<1>7. Max(Used) = 2
  <2>1. LastOf({1, 2}, 0) = Max({1, 2})
    BY DEF LastOf
  <2>2. {1, 2} \subseteq 1 .. 2 /\ {1, 2} # {} /\ 1 \in Int /\ 2 \in Int
    OBVIOUS
  <2>3. LastOf({1, 2}, 0) \in {1, 2} /\ \A y \in {1, 2} : y <= LastOf({1, 2}, 0)
    BY <2>2, LastOfIs
  <2>. QED  BY <1>4, <2>1, <2>3
<1>8. first = 1
  <2>1. first = LastOf(Rooted, 1)
    BY <1>6 DEF FirstOf
  <2>2. Rooted \subseteq 1 .. 1 /\ 1 \in Int
    BY <1>5
  <2>3. LastOf(Rooted, 1) = 1 \/ LastOf(Rooted, 1) \in Rooted
    BY <2>2, LastOfIs
  <2>. QED  BY <1>5, <2>1, <2>3
<1> HIDE DEF first
<1>9. Piece(1) = Ended(d) /\ Piece(2) = e
  <2>1. 1 \in Used /\ 2 \in Used /\ ~ 1 < first /\ ~ 2 < first /\ 1 # Max(Used) /\ 2 = Max(Used)
    BY <1>4, <1>7, <1>8
  <2>2. Piece(2) = e
    BY <1>1, <2>1
  <2>3. Piece(1) = Slash(d, SplitPath(d).verbatim)
    BY <1>1, <2>1
  <2>. QED  BY <1>3, <2>2, <2>3 DEF Ended
<1> HIDE DEF Piece
<1>10. pieces = <<Ended(d), e>>
  <2>1. pieces = [i \in 1 .. 2 |-> Piece(i)]
    BY <1>1
  <2> HIDE DEF pieces
  <2>. QED  BY <1>9, <2>1
<1>11. FlattenSeq(<<Ended(d), e>>) = Ended(d) \o e
  <2>1. Ended(d) \in Paths
    BY SlashIs
  <2>. QED  BY <2>1, FlattenTwo DEF Paths
<1>. QED  BY <1>2, <1>10, <1>11 DEF parts

LEMMA SplitPut ==
  ASSUME NEW p \in Paths, None \notin Paths, ~ IsUnc(p), ~ DriveRelative(p), Tidy(p),
         None \notin ToSet(Split(p)), ~ IsRooted(Split(p)[2])
  PROVE  SetParent(Split(p)[2], Split(p)[1]) = p /\ Combine(Split(p)) = p
<1> DEFINE c == SplitPath(p)
           root == RootLength(p)
           file == c.file
           dir == c.dir
           d == Upto(p, dir)
           e == From(p, file)
<1>1. Split(p) = <<d, e>> /\ dir > 0 /\ file # Len(p)
  <2> DEFINE one == IF dir > 0 THEN d ELSE None
             two == IF file = Len(p) THEN None ELSE e
  <2>1. Split(p) = <<one, two>>
    BY DEF Split, FileName
  <2> HIDE DEF one, two
  <2>2. one \in ToSet(<<one, two>>) /\ two \in ToSet(<<one, two>>)
    <3>1. DOMAIN <<one, two>> = 1 .. 2 /\ 1 \in 1 .. 2 /\ 2 \in 1 .. 2
      OBVIOUS
    <3>2. <<one, two>>[1] = one /\ <<one, two>>[2] = two
      OBVIOUS
    <3>. QED  BY <3>1, <3>2, Zenon DEF ToSet
  <2>3. one # None /\ two # None
    BY <2>1, <2>2
  <2>. QED  BY <2>1, <2>3 DEF one, two
<1>2. /\ root \in 0 .. Len(p) /\ file \in root .. Len(p) /\ dir \in root .. file
      /\ Len(p) \in Nat /\ c.verbatim = FALSE /\ Ordered(p, c)
  BY SplitIs, PlainIs DEF Paths
<1>3. \A i \in dir .. file - 1 : Sep(At(p, i))
  BY <1>2 DEF Ordered, Sep
<1>4. /\ p # <<>> /\ ~ HasDrive(p) => root = IF Sep(p[1]) THEN 1 ELSE 0
      /\ HasDrive(p) => root = IF Len(p) > 2 /\ Sep(p[3]) THEN 3 ELSE 2
      /\ \A i \in file .. Len(p) - 1 : Sep(At(p, i)) => i = root
      /\ file = root \/ (file - 1 > root /\ Sep(At(p, file - 1)))
  BY PlainIs
<1>5. \A i \in 1 .. Len(p) : Sep(p[i]) => p[i] = DirSep /\ (i > 1 => ~ Sep(p[i - 1]))
  <2>1. DOMAIN p = 1 .. Len(p)
    BY DEF Paths
  <2>. QED  BY <2>1, Zenon DEF Tidy, Sep
<1> HIDE DEF c, root, file, dir
<1>6. /\ dir \in Int /\ file \in Int /\ root \in Int /\ root >= 0 /\ dir >= root /\ dir <= file
      /\ dir > 0 /\ file < Len(p) /\ dir \in 0 .. Len(p) /\ file \in 0 .. Len(p)
      /\ file > 0
  BY <1>1, <1>2
<1>7. /\ d \in Paths /\ Len(d) = dir /\ d # <<>> /\ \A i \in 1 .. dir : d[i] = p[i]
  <2>1. /\ d \in Paths /\ Len(d) = dir /\ \A i \in 1 .. dir : d[i] = p[i]
    BY <1>6, UptoIs DEF Paths
  <2> HIDE DEF d
  <2>. QED  BY <1>6, <2>1
<1>8. /\ e \in Paths /\ Len(e) = Len(p) - file /\ e # <<>>
      /\ \A i \in 1 .. Len(p) - file : e[i] = p[file + i]
  <2>1. /\ e \in Paths /\ Len(e) = Len(p) - file
        /\ \A i \in 1 .. Len(p) - file : e[i] = p[file + i]
    BY <1>6, FromIs DEF Paths
  <2> HIDE DEF e
  <2>2. Len(e) # 0
    BY <1>2, <1>6, <2>1
  <2>. QED  BY <2>1, <2>2
<1>9. Upto(p, file) \o e = p
  BY <1>6, Halves
<1>10. Split(p)[1] = d /\ Split(p)[2] = e
  BY <1>1
<1> HIDE DEF d, e
<1>11. ~ IsRooted(e)
  BY <1>10
<1>12. ~ IsUnc(d)
  <2>1. ASSUME IsUnc(d) PROVE FALSE
    <3>1. Windows /\ dir >= 2 /\ d[1] = "\\" /\ d[2] = "\\"
      BY <1>7, <2>1, UncIs DEF Paths
    <3>2. p[1] = "\\" /\ p[2] = "\\" /\ Len(p) >= 2
      BY <1>2, <1>6, <1>7, <3>1
    <3>3. IsUnc(p)
      BY <3>1, <3>2, UncIs DEF Paths
    <3>. QED  BY <3>3
  <2>. QED  BY <2>1
<1>13. ~ Sep(e[1])
  BY <1>8, <1>11, RootFirst
<1>14. \A i \in 0 .. Len(e) - 1 : ~ Sep(At(e, i))
  <2>1. ASSUME NEW i \in 0 .. Len(e) - 1, Sep(At(e, i)) PROVE FALSE
    <3>1. i + 1 \in 1 .. Len(p) - file /\ file + (i + 1) = (file + i) + 1
          /\ file + i \in file .. Len(p) - 1 /\ i \in Int /\ i >= 0
      BY <1>2, <1>6, <1>8
    <3>2. e[i + 1] = p[(file + i) + 1]
      BY <1>8, <3>1
    <3>3. Sep(At(p, file + i))
      BY <2>1, <3>2 DEF At
    <3>4. file + i = root
      BY <1>4, <3>1, <3>3
    <3>5. i + 1 = 1
      BY <1>6, <3>1, <3>4
    <3>. QED  BY <1>13, <2>1, <3>5 DEF At
  <2>. QED  BY <2>1
<1>15. SplitPath(e).file = 0 /\ 0 # Len(e)
  <2>1. Len(e) \in Nat /\ Len(e) # 0
    BY <1>8 DEF Paths
  <2>2. e[1] # "\\" \/ ~ Windows
    BY <1>13, SepsAre
  <2>3. ~ IsUnc(e)
    BY <1>8, <2>2, UncIs DEF Paths
  <2>4. RootLength(e) = 0
    <3>1. RootLength(e) \in 0 .. Len(e) /\ ~ RootLength(e) > 0
      BY <1>8, <1>11, SplitType DEF IsRooted
    <3>. QED  BY <3>1
  <2>5. 0 \in RootLength(e) .. Len(e)
    BY <2>1, <2>4
  <2>. QED  BY <1>8, <1>14, <2>1, <2>3, <2>4, <2>5, PlainFound
<1>16. Ended(d) = Upto(p, file)
  <2>1. /\ Ended(d) \in Paths /\ \A i \in 1 .. dir : Ended(d)[i] = d[i]
        /\ Sep(d[dir]) => Ended(d) = d
        /\ ~ Sep(d[dir]) => /\ Len(Ended(d)) = dir + 1
                            /\ Ended(d)[dir + 1] = DirSep
    BY <1>7, SlashIs
  <2>2. /\ Upto(p, file) \in Paths /\ Len(Upto(p, file)) = file
        /\ \A i \in 1 .. file : Upto(p, file)[i] = p[i]
    BY <1>6, UptoIs DEF Paths
  <2>3. d[dir] = p[dir]
    BY <1>6, <1>7
  <2>4. ASSUME dir < file PROVE Sep(p[dir + 1])
    <3>1. dir \in dir .. file - 1
      BY <1>6, <2>4
    <3>. QED  BY <1>3, <3>1 DEF At
  <2>5. CASE Sep(p[dir])
    <3>1. file = dir
      <4>1. ASSUME dir < file PROVE FALSE
        <5>1. dir + 1 \in 1 .. Len(p) /\ dir + 1 > 1 /\ dir + 1 - 1 = dir
          BY <1>2, <1>6, <4>1
        <5>2. Sep(p[dir + 1])
          BY <2>4, <4>1
        <5>3. ASSUME NEW j \in 1 .. Len(p), j > 1, Sep(p[j]) PROVE ~ Sep(p[j - 1])
          BY <1>5, <5>3
        <5>4. ~ Sep(p[dir])
          <6> DEFINE j == dir + 1
          <6>1. j \in 1 .. Len(p) /\ j > 1 /\ Sep(p[j])
            BY <5>1, <5>2
          <6>2. j - 1 = dir
            BY <1>6
          <6> HIDE DEF j
          <6>3. ~ Sep(p[j - 1])
            BY <5>3, <6>1
          <6>. QED  BY <6>2, <6>3
        <5>. QED  BY <2>5, <5>4
      <4>. QED  BY <1>6, <4>1
    <3>. QED  BY <2>1, <2>3, <2>5, <3>1 DEF d
  <2>6. CASE ~ Sep(p[dir])
    <3>1. dir # file
      <4>1. ASSUME dir = file PROVE FALSE
        <5>1. file # root
          <6>1. ASSUME file = root PROVE FALSE
            <7>1. root > 0 /\ p # <<>>
              BY <1>6, <6>1 DEF Paths
            <7>2. CASE HasDrive(p)
              <8>1. root # 2
                BY <7>2 DEF DriveRelative, root
              <8>2. root = 3 /\ Sep(p[3])
                BY <1>4, <7>2, <8>1
              <8>. QED  BY <2>6, <4>1, <6>1, <8>2
            <7>3. CASE ~ HasDrive(p)
              <8>1. root = 1 /\ Sep(p[1])
                BY <1>4, <7>1, <7>3
              <8>. QED  BY <2>6, <4>1, <6>1, <8>1
            <7>. QED  BY <7>2, <7>3
          <6>. QED  BY <6>1
        <5>2. Sep(At(p, file - 1)) /\ file - 1 + 1 = file
          BY <1>4, <1>6, <5>1
        <5>. QED  BY <2>6, <4>1, <5>2 DEF At
      <4>. QED  BY <4>1
    <3>2. dir < file
      BY <1>6, <3>1
    <3>3. Sep(p[dir + 1]) /\ dir + 1 \in 1 .. Len(p)
      BY <1>2, <1>6, <2>4, <3>2
    <3>4. p[dir + 1] = DirSep
      BY <1>5, <3>3
    <3>5. file = dir + 1
      <4>1. ASSUME dir + 2 <= file PROVE FALSE
        <5>1. dir + 1 \in dir .. file - 1 /\ dir + 1 + 1 \in 1 .. Len(p)
              /\ dir + 1 + 1 > 1 /\ dir + 1 + 1 - 1 = dir + 1
          BY <1>2, <1>6, <4>1
        <5>2. Sep(p[dir + 1 + 1])
          BY <1>3, <5>1 DEF At
        <5>. QED  BY <1>5, <3>3, <5>1, <5>2
      <4>. QED  BY <1>6, <3>2, <4>1
    <3>6. \A i \in 1 .. file : Ended(d)[i] = Upto(p, file)[i]
      <4>1. ASSUME NEW i \in 1 .. file PROVE Ended(d)[i] = Upto(p, file)[i]
        <5>1. i \in 1 .. dir \/ i = dir + 1
          BY <1>6, <3>5
        <5>. QED  BY <1>7, <2>1, <2>2, <2>3, <2>6, <3>4, <5>1
      <4>. QED  BY <4>1
    <3>. QED  BY <2>1, <2>2, <2>3, <2>6, <3>5, <3>6 DEF Paths
  <2>. QED  BY <2>5, <2>6
<1>17. SetParent(e, d) = p
  <2>1. IsVerbatim(d) = FALSE
    BY <1>7, <1>12, PlainIs
  <2>2. SetParent(e, d) = Slash(d, FALSE) \o From(e, 0)
    BY <1>7, <1>15, <2>1 DEF SetParent
  <2>3. From(e, 0) = e
    BY <1>8 DEF From, Paths
  <2>. QED  BY <1>9, <1>16, <2>2, <2>3 DEF Ended
<1>18. Combine(<<d, e>>) = p
  BY <1>7, <1>8, <1>9, <1>11, <1>12, <1>16, CombineTwo
<1>. QED  BY <1>1, <1>10, <1>17, <1>18 DEF d, e

(* What is put into a path is found there, whatever the path: on both      *)
(* platforms the file name set is the file name read, the extension set    *)
(* the extension read, on shares and devices as well, and the parent and   *)
(* the file name make the path again, joined by set_parent or by combine   *)
(* (under the conditions PartsReadBack names).                             *)
THEOREM PartsFound == Spec => []PartsReadBack
<1>1. PathType => PartsReadBack
  <2>1. SUFFICES ASSUME PathType PROVE PartsReadBack
    OBVIOUS
  <2>2. /\ path \in Paths /\ None \notin Paths /\ \A n \in Names : n \in Paths
    BY <2>1, Given DEF PathType
  <2>3. \A n \in Names : ~ IsUnc(path) => FileName(SetFileName(path, n)) = n
    BY <2>2, NamePut
  <2>4. ASSUME NEW n \in Names, SetExtension(path, n) # path,
               Len(path) - SplitPath(path).file > 1, "." \notin ToSet(n)
        PROVE  Extension(SetExtension(path, n)) = n
    BY <2>2, <2>4, ExtensionPut
  <2>5. ASSUME ~ IsUnc(path), ~ DriveRelative(path), Tidy(path),
               None \notin ToSet(Split(path)), ~ IsRooted(Split(path)[2])
        PROVE  SetParent(Split(path)[2], Split(path)[1]) = path /\ Combine(Split(path)) = path
    BY <2>2, <2>5, SplitPut
  <2>. QED  BY <2>3, <2>4, <2>5, Zenon DEF PartsReadBack
<1>. QED  BY <1>1, PathsOnly, PTL

---------------------------------------------------------------------------
(* Two sets of numbers matched in order have the same size, and their k-th *)
(* numbers are matched.                                                    *)
Onto(f, T)    == \A t \in T : \E s \in DOMAIN f : f[s] = t
Rising(f)     == \A x, y \in DOMAIN f : x < y => f[x] < f[y]

LEMMA SameSize ==
  ASSUME NEW S, NEW T, NEW f \in [S -> T], \A x, y \in S : f[x] = f[y] => x = y,
         \A t \in T : \E s \in S : f[s] = t, IsFiniteSet(S)
  PROVE  IsFiniteSet(T) /\ Cardinality(T) = Cardinality(S)
<1>1. f \in Bijection(S, T)
  BY Fun_IsBij
<1>2. ExistsBijection(S, T)
  BY <1>1 DEF ExistsBijection
<1>. QED  BY <1>2, FS_Bijection

LEMMA NthMatched ==
  ASSUME NEW a \in Int, NEW b \in Int, NEW S, S \subseteq a .. b, NEW T, T \subseteq Int,
         NEW f \in [S -> T], Onto(f, T), Rising(f)
  PROVE  /\ IsFiniteSet(T) /\ Cardinality(T) = Cardinality(S)
         /\ \A k \in 1 .. Cardinality(S) : Nth(T, k) = f[Nth(S, k)] /\ Nth(S, k) \in S
<1>1. S \subseteq Int /\ IsFiniteSet(S) /\ \A x \in S : a <= x
  BY InOrderIs
<1>2. \A x \in S : f[x] \in Int /\ x \in Int
  BY <1>1
<1>3. \A x, y \in S : f[x] = f[y] => x = y
  <2>1. ASSUME NEW x \in S, NEW y \in S, f[x] = f[y] PROVE x = y
    <3>1. ~ x < y /\ ~ y < x
      BY <1>2, <2>1 DEF Rising
    <3>. QED  BY <1>2, <3>1
  <2>. QED  BY <2>1
<1>4. \A t \in T : \E s \in S : f[s] = t
  BY DEF Onto
<1>5. IsFiniteSet(T) /\ Cardinality(T) = Cardinality(S)
  BY <1>1, <1>3, <1>4, SameSize
<1>6. ASSUME NEW k \in 1 .. Cardinality(S)
      PROVE  Nth(T, k) = f[Nth(S, k)] /\ Nth(S, k) \in S
  <2> DEFINE x == Nth(S, k)
             X == {z \in S : z < x}
             Y == {z \in T : z < f[x]}
             g == [z \in X |-> f[z]]
  <2>1. x \in S /\ Cardinality(X) = k - 1
    BY <1>1, NthIs
  <2> HIDE DEF x
  <2>2. IsFiniteSet(X)
    BY <1>1, BelowFinite
  <2>3. \A z \in X : z \in S /\ z < x
    OBVIOUS
  <2>4. \A z \in X : f[z] \in Y
    BY <1>2, <2>1, <2>3 DEF Rising
  <2>5. \A t \in Y : \E z \in X : f[z] = t
    <3>1. ASSUME NEW t \in Y PROVE \E z \in X : f[z] = t
      <4>1. PICK z \in S : f[z] = t
        BY <1>4
      <4>2. f[z] < f[x]
        BY <4>1
      <4>3. z < x
        <5>1. z # x
          BY <1>2, <2>1, <4>2
        <5>2. ~ x < z
          <6>1. x < z => f[x] < f[z]
            BY <2>1 DEF Rising
          <6>. QED  BY <1>2, <2>1, <4>2, <6>1
        <5>. QED  BY <1>2, <2>1, <5>1, <5>2
      <4>. QED  BY <4>1, <4>3
    <3>. QED  BY <3>1
  <2> HIDE DEF X, Y
  <2>6. g \in [X -> Y] /\ \A z \in X : g[z] = f[z]
    BY <2>4
  <2> HIDE DEF g
  <2>7. \A y, z \in X : g[y] = g[z] => y = z
    BY <1>3, <2>3, <2>6
  <2>8. \A t \in Y : \E z \in X : g[z] = t
    BY <2>5, <2>6
  <2>9. Cardinality(Y) = k - 1
    BY <2>1, <2>2, <2>6, <2>7, <2>8, SameSize
  <2>10. f[x] \in T
    BY <2>1
  <2>11. Nth(T, k) = f[x]
    BY <1>5, <2>9, <2>10, NthOne DEF Y
  <2>. QED  BY <2>1, <2>11 DEF x
<1>. QED  BY <1>5, <1>6

(* None of S lies between x and y.                                         *)
Adjacent(S, x, y) == x < y /\ \A z \in S : z <= x \/ y <= z

LEMMA NthStep ==
  ASSUME NEW a \in Int, NEW b \in Int, NEW S, S \subseteq a .. b,
         NEW k \in 1 .. Cardinality(S), NEW y \in S, Adjacent(S, Nth(S, k), y)
  PROVE  k + 1 \in 1 .. Cardinality(S) /\ Nth(S, k + 1) = y
<1> DEFINE x == Nth(S, k)
           X == {z \in S : z < x}
           Y == {z \in S : z < y}
<1>1. /\ S \subseteq Int /\ IsFiniteSet(S) /\ Cardinality(S) \in Nat
      /\ \A z \in S : a <= z /\ z \in Int
  BY InOrderIs
<1>2. x \in S /\ Cardinality(X) = k - 1
  BY <1>1, NthIs
<1>3. x < y /\ \A z \in S : z <= x \/ y <= z
  BY DEF Adjacent
<1> HIDE DEF x
<1>4. Y = X \cup {x}
  <2>1. \A z \in Y : z \in X \cup {x}
    BY <1>1, <1>2, <1>3
  <2>2. \A z \in X \cup {x} : z \in Y
    BY <1>1, <1>2, <1>3
  <2> HIDE DEF X, Y
  <2>. QED  BY <2>1, <2>2
<1>5. IsFiniteSet(X) /\ x \notin X
  <2>1. IsFiniteSet(X)
    BY <1>1, BelowFinite
  <2>2. x \notin X
    BY <1>1, <1>2
  <2>. QED  BY <2>1, <2>2
<1>6. Cardinality(Y) = k
  <2> HIDE DEF X, Y
  <2>1. Cardinality(X \cup {x}) = Cardinality(X) + 1
    BY <1>5, FS_AddElement
  <2>. QED  BY <1>2, <1>4, <2>1
<1>7. k + 1 - 1 = k
  BY <1>1
<1>8. Nth(S, k + 1) = y
  <2> DEFINE l == k + 1
  <2>1. Cardinality({z \in S : z < y}) = l - 1
    BY <1>6, <1>7
  <2> HIDE DEF l
  <2>2. Nth(S, l) = y
    BY <1>1, <2>1, NthOne
  <2>. QED  BY <2>2 DEF l
<1>9. PICK j \in 1 .. Cardinality(S) : Nth(S, j) = y
  BY <1>1, PlaceOf
<1>10. Cardinality({z \in S : z < Nth(S, j)}) = j - 1
  BY <1>1, NthIs
<1>11. j = k + 1
  BY <1>1, <1>6, <1>9, <1>10
<1>. QED  BY <1>8, <1>11

LEMMA NthSegment ==
  ASSUME NEW n \in Nat
  PROVE  Cardinality(1 .. n) = n /\ \A k \in 1 .. n : Nth(1 .. n, k) = k
<1>1. 1 .. n \subseteq Int /\ IsFiniteSet(1 .. n)
  BY FS_Interval
<1>2. Cardinality(1 .. n) = n
  <2>1. Cardinality(1 .. n) = IF 1 > n THEN 0 ELSE n - 1 + 1
    BY FS_Interval
  <2>. QED  BY <2>1
<1>3. ASSUME NEW k \in 1 .. n PROVE Nth(1 .. n, k) = k
  <2>1. {z \in 1 .. n : z < k} = 1 .. k - 1
    OBVIOUS
  <2>2. Cardinality(1 .. k - 1) = IF 1 > k - 1 THEN 0 ELSE (k - 1) - 1 + 1
    <3>1. 1 \in Int /\ k - 1 \in Int
      OBVIOUS
    <3>. QED  BY <3>1, FS_Interval
  <2>3. (IF 1 > k - 1 THEN 0 ELSE (k - 1) - 1 + 1) = k - 1
    OBVIOUS
  <2> DEFINE c == Cardinality(1 .. k - 1)
  <2>4. c = k - 1
    <3> HIDE DEF c
    <3>1. c = IF 1 > k - 1 THEN 0 ELSE (k - 1) - 1 + 1
      BY <2>2 DEF c
    <3>. QED  BY <2>3, <3>1
  <2>5. Cardinality({z \in 1 .. n : z < k}) = k - 1
    BY <2>1, <2>4, Zenon
  <2>. QED  BY <1>1, <2>5, NthOne
<1>. QED  BY <1>2, <1>3

(* The first number.                                                       *)
LEMMA NthFirst ==
  ASSUME NEW a \in Int, NEW b \in Int, NEW S, S \subseteq a .. b, a \in S
  PROVE  1 \in 1 .. Cardinality(S) /\ Nth(S, 1) = a
<1>1. S \subseteq Int /\ IsFiniteSet(S) /\ Cardinality(S) \in Nat /\ \A x \in S : a <= x
  BY InOrderIs
<1>2. PICK k \in 1 .. Cardinality(S) : Nth(S, k) = a
  BY <1>1, PlaceOf
<1>3. {z \in S : z < a} = {}
  <2>1. \A z \in S : a <= z /\ z \in Int
    BY <1>1
  <2>2. \A z \in S : ~ z < a
    BY <2>1
  <2>. QED  BY <2>2
<1>4. Cardinality({z \in S : z < a}) = 1 - 1
  BY <1>3, FS_EmptySet
<1>5. Nth(S, 1) = a
  BY <1>1, <1>4, NthOne
<1>6. 1 \in 1 .. Cardinality(S)
  BY <1>1
<1>. QED  BY <1>5, <1>6

(* All of this for a set of offsets.                                       *)
Within(S, a, b) == S \subseteq a .. b

Enumerated(S, a, b) ==
  /\ Cardinality(S) \in Nat /\ \A x \in S : x \in Int /\ a <= x /\ x <= b
  /\ \A k \in 1 .. Cardinality(S) : Nth(S, k) \in S
  /\ \A i, j \in 1 .. Cardinality(S) : i < j => Nth(S, i) < Nth(S, j)
  /\ \A x \in S : \E k \in 1 .. Cardinality(S) : Nth(S, k) = x
  /\ a \in S => 1 \in 1 .. Cardinality(S) /\ Nth(S, 1) = a
  /\ \A k \in 1 .. Cardinality(S), y \in S :
       Adjacent(S, Nth(S, k), y) => k + 1 \in 1 .. Cardinality(S) /\ Nth(S, k + 1) = y

LEMMA PlacesAre ==
  ASSUME NEW a \in Int, NEW b \in Int, NEW S, Within(S, a, b)
  PROVE  Enumerated(S, a, b)
<1>0. S \subseteq a .. b
  BY DEF Within
<1>1. /\ S \subseteq Int /\ IsFiniteSet(S) /\ \A x \in S : a <= x
      /\ Cardinality(S) \in Nat /\ \A k \in 1 .. Cardinality(S) : Nth(S, k) \in S
  BY <1>0, InOrderIs
<1>2. \A x \in S : x \in Int /\ a <= x /\ x <= b
  BY <1>0
<1>3. \A i, j \in 1 .. Cardinality(S) : i < j => Nth(S, i) < Nth(S, j)
  BY <1>1, NthOrder
<1>4. \A x \in S : \E k \in 1 .. Cardinality(S) : Nth(S, k) = x
  BY <1>1, PlaceOf
<1>5. a \in S => 1 \in 1 .. Cardinality(S) /\ Nth(S, 1) = a
  BY <1>0, NthFirst
<1>6. ASSUME NEW k \in 1 .. Cardinality(S), NEW y \in S, Adjacent(S, Nth(S, k), y)
      PROVE  k + 1 \in 1 .. Cardinality(S) /\ Nth(S, k + 1) = y
  BY <1>0, <1>6, NthStep
<1>. QED  BY <1>1, <1>2, <1>3, <1>4, <1>5, <1>6, Zenon DEF Enumerated

LEMMA PositionsAre ==
  ASSUME NEW L \in Nat, NEW S, S \subseteq 1 .. L
  PROVE  /\ Enumerated(S, 1, L)
         /\ 1 \in S /\ 2 \in S => 2 \in 1 .. Cardinality(S) /\ Nth(S, 2) = 2
<1> DEFINE n == Cardinality(S)
<1>1. Enumerated(S, 1, L)
  <2>1. 1 \in Int /\ L \in Int /\ Within(S, 1, L)
    BY DEF Within
  <2>. QED  BY <2>1, PlacesAre
<1>2. ASSUME 1 \in S, 2 \in S PROVE 2 \in 1 .. n /\ Nth(S, 2) = 2
  <2>1. 1 \in 1 .. n /\ Nth(S, 1) = 1 /\ \A z \in S : z \in Int
    BY <1>1, <1>2 DEF Enumerated
  <2>2. Adjacent(S, Nth(S, 1), 2)
    BY <2>1 DEF Adjacent
  <2>3. 1 + 1 \in 1 .. n /\ Nth(S, 1 + 1) = 2
    <3>1. \A k \in 1 .. Cardinality(S), y \in S :
            Adjacent(S, Nth(S, k), y) =>
              k + 1 \in 1 .. Cardinality(S) /\ Nth(S, k + 1) = y
      BY <1>1, Zenon DEF Enumerated
    <3>. QED  BY <1>2, <2>1, <2>2, <3>1, Zenon
  <2>4. 1 + 1 = 2
    OBVIOUS
  <2>. QED  BY <2>3, <2>4
<1>. QED  BY <1>1, <1>2

---------------------------------------------------------------------------
(* Collapsed leaves one separator of each run.                             *)
LEMMA TidyIs ==
  ASSUME NEW p \in Paths
  PROVE  Tidy(p) <=> \A i \in 1 .. Len(p) : Sep(p[i]) =>
                       p[i] = DirSep /\ (i > 1 => ~ Sep(p[i - 1]))
<1>1. DOMAIN p = 1 .. Len(p)
  BY DEF Paths
<1>. QED  BY <1>1, Zenon DEF Tidy, Sep

LEMMA KeptIs ==
  ASSUME NEW p \in Paths, NEW i \in 1 .. Len(p)
  PROVE  i \in CollapsedAt(p) <=> (Sep(p[i]) => i = 1 \/ ~ Sep(p[i - 1]))
<1>1. DOMAIN p = 1 .. Len(p) /\ (i > 1 <=> i # 1)
  BY DEF Paths
<1>2. i \in CollapsedAt(p) <=> (Sep(p[i]) => ~ (i > 1 /\ Sep(p[i - 1])))
  BY <1>1, Zenon DEF CollapsedAt, AfterSep, Sep
<1>. QED  BY <1>1, <1>2

LEMMA NativeIs ==
  /\ \A c : Sep(Native(c)) <=> Sep(c)
  /\ \A c : Sep(c) => Native(c) = DirSep
  /\ \A c : ~ Sep(c) => Native(c) = c
<1>1. \A c : Native(c) = IF Sep(c) THEN DirSep ELSE c
  BY Zenon DEF Native, Sep
<1>. QED  BY <1>1, SepsAre

LEMMA TidyKept ==
  ASSUME NEW p \in Paths, Tidy(p)
  PROVE  Collapsed(p) = p
<1> DEFINE S == CollapsedAt(p)
           q == Collapsed(p)
<1>1. S \subseteq 1 .. Len(p) /\ Len(p) \in Nat
  BY CollapsedIs
<1>2. \A i \in 1 .. Len(p) : i \in S
  <2>1. ASSUME NEW i \in 1 .. Len(p) PROVE i \in S
    <3>1. Sep(p[i]) => (i > 1 => ~ Sep(p[i - 1]))
      BY TidyIs
    <3>2. i = 1 \/ i > 1
      OBVIOUS
    <3>. QED  BY <3>1, <3>2, KeptIs
  <2>. QED  BY <2>1
<1>3. S = 1 .. Len(p)
  BY <1>1, <1>2
<1>4. Cardinality(S) = Len(p) /\ \A k \in 1 .. Len(p) : Nth(S, k) = k
  BY <1>1, <1>3, NthSegment
<1>5. \A k \in 1 .. Len(p) : Native(p[k]) = p[k]
  BY TidyIs, NativeIs
<1>6. q \in Paths /\ Len(q) = Len(p) /\ \A k \in 1 .. Len(p) : q[k] = p[k]
  <2>1. /\ \A k \in 1 .. Cardinality(S) : q[k] = Native(p[Nth(S, k)])
        /\ q \in Paths /\ Len(q) = Cardinality(S)
    BY CollapsedIs
  <2>. QED  BY <1>4, <1>5, <2>1
<1> HIDE DEF q
<1>7. q = p
  BY <1>6 DEF Paths
<1>. QED  BY <1>7 DEF q

LEMMA CollapsedTidy ==
  ASSUME NEW p \in Paths
  PROVE  Tidy(Collapsed(p))
<1> DEFINE S == CollapsedAt(p)
           n == Cardinality(S)
           q == Collapsed(p)
<1>1. /\ S \subseteq 1 .. Len(p) /\ Len(p) \in Nat
      /\ \A k \in 1 .. n : q[k] = Native(p[Nth(S, k)])
      /\ q \in Paths /\ Len(q) = n
  BY CollapsedIs
<1>2. \A i \in 1 .. Len(p) : i \in S <=> (Sep(p[i]) => i = 1 \/ ~ Sep(p[i - 1]))
  BY KeptIs
<1> HIDE DEF S, q
<1>3. /\ n \in Nat /\ \A x \in S : x \in Int /\ 1 <= x /\ x <= Len(p)
      /\ \A k \in 1 .. n : Nth(S, k) \in S
      /\ \A i, j \in 1 .. n : i < j => Nth(S, i) < Nth(S, j)
      /\ \A x \in S : \E k \in 1 .. n : Nth(S, k) = x
  BY <1>1, PositionsAre DEF Enumerated
<1> HIDE DEF n
<1>4. ASSUME NEW k \in 1 .. n, Sep(q[k])
      PROVE  q[k] = DirSep /\ (k > 1 => ~ Sep(q[k - 1]))
  <2>1. q[k] = DirSep
    BY <1>1, <1>4, NativeIs
  <2>2. ASSUME k > 1, Sep(q[k - 1]) PROVE FALSE
    <3> DEFINE l == k - 1
               i == Nth(S, l)
               j == Nth(S, k)
    <3>1. l \in 1 .. n /\ l < k /\ k = l + 1
      BY <1>3, <2>2
    <3>2. i \in S /\ j \in S /\ Sep(p[i]) /\ Sep(p[j])
      BY <1>1, <1>3, <1>4, <2>2, <3>1, NativeIs
    <3>3. i < j
      BY <1>3, <3>1
    <3> HIDE DEF i, j
    <3>4. /\ i \in Int /\ j \in Int /\ 1 <= i /\ j <= Len(p) /\ j \in 1 .. Len(p)
          /\ j - 1 \in 1 .. Len(p) /\ j # 1
      BY <1>1, <1>3, <3>2, <3>3
    <3>5. ~ Sep(p[j - 1])
      BY <1>2, <3>2, <3>4
    <3>6. j - 1 \in S /\ j - 1 # i
      BY <1>2, <3>2, <3>4, <3>5
    <3>7. i < j - 1
      BY <3>3, <3>4, <3>6
    <3>8. PICK h \in 1 .. n : Nth(S, h) = j - 1
      BY <1>3, <3>6
    <3>9. ~ h < l /\ h # l /\ ~ h > k /\ h # k
      <4>1. h < l => j - 1 < i
        BY <1>3, <3>1, <3>8 DEF i
      <4>2. k < h => j < j - 1
        BY <1>3, <3>1, <3>8 DEF j
      <4>3. h # l /\ h # k
        BY <3>4, <3>7, <3>8 DEF i, j
      <4>. QED  BY <3>4, <3>7, <4>1, <4>2, <4>3
    <3>. QED  BY <3>1, <3>9
  <2>. QED  BY <2>1, <2>2
<1>. QED  BY <1>1, <1>4, TidyIs DEF q

(* The first two characters stay where they are.                           *)
LEMMA CollapsedStart ==
  ASSUME NEW p \in Paths, p # <<>>
  PROVE  /\ Collapsed(p) # <<>> /\ Collapsed(p)[1] = Native(p[1])
         /\ ~ Sep(p[1]) /\ Len(p) > 1 =>
              Len(Collapsed(p)) > 1 /\ Collapsed(p)[2] = Native(p[2])
         /\ Len(Collapsed(p)) > 1 => Len(p) > 1
<1> DEFINE S == CollapsedAt(p)
           n == Cardinality(S)
           q == Collapsed(p)
<1>1. /\ S \subseteq 1 .. Len(p) /\ Len(p) \in Nat /\ Len(p) >= 1
      /\ \A k \in 1 .. n : q[k] = Native(p[Nth(S, k)])
      /\ q \in Paths /\ Len(q) = n
  <2>1. Len(p) \in Nat /\ Len(p) >= 1
    BY DEF Paths
  <2>. QED  BY <2>1, CollapsedIs
<1>2. 1 \in S
  <2>1. 1 \in 1 .. Len(p)
    BY <1>1
  <2>. QED  BY <2>1, KeptIs
<1>3. ~ Sep(p[1]) /\ Len(p) > 1 => 2 \in S
  <2>1. Len(p) > 1 => 2 \in 1 .. Len(p) /\ 2 - 1 = 1
    BY <1>1
  <2>. QED  BY <2>1, KeptIs
<1> HIDE DEF S, q
<1>4. /\ 1 \in 1 .. n /\ Nth(S, 1) = 1 /\ n \in Nat
      /\ \A k \in 1 .. n : Nth(S, k) \in S
      /\ \A i, j \in 1 .. n : i < j => Nth(S, i) < Nth(S, j)
      /\ \A x \in S : x \in Int /\ 1 <= x /\ x <= Len(p)
  BY <1>1, <1>2, PositionsAre DEF Enumerated
<1>5. 2 \in S => 2 \in 1 .. n /\ Nth(S, 2) = 2
  BY <1>1, <1>2, PositionsAre
<1> HIDE DEF n
<1>6. q # <<>> /\ q[1] = Native(p[1])
  BY <1>1, <1>4
<1>7. ~ Sep(p[1]) /\ Len(p) > 1 => Len(q) > 1 /\ q[2] = Native(p[2])
  BY <1>1, <1>3, <1>5
<1>8. Len(q) > 1 => Len(p) > 1
  <2>1. ASSUME n > 1, ~ Len(p) > 1 PROVE FALSE
    <3>1. Nth(S, 2) \in S /\ Nth(S, 1) < Nth(S, 2)
      <4>1. 2 \in 1 .. n
        BY <1>4, <2>1
      <4>. QED  BY <1>4, <4>1
    <3>2. Nth(S, 2) \in Int /\ Nth(S, 2) > 1 /\ Nth(S, 2) <= Len(p)
      BY <1>4, <3>1
    <3>. QED  BY <1>1, <2>1, <3>2
  <2>. QED  BY <1>1, <2>1
<1>. QED  BY <1>6, <1>7, <1>8 DEF q

(* A path with a root has a drive or begins with a separator.              *)
LEMMA RootedIs ==
  ASSUME NEW p \in Paths
  PROVE  IsRooted(p) <=> HasDrive(p) \/ (p # <<>> /\ Sep(p[1]))
<1>1. p # <<>> /\ Sep(p[1]) => IsRooted(p)
  BY RootFirst
<1>2. HasDrive(p) => IsRooted(p)
  <2>1. ASSUME HasDrive(p) PROVE ~ IsUnc(p)
    <3>1. p[2] = ":"
      BY <2>1 DEF HasDrive
    <3>. QED  BY <3>1, UncIs DEF Paths
  <2>2. ASSUME HasDrive(p) PROVE RootLength(p) \in {2, 3}
    BY <2>1, <2>2, PlainIs
  <2>. QED  BY <2>2 DEF IsRooted
<1>3. ASSUME ~ HasDrive(p), p = <<>> \/ ~ Sep(p[1]) PROVE ~ IsRooted(p)
  <2>1. ~ IsUnc(p)
    <3>1. p[1] = "\\" /\ Windows => Sep(p[1])
      BY SepsAre
    <3>. QED  BY <1>3, <3>1, UncIs DEF Paths
  <2>2. RootLength(p) = 0
    BY <1>3, <2>1, PlainIs
  <2>. QED  BY <2>2 DEF IsRooted
<1>. QED  BY <1>1, <1>2, <1>3

LEMMA NormalizeIs ==
  ASSUME NEW p \in Paths
  PROVE  /\ Normalize(p) = IF IsNormalized(p) THEN p
                           ELSE IF Windows /\ Sep(p[1])
                                THEN <<DirSep>> \o Collapsed(Tail(p)) ELSE Collapsed(p)
         /\ p = <<>> => IsNormalized(p)
         /\ ~ (Windows /\ IsRooted(p)) => (IsNormalized(p) <=> Tidy(p))
<1>1. Normalize(p) = IF IsNormalized(p) THEN p
                     ELSE IF Windows /\ Sep(p[1])
                          THEN <<DirSep>> \o Collapsed(Tail(p)) ELSE Collapsed(p)
  BY Zenon DEF Normalize, Sep
<1>2. p = <<>> => IsNormalized(p)
  <2>1. ASSUME p = <<>> PROVE LookedAt(p) = <<>>
    <3>1. RootLength(p) = 0 /\ Len(p) = 0
      BY <2>1 DEF RootLength
    <3>2. Upto(p, 0) = <<>>
      BY <2>1 DEF Upto
    <3>. QED  BY <2>1, <3>1, <3>2 DEF LookedAt
  <2>2. DOMAIN <<>> = {}
    OBVIOUS
  <2>. QED  BY <2>1, <2>2 DEF IsNormalized
<1>3. ASSUME Windows, ~ IsRooted(p) PROVE IsNormalized(p) <=> Tidy(p)
  <2>1. p = <<>> \/ ~ Sep(p[1])
    BY <1>3, RootFirst
  <2>2. ~ HasDrive(p) /\ RootLength(p) \in 0 .. Len(p) /\ ~ RootLength(p) > 0
    BY <1>3, RootedIs, RootIn DEF IsRooted, Paths
  <2>3. ~ IsUnc(p)
    <3>1. p[1] = "\\" => Sep(p[1])
      BY <1>3, SepsAre
    <3>. QED  BY <1>3, <2>1, <3>1, UncIs DEF Paths
  <2>4. SplitPath(p).verbatim = FALSE
    BY <2>3, PlainIs
  <2>5. /\ Len(p) \in Nat /\ RootLength(p) = 0 /\ DOMAIN p = 1 .. Len(p)
        /\ Len(p) \in 0 .. Len(p) /\ p \in Seq(Characters)
    BY <2>2 DEF Paths
  <2>6. LookedAt(p) = Upto(p, Len(p))
    <3>1. Len(p) - RootLength(p) = Len(p)
      BY <2>5
    <3>. QED  BY <1>3, <3>1 DEF LookedAt
  <2>7. Upto(p, Len(p)) = p
    <3>1. /\ Upto(p, Len(p)) \in Seq(Characters) /\ Len(Upto(p, Len(p))) = Len(p)
          /\ \A i \in 1 .. Len(p) : Upto(p, Len(p))[i] = p[i]
      BY <2>5, UptoIs
    <3>. QED  BY <2>5, <3>1
  <2>8. IsNormalized(p) <=>
          \A i \in 1 .. Len(p) : p[i] # "/" /\ (p[i] = DirSep => ~ (i > 1 /\ Sep(p[i - 1])))
    <3>1. LookedAt(p) = p
      BY <2>6, <2>7
    <3>. QED  BY <1>3, <2>4, <2>5, <3>1, Zenon DEF IsNormalized, AfterSep, Sep
  <2>9. DirSep = "\\" /\ \A c : Sep(c) <=> c \in {"/", "\\"}
    BY <1>3 DEF Sep, IsDirsep, DirSep
  <2>. QED  BY <2>8, <2>9, TidyIs
<1>4. ~ Windows => (IsNormalized(p) <=> Tidy(p))
  <2>1. ASSUME ~ Windows PROVE IsNormalized(p) <=> Tidy(p)
    <3>1. ~ IsUnc(p) /\ LookedAt(p) = p /\ DOMAIN p = 1 .. Len(p)
      BY <2>1 DEF IsUnc, LookedAt, Paths
    <3>2. SplitPath(p).verbatim = FALSE
      BY <3>1, PlainIs
    <3>3. IsNormalized(p) <=> \A i \in 1 .. Len(p) : p[i] = DirSep => ~ (i > 1 /\ Sep(p[i - 1]))
      BY <2>1, <3>1, <3>2, Zenon DEF IsNormalized, AfterSep, Sep
    <3>4. \A c : Sep(c) <=> c = DirSep
      BY <2>1 DEF Sep, IsDirsep
    <3>. QED  BY <3>3, <3>4, TidyIs
  <2>. QED  BY <2>1
<1>. QED  BY <1>1, <1>2, <1>3, <1>4

LEMMA NormalizeTwice ==
  ASSUME NEW p \in Paths
  PROVE  /\ Normalize(Normalize(p)) = Normalize(p)
         /\ IsRooted(Normalize(p)) = IsRooted(p)
         /\ ~ (Windows /\ IsRooted(p)) => /\ Tidy(Normalize(p))
                                          /\ Normalize(p) = Collapsed(p)
<1>0. \A q \in Paths : Collapsed(q) \in Paths /\ Collapsed(Collapsed(q)) = Collapsed(q)
  BY CollapsedIs, CollapsedTidy, TidyKept
<1> DEFINE r == Normalize(p)
<1>1. r \in Paths
  BY NormalizeType
<1>2. CASE IsNormalized(p)
  <2>1. r = p
    BY <1>2, NormalizeIs
  <2>2. ~ (Windows /\ IsRooted(p)) => Tidy(p)
    BY <1>2, NormalizeIs
  <2>3. Tidy(p) => Collapsed(p) = p
    BY TidyKept
  <2>. QED  BY <2>1, <2>2, <2>3
<1>3. CASE ~ IsNormalized(p) /\ Windows /\ Sep(p[1])
  <2> DEFINE q == Collapsed(Tail(p))
             one == <<DirSep>>
  <2>1. p # <<>>
    BY <1>3, NormalizeIs
  <2>2. Tail(p) \in Paths
    BY <2>1 DEF Paths
  <2>3. q \in Paths /\ Collapsed(q) = q
    BY <1>0, <2>2
  <2>4. r = one \o q
    BY <1>3, NormalizeIs
  <2>5. one \in Paths /\ Len(one) = 1 /\ one[1] = DirSep
    BY Typed
  <2> HIDE DEF q, one, r
  <2>6. r # <<>> /\ r[1] = DirSep /\ Tail(r) = q
    <3>1. /\ Len(r) = 1 + Len(q) /\ Len(q) \in Nat /\ r[1] = DirSep
          /\ \A i \in 1 .. Len(q) : r[1 + i] = q[i]
      <4>1. /\ Len(one \o q) = Len(one) + Len(q)
            /\ \A i \in 1 .. Len(one) : (one \o q)[i] = one[i]
            /\ \A i \in 1 .. Len(q) : (one \o q)[Len(one) + i] = q[i]
        BY <2>3, <2>5, PathsJoined
      <4>2. 1 \in 1 .. Len(one) /\ Len(q) \in Nat
        BY <2>3, <2>5 DEF Paths
      <4>. QED  BY <2>4, <2>5, <4>1, <4>2
    <3>2. r # <<>>
      BY <3>1
    <3>3. Tail(r) = q
      <4>1. Tail(r) \in Paths /\ Len(Tail(r)) = Len(r) - 1
            /\ \A i \in 1 .. Len(r) - 1 : Tail(r)[i] = r[i + 1]
        BY <1>1, <3>2, <3>1 DEF Paths
      <4>2. \A i \in 1 .. Len(q) : Tail(r)[i] = q[i]
        BY <3>1, <4>1
      <4>. QED  BY <2>3, <3>1, <4>1, <4>2 DEF Paths
    <3>. QED  BY <3>1, <3>2, <3>3
  <2>7. Sep(r[1])
    BY <2>6, SepsAre
  <2>8. Normalize(r) = r
    BY <1>1, <1>3, <2>3, <2>4, <2>6, <2>7, NormalizeIs DEF one
  <2>9. IsRooted(p) /\ IsRooted(r)
    BY <1>1, <1>3, <2>1, <2>6, <2>7, RootFirst
  <2>. QED  BY <1>3, <2>8, <2>9, Zenon DEF r, IsRooted
<1>4. CASE ~ IsNormalized(p) /\ ~ (Windows /\ Sep(p[1]))
  <2>1. p # <<>> /\ r = Collapsed(p)
    BY <1>4, NormalizeIs
  <2>2. /\ r # <<>> /\ r[1] = Native(p[1])
        /\ ~ Sep(p[1]) /\ Len(p) > 1 => Len(r) > 1 /\ r[2] = Native(p[2])
        /\ Len(r) > 1 => Len(p) > 1
    BY <2>1, CollapsedStart
  <2>3. Sep(r[1]) <=> Sep(p[1])
    BY <2>2, NativeIs
  <2>4. Collapsed(r) = r /\ Tidy(r)
    BY <1>0, <2>1, CollapsedTidy
  <2> HIDE DEF r
  <2>5. Normalize(r) = r
    BY <1>1, <1>4, <2>3, <2>4, NormalizeIs
  <2>6. ~ Sep(p[1]) => (HasDrive(r) <=> HasDrive(p))
    <3>1. ASSUME ~ Sep(p[1]), Len(p) > 1 PROVE r[2] = ":" <=> p[2] = ":"
      <4>1. r[2] = Native(p[2]) /\ DirSep # ":"
        BY <2>2, <3>1, SepsAre
      <4>. QED  BY <4>1, NativeIs, SepsAre
    <3>2. ~ Sep(p[1]) => r[1] = p[1]
      BY <2>2, NativeIs
    <3>. QED  BY <2>2, <3>1, <3>2 DEF HasDrive
  <2>7. IsRooted(r) <=> IsRooted(p)
    BY <1>1, <2>1, <2>2, <2>3, <2>6, RootedIs
  <2>8. IsRooted(r) = IsRooted(p)
    <3>1. IsRooted(r) \in BOOLEAN /\ IsRooted(p) \in BOOLEAN
      BY DEF IsRooted
    <3>. QED  BY <2>7, <3>1
  <2>. QED  BY <2>1, <2>4, <2>5, <2>8 DEF r
<1>. QED  BY <1>2, <1>3, <1>4


---------------------------------------------------------------------------
(* The place in p of the k-th character of Collapsed(p).  A separator is   *)
(* dropped after a separator only, so that what comes after a character of *)
(* a component is kept, and comes after it in Collapsed(p).                *)
Origin(p, k) == Nth(CollapsedAt(p), k)

LEMMA OriginsAre ==
  ASSUME NEW p \in Paths, NEW r \in Paths, r = Collapsed(p)
  PROVE  /\ Len(r) \in Nat /\ Len(p) \in Nat
         /\ \A k \in 1 .. Len(r) : /\ Origin(p, k) \in 1 .. Len(p)
                                   /\ r[k] = Native(p[Origin(p, k)])
         /\ \A k, l \in 1 .. Len(r) : k < l => Origin(p, k) < Origin(p, l)
         /\ \A k \in 1 .. Len(r) : Origin(p, 1) = 1
         /\ \A x \in 1 .. Len(p) : ~ Sep(p[x]) => \E k \in 1 .. Len(r) : Origin(p, k) = x
         /\ \A k \in 1 .. Len(r) : ~ Sep(p[Origin(p, k)]) /\ Origin(p, k) < Len(p) =>
              k + 1 \in 1 .. Len(r) /\ Origin(p, k + 1) = Origin(p, k) + 1
<1> DEFINE S == CollapsedAt(p)
<1>1. /\ S \subseteq 1 .. Len(p) /\ Len(p) \in Nat
      /\ \A k \in 1 .. Cardinality(S) : r[k] = Native(p[Nth(S, k)])
      /\ Len(r) = Cardinality(S)
  BY CollapsedIs
<1>2. Enumerated(S, 1, Len(p))
  BY <1>1, PositionsAre
<1>3. \A i \in 1 .. Len(p) : i \in S <=> (Sep(p[i]) => i = 1 \/ ~ Sep(p[i - 1]))
  BY KeptIs
<1> HIDE DEF S
<1>4. /\ Cardinality(S) \in Nat /\ \A x \in S : x \in Int /\ 1 <= x /\ x <= Len(p)
      /\ \A k \in 1 .. Cardinality(S) : Nth(S, k) \in S
      /\ \A i, j \in 1 .. Cardinality(S) : i < j => Nth(S, i) < Nth(S, j)
      /\ \A x \in S : \E k \in 1 .. Cardinality(S) : Nth(S, k) = x
      /\ 1 \in S => 1 \in 1 .. Cardinality(S) /\ Nth(S, 1) = 1
  BY <1>2 DEF Enumerated
<1>5. \A k \in 1 .. Cardinality(S), y \in S : Adjacent(S, Nth(S, k), y) =>
        k + 1 \in 1 .. Cardinality(S) /\ Nth(S, k + 1) = y
  BY <1>2, Zenon DEF Enumerated
<1>6. ASSUME NEW k \in 1 .. Cardinality(S), ~ Sep(p[Nth(S, k)]), Nth(S, k) < Len(p)
      PROVE  k + 1 \in 1 .. Cardinality(S) /\ Nth(S, k + 1) = Nth(S, k) + 1
  <2> DEFINE x == Nth(S, k)
             y == x + 1
  <2>1. x \in S /\ x \in Int /\ 1 <= x
    BY <1>4
  <2>2. y \in 1 .. Len(p) /\ y - 1 = x /\ x < y
    BY <1>1, <1>6, <2>1
  <2>3. y \in S
    BY <1>3, <1>6, <2>2
  <2>4. \A z \in S : z <= x \/ y <= z
    BY <1>4, <2>1
  <2> HIDE DEF x
  <2>5. Adjacent(S, x, y)
    BY <2>2, <2>4 DEF Adjacent
  <2> HIDE DEF y
  <2>. QED  BY <1>5, <2>3, <2>5 DEF x, y
<1>7. ASSUME NEW k \in 1 .. Cardinality(S) PROVE Nth(S, 1) = 1
  <2>1. \E x \in S : TRUE
    BY <1>4
  <2>2. 1 \in 1 .. Len(p)
    BY <1>1, <1>4, <2>1
  <2>3. 1 \in S
    BY <1>3, <2>2
  <2>. QED  BY <1>4, <2>3
<1>8. ASSUME NEW x \in 1 .. Len(p), ~ Sep(p[x])
      PROVE  \E k \in 1 .. Cardinality(S) : Nth(S, k) = x
  <2>1. x \in S
    BY <1>3, <1>8
  <2>. QED  BY <1>4, <2>1
<1>9. \A k : Origin(p, k) = Nth(S, k)
  BY DEF Origin, S
<1>10. \A k \in 1 .. Cardinality(S) : Nth(S, k) \in 1 .. Len(p)
  BY <1>1, <1>4
<1> HIDE DEF Origin
<1>11. \A k \in 1 .. Cardinality(S) : ~ Sep(p[Nth(S, k)]) /\ Nth(S, k) < Len(p) =>
         k + 1 \in 1 .. Cardinality(S) /\ Nth(S, k + 1) = Nth(S, k) + 1
  BY <1>6
<1>. QED  BY <1>1, <1>4, <1>7, <1>8, <1>9, <1>10, <1>11

(* The path as one stretch of components.                                  *)
Whole(p) == [left |-> p, verbatim |-> FALSE]

LEMMA StartsAre ==
  ASSUME NEW p \in Paths
  PROVE  /\ Starts(Whole(p)) \subseteq 0 .. Len(p) - 1
         /\ \A i \in 0 .. Len(p) - 1 :
              i \in Starts(Whole(p)) <=> ~ Sep(p[i + 1]) /\ (i = 0 \/ Sep(p[i]))
<1>1. /\ Whole(p).left = p /\ Whole(p).verbatim = FALSE
      /\ \A i \in 0 .. Len(p) - 1 : i \in Int /\ i - 1 + 1 = i
  BY DEF Whole
<1>2. Starts(Whole(p)) = {i \in 0 .. Len(p) - 1 : ~ Sep(At(p, i)) /\ (i = 0 \/ Sep(At(p, i - 1)))}
  BY <1>1, Zenon DEF Starts, Sep
<1>3. \A i \in 0 .. Len(p) - 1 : At(p, i) = p[i + 1] /\ At(p, i - 1) = p[i]
  BY <1>1 DEF At
<1>. QED  BY <1>2, <1>3

(* Where the component at i ends, v saying whether the path is verbatim.   *)
EndsBy(p, v, i, e) ==
  /\ e \in i .. Len(p) /\ \A j \in i + 1 .. e : ~ IsDirsep(p[j], v)
  /\ e = Len(p) \/ IsDirsep(p[e + 1], v)

LEMMA EndIn ==
  ASSUME NEW p \in Paths, NEW i \in 0 .. Len(p), NEW v
  PROVE  /\ FirstSep(p, i, v) \in i .. Len(p) /\ EndsBy(p, v, i, FirstSep(p, i, v))
         /\ \A e : EndsBy(p, v, i, e) => e = FirstSep(p, i, v)
<1> DEFINE X == Seps(p, i, v)
           f == FirstSep(p, i, v)
           Apart(c) == IsDirsep(c, v)
<1>1. /\ Len(p) \in Nat /\ i \in Int /\ Len(p) - 1 \in Int
      /\ \A j : j \in X <=> j \in i .. Len(p) - 1 /\ Apart(p[j + 1])
  <2>1. X = {j \in i .. Len(p) - 1 : Apart(p[j + 1])}
    BY Zenon DEF Seps, At
  <2>2. Len(p) \in Nat
    BY DEF Paths
  <2>3. \A j : j \in X <=> j \in i .. Len(p) - 1 /\ Apart(p[j + 1])
    BY <2>1, Zenon
  <2> HIDE DEF X
  <2>. QED  BY <2>2, <2>3
<1>2. /\ X = {} => f = Len(p)
      /\ X # {} => f \in X /\ \A y \in X : f <= y
  <2> HIDE DEF X
  <2>1. X \subseteq i .. Len(p) - 1
    BY <1>1
  <2>2. /\ X = {} => FirstOf(X, Len(p)) = Len(p)
        /\ X # {} => FirstOf(X, Len(p)) \in X /\ \A y \in X : FirstOf(X, Len(p)) <= y
    BY <1>1, <2>1, FirstOfIs
  <2>. QED  BY <2>2, Zenon DEF FirstSep, X
<1> HIDE DEF X, f, Apart
<1>3. f \in i .. Len(p)
  BY <1>1, <1>2
<1>4. ASSUME NEW j \in i + 1 .. f PROVE ~ Apart(p[j])
  <2>1. j - 1 \in i .. Len(p) - 1 /\ j - 1 + 1 = j /\ ~ f <= j - 1
    BY <1>1, <1>3
  <2>2. j - 1 \notin X
    BY <1>2, <2>1
  <2>. QED  BY <1>1, <2>1, <2>2
<1>5. f = Len(p) \/ Apart(p[f + 1])
  BY <1>1, <1>2
<1>6. ASSUME NEW e, EndsBy(p, v, i, e) PROVE e = f
  <2>1. /\ e \in i .. Len(p) /\ \A j \in i + 1 .. e : ~ Apart(p[j])
        /\ e = Len(p) \/ Apart(p[e + 1])
    BY <1>6 DEF EndsBy, Apart
  <2>2. ~ f < e
    <3>1. f < e => f + 1 \in i + 1 .. e /\ f # Len(p)
      BY <1>1, <1>3, <2>1
    <3>. QED  BY <1>5, <2>1, <3>1
  <2>3. ~ e < f
    <3>1. e < f => e + 1 \in i + 1 .. f /\ e # Len(p)
      BY <1>1, <1>3, <2>1
    <3>. QED  BY <1>4, <2>1, <3>1
  <2>. QED  BY <1>1, <1>3, <2>1, <2>2, <2>3
<1>. QED  BY <1>3, <1>4, <1>5, <1>6 DEF EndsBy, f, Apart

EndsAt(p, i, e) ==
  /\ e \in i .. Len(p) /\ \A j \in i + 1 .. e : ~ Sep(p[j])
  /\ e = Len(p) \/ Sep(p[e + 1])

LEMMA EndIs ==
  ASSUME NEW p \in Paths, NEW i \in 0 .. Len(p)
  PROVE  /\ FirstSep(p, i, FALSE) \in i .. Len(p) /\ EndsAt(p, i, FirstSep(p, i, FALSE))
         /\ \A e : EndsAt(p, i, e) => e = FirstSep(p, i, FALSE)
<1>1. \A v : /\ FirstSep(p, i, v) \in i .. Len(p) /\ EndsBy(p, v, i, FirstSep(p, i, v))
             /\ \A e : EndsBy(p, v, i, e) => e = FirstSep(p, i, v)
  BY EndIn
<1>2. \A e : EndsAt(p, i, e) <=> EndsBy(p, FALSE, i, e)
  BY Zenon DEF EndsAt, EndsBy, Sep
<1>. QED  BY <1>1, <1>2, Zenon

LEMMA ComponentsAre ==
  ASSUME NEW p \in Paths
  PROVE  Components(p) = [k \in 1 .. Cardinality(Starts(Whole(p))) |->
                            Token(Whole(p), Nth(Starts(Whole(p)), k))]
<1> DEFINE S == Starts(Whole(p))
           n == Len(p) - 1
<1>1. S \subseteq 0 .. n
  BY StartsAre
<1>2. 0 \in Int /\ n \in Int
  BY DEF Paths
<1> HIDE DEF n
<1>3. /\ DOMAIN InOrder(S) = 1 .. Cardinality(S)
      /\ \A k \in 1 .. Cardinality(S) : InOrder(S)[k] = Nth(S, k)
  BY <1>1, <1>2, InOrderIs
<1>4. Components(p) = [k \in DOMAIN InOrder(S) |-> Token(Whole(p), InOrder(S)[k])]
  BY Zenon DEF Components, Whole
<1> HIDE DEF S
<1>5. Components(p) = [k \in 1 .. Cardinality(S) |-> Token(Whole(p), Nth(S, k))]
  BY <1>3, <1>4
<1>. QED  BY <1>5 DEF S

(* The component of Collapsed(p) at k is the one of p that its first       *)
(* character comes from.                                                   *)
LEMMA TokenKept ==
  ASSUME NEW p \in Paths, NEW r \in Paths, r = Collapsed(p), NEW k \in Starts(Whole(r))
  PROVE  /\ Origin(p, k + 1) - 1 \in Starts(Whole(p))
         /\ Token(Whole(r), k) = Token(Whole(p), Origin(p, k + 1) - 1)
<1> DEFINE i == Origin(p, k + 1) - 1
           e == FirstSep(r, k, FALSE)
           f == i + (e - k)
           D == {d \in 0 .. Len(r) : k + 1 + d <= e => Origin(p, k + 1 + d) = i + 1 + d}
<1>1. /\ Len(r) \in Nat /\ Len(p) \in Nat
      /\ \A l \in 1 .. Len(r) : Origin(p, l) \in 1 .. Len(p) /\ r[l] = Native(p[Origin(p, l)])
      /\ \A l, m \in 1 .. Len(r) : l < m => Origin(p, l) < Origin(p, m)
      /\ \A l \in 1 .. Len(r) : Origin(p, 1) = 1
      /\ \A x \in 1 .. Len(p) : ~ Sep(p[x]) => \E l \in 1 .. Len(r) : Origin(p, l) = x
      /\ \A l \in 1 .. Len(r) : ~ Sep(p[Origin(p, l)]) /\ Origin(p, l) < Len(p) =>
           l + 1 \in 1 .. Len(r) /\ Origin(p, l + 1) = Origin(p, l) + 1
  BY OriginsAre
<1>2. /\ k \in 0 .. Len(r) - 1 /\ ~ Sep(r[k + 1]) /\ (k = 0 \/ Sep(r[k]))
  <2>1. k \in 0 .. Len(r) - 1
    BY StartsAre
  <2>. QED  BY <2>1, StartsAre
<1>3. k \in Int /\ 0 <= k /\ k + 1 \in 1 .. Len(r) /\ k \in 0 .. Len(r)
  BY <1>1, <1>2
<1>4. \A l \in 1 .. Len(r) : (Sep(r[l]) <=> Sep(p[Origin(p, l)]))
                             /\ (~ Sep(r[l]) => r[l] = p[Origin(p, l)])
  BY <1>1, NativeIs
<1>5. i \in 0 .. Len(p) - 1 /\ i + 1 = Origin(p, k + 1) /\ ~ Sep(p[i + 1])
  <2>1. Origin(p, k + 1) \in 1 .. Len(p)
    BY <1>1, <1>3
  <2>2. i \in 0 .. Len(p) - 1 /\ i + 1 = Origin(p, k + 1)
    BY <1>1, <2>1
  <2> HIDE DEF i
  <2>. QED  BY <1>2, <1>3, <1>4, <2>2
<1> HIDE DEF i
<1>6. i = 0 \/ Sep(p[i])
  <2>1. CASE k = 0
    <3>1. Origin(p, k + 1) = 1
      BY <1>1, <1>3, <2>1
    <3>. QED  BY <1>1, <1>5, <3>1
  <2>2. CASE k # 0
    <3>1. k \in 1 .. Len(r) /\ Sep(p[Origin(p, k)]) /\ k < k + 1
      BY <1>1, <1>2, <1>3, <1>4, <2>2
    <3>2. Origin(p, k) < i + 1 /\ Origin(p, k) \in 1 .. Len(p)
      BY <1>1, <1>3, <1>5, <3>1
    <3>3. ASSUME ~ Sep(p[i]) PROVE FALSE
      <4>1. i \in 1 .. Len(p)
        BY <1>1, <1>5, <3>2
      <4>2. PICK l \in 1 .. Len(r) : Origin(p, l) = i
        BY <1>1, <3>3, <4>1
      <4>3. Origin(p, k) < Origin(p, l) /\ Origin(p, l) < Origin(p, k + 1)
        <5>1. Origin(p, k) # i
          BY <3>1, <3>3
        <5>. QED  BY <1>1, <1>5, <3>2, <4>1, <4>2, <5>1
      <4>4. ~ l < k /\ l # k /\ ~ k + 1 < l /\ l # k + 1
        <5>1. l < k => Origin(p, l) < Origin(p, k)
          BY <1>1, <3>1
        <5>2. k + 1 < l => Origin(p, k + 1) < Origin(p, l)
          BY <1>1, <1>3
        <5>3. Origin(p, l) \in Int /\ Origin(p, k) \in Int /\ Origin(p, k + 1) \in Int
          BY <1>1, <1>3, <3>1
        <5>. QED  BY <4>3, <5>1, <5>2, <5>3
      <4>. QED  BY <1>3, <4>4
    <3>. QED  BY <3>3
  <2>. QED  BY <2>1, <2>2
<1>7. i \in Starts(Whole(p))
  BY <1>5, <1>6, StartsAre
<1>8. e \in k .. Len(r) /\ EndsAt(r, k, e)
  BY <1>3, EndIs
<1> HIDE DEF e
<1>9. /\ \A j \in k + 1 .. e : ~ Sep(r[j])
      /\ e = Len(r) \/ Sep(r[e + 1])
  BY <1>8 DEF EndsAt
<1>10. e >= k + 1 /\ e \in Int /\ e \in 1 .. Len(r)
  BY <1>1, <1>2, <1>3, <1>8, <1>9
<1>11. \A d \in 0 .. e - k - 1 : Origin(p, k + 1 + d) = i + 1 + d
  <2>1. 0 \in D
    BY <1>1, <1>3, <1>5
  <2>2. \A d \in 0 .. e - k - 1 - 1 : d \in D => d + 1 \in D
    <3>1. ASSUME NEW d \in 0 .. e - k - 1 - 1, d \in D PROVE d + 1 \in D
      <4> DEFINE l == k + 1 + d
      <4>1. /\ l \in k + 1 .. e /\ l \in 1 .. Len(r) /\ l + 1 \in 1 .. Len(r)
            /\ l + 1 = k + 1 + (d + 1) /\ l < l + 1 /\ d + 1 \in 0 .. Len(r)
            /\ Origin(p, l) = i + 1 + d
        BY <1>1, <1>3, <1>8, <1>10, <3>1
      <4>2. ~ Sep(p[Origin(p, l)])
        BY <1>4, <1>9, <4>1
      <4>3. Origin(p, l) < Len(p)
        <5>1. Origin(p, l) < Origin(p, l + 1) /\ Origin(p, l + 1) \in 1 .. Len(p)
          BY <1>1, <4>1
        <5>2. Origin(p, l) \in Int
          BY <1>1, <4>1
        <5>. QED  BY <5>1, <5>2
      <4> HIDE DEF l
      <4>4. Origin(p, l + 1) = Origin(p, l) + 1
        BY <1>1, <4>1, <4>2, <4>3
      <4>5. Origin(p, k + 1 + (d + 1)) = i + 1 + (d + 1)
        BY <1>1, <1>5, <4>1, <4>4
      <4>. QED  BY <4>1, <4>5
    <3>. QED  BY <3>1
  <2>3. 0 \in Int /\ e - k - 1 \in Int /\ e - k - 1 <= Len(r)
    BY <1>1, <1>3, <1>8, <1>10
  <2> HIDE DEF D
  <2>4. 0 .. e - k - 1 \subseteq D
    BY <2>1, <2>2, <2>3, Climb
  <2>5. ASSUME NEW d \in 0 .. e - k - 1 PROVE Origin(p, k + 1 + d) = i + 1 + d
    <3>1. d \in D /\ k + 1 + d <= e
      BY <1>3, <1>10, <2>4
    <3>. QED  BY <3>1 DEF D
  <2>. QED  BY <2>5
<1>12. Origin(p, e) = f /\ f \in i + 1 .. Len(p) /\ ~ Sep(p[f])
  <2>1. e - k - 1 \in 0 .. e - k - 1 /\ k + 1 + (e - k - 1) = e
        /\ i + 1 + (e - k - 1) = f /\ i + 1 <= f
    BY <1>3, <1>5, <1>10
  <2>2. Origin(p, e) = f
    BY <1>11, <2>1
  <2>3. Origin(p, e) \in 1 .. Len(p) /\ e \in k + 1 .. e
    BY <1>1, <1>3, <1>10
  <2>. QED  BY <1>1, <1>4, <1>5, <1>9, <1>10, <2>1, <2>2, <2>3
<1>13. \A j \in i + 1 .. f : ~ Sep(p[j]) /\ r[k + (j - i)] = p[j]
  <2>1. ASSUME NEW j \in i + 1 .. f PROVE ~ Sep(p[j]) /\ r[k + (j - i)] = p[j]
    <3> DEFINE d == j - i - 1
               l == k + 1 + d
    <3>1. /\ d \in 0 .. e - k - 1 /\ l \in k + 1 .. e /\ l \in 1 .. Len(r)
          /\ i + 1 + d = j /\ l = k + (j - i)
      BY <1>3, <1>5, <1>10
    <3>2. Origin(p, l) = j
      BY <1>11, <3>1
    <3> HIDE DEF l
    <3>. QED  BY <1>4, <1>9, <3>1, <3>2
  <2>. QED  BY <2>1
<1>14. f = Len(p) \/ Sep(p[f + 1])
  <2>1. ASSUME f < Len(p) PROVE Sep(p[f + 1])
    <3>1. e + 1 \in 1 .. Len(r) /\ Origin(p, e + 1) = f + 1
      BY <1>1, <1>10, <1>12, <2>1
    <3>2. Sep(r[e + 1])
      BY <1>1, <1>9, <1>10, <3>1
    <3>. QED  BY <1>4, <3>1, <3>2
  <2>. QED  BY <1>1, <1>5, <1>12, <2>1
<1>15. FirstSep(p, i, FALSE) = f
  <2>1. f \in i .. Len(p) /\ i \in 0 .. Len(p)
    BY <1>1, <1>5, <1>12
  <2>2. EndsAt(p, i, f)
    BY <1>13, <1>14, <2>1 DEF EndsAt
  <2>. QED  BY <2>1, <2>2, EndIs
<1>16. SubSeq(r, k + 1, e) = SubSeq(p, i + 1, f)
  <2> DEFINE a == SubSeq(r, k + 1, e)
             b == SubSeq(p, i + 1, f)
  <2>1. /\ k + 1 \in Int /\ e \in Int /\ 1 <= k + 1 /\ e <= Len(r) /\ k + 1 <= e
        /\ i + 1 \in Int /\ f \in Int /\ 1 <= i + 1 /\ f <= Len(p) /\ i + 1 <= f
        /\ e - (k + 1) + 1 = e - k /\ f - (i + 1) + 1 = e - k
    BY <1>1, <1>3, <1>5, <1>10, <1>12
  <2>2. r \in Seq(Characters) /\ p \in Seq(Characters)
    BY DEF Paths
  <2>3. /\ a \in Seq(Characters) /\ Len(a) = e - k
        /\ \A j \in 1 .. e - k : a[j] = r[k + 1 + j - 1]
    <3> HIDE DEF f
    <3>. QED  BY <2>1, <2>2, Cut
  <2>4. /\ b \in Seq(Characters) /\ Len(b) = e - k
        /\ \A j \in 1 .. e - k : b[j] = p[i + 1 + j - 1]
    <3> HIDE DEF f
    <3>. QED  BY <2>1, <2>2, Cut
  <2>5. ASSUME NEW j \in 1 .. e - k PROVE a[j] = b[j]
    <3> DEFINE x == i + j
    <3>1. x \in i + 1 .. f /\ k + (x - i) = k + 1 + j - 1 /\ x = i + 1 + j - 1
      BY <1>3, <1>5, <1>10
    <3> HIDE DEF x, f
    <3>2. r[k + (x - i)] = p[x]
      BY <1>13, <3>1
    <3>. QED  BY <2>3, <2>4, <3>1, <3>2
  <2> HIDE DEF a, b
  <2>6. a = b
    BY <2>3, <2>4, <2>5
  <2>. QED  BY <2>6 DEF a, b
<1>17. Token(Whole(r), k) = SubSeq(r, k + 1, e)
  BY Zenon DEF Token, Whole, EndOf, e
<1>18. Token(Whole(p), i) = SubSeq(p, i + 1, f)
  BY <1>15, Zenon DEF Token, Whole, EndOf
<1>. QED  BY <1>7, <1>16, <1>17, <1>18 DEF i


LEMMA ComponentsKept ==
  ASSUME NEW p \in Paths
  PROVE  Components(Collapsed(p)) = Components(p)
<1> DEFINE r == Collapsed(p)
           S == Starts(Whole(r))
           T == Starts(Whole(p))
           n == Len(r) - 1
           g == [k \in S |-> Origin(p, k + 1) - 1]
<1>1. r \in Paths /\ Len(r) \in Nat
  BY CollapsedIs
<1>2. /\ Len(r) \in Nat /\ Len(p) \in Nat
      /\ \A l \in 1 .. Len(r) : Origin(p, l) \in 1 .. Len(p) /\ r[l] = Native(p[Origin(p, l)])
      /\ \A l, m \in 1 .. Len(r) : l < m => Origin(p, l) < Origin(p, m)
      /\ \A l \in 1 .. Len(r) : Origin(p, 1) = 1
      /\ \A x \in 1 .. Len(p) : ~ Sep(p[x]) => \E l \in 1 .. Len(r) : Origin(p, l) = x
      /\ \A l \in 1 .. Len(r) : ~ Sep(p[Origin(p, l)]) /\ Origin(p, l) < Len(p) =>
           l + 1 \in 1 .. Len(r) /\ Origin(p, l + 1) = Origin(p, l) + 1
  BY <1>1, OriginsAre
<1>3. \A k \in S : /\ Origin(p, k + 1) - 1 \in T
                   /\ Token(Whole(r), k) = Token(Whole(p), Origin(p, k + 1) - 1)
  BY <1>1, TokenKept
<1>4. /\ S \subseteq 0 .. n
      /\ \A i \in 0 .. n : i \in S <=> ~ Sep(r[i + 1]) /\ (i = 0 \/ Sep(r[i]))
  BY <1>1, StartsAre
<1>5. /\ T \subseteq 0 .. Len(p) - 1
      /\ \A i \in 0 .. Len(p) - 1 : i \in T <=> ~ Sep(p[i + 1]) /\ (i = 0 \/ Sep(p[i]))
  BY StartsAre
<1>6. Components(r) = [k \in 1 .. Cardinality(S) |-> Token(Whole(r), Nth(S, k))]
  BY <1>1, ComponentsAre
<1>7. Components(p) = [k \in 1 .. Cardinality(T) |-> Token(Whole(p), Nth(T, k))]
  BY ComponentsAre
<1>8. \A l \in 1 .. Len(r) : Sep(r[l]) <=> Sep(p[Origin(p, l)])
  BY <1>2, NativeIs
<1> HIDE DEF r, S, T
<1>9. 0 \in Int /\ n \in Int /\ T \subseteq Int /\ \A k \in S : k \in Int /\ k + 1 \in 1 .. Len(r)
  BY <1>1, <1>4, <1>5
<1>10. g \in [S -> T] /\ DOMAIN g = S /\ \A k \in S : g[k] = Origin(p, k + 1) - 1
  BY <1>3
<1> HIDE DEF g
<1>11. Rising(g)
  <2>1. ASSUME NEW x \in S, NEW y \in S, x < y PROVE g[x] < g[y]
    <3>1. x + 1 \in 1 .. Len(r) /\ y + 1 \in 1 .. Len(r) /\ x + 1 < y + 1
      BY <1>9, <2>1
    <3>2. /\ Origin(p, x + 1) < Origin(p, y + 1)
          /\ Origin(p, x + 1) \in Int /\ Origin(p, y + 1) \in Int
      BY <1>2, <3>1
    <3>. QED  BY <1>10, <3>2
  <2>. QED  BY <1>10, <2>1, Zenon DEF Rising
<1>12. Onto(g, T)
  <2>1. ASSUME NEW i \in T PROVE \E k \in S : g[k] = i
    <3>1. i \in 0 .. Len(p) - 1 /\ ~ Sep(p[i + 1]) /\ (i = 0 \/ Sep(p[i]))
      BY <1>5
    <3>2. i \in Int /\ i + 1 \in 1 .. Len(p) /\ (i # 0 => i \in 1 .. Len(p))
      BY <1>2, <3>1
    <3>3. PICK l \in 1 .. Len(r) : Origin(p, l) = i + 1
      BY <1>2, <3>1, <3>2
    <3> DEFINE k == l - 1
    <3>4. k \in 0 .. n /\ k + 1 = l /\ k \in Int
      BY <1>2, <3>3
    <3> HIDE DEF k
    <3>5. ~ Sep(r[k + 1])
      BY <1>8, <3>1, <3>3, <3>4
    <3>6. ASSUME k # 0 PROVE Sep(r[k])
      <4>1. k \in 1 .. Len(r) /\ 1 \in 1 .. Len(r) /\ k < l
        BY <1>2, <3>3, <3>4, <3>6
      <4>2. /\ Origin(p, k) < i + 1 /\ Origin(p, k) \in 1 .. Len(p)
        BY <1>2, <3>3, <4>1
      <4>3. ASSUME ~ Sep(p[Origin(p, k)]) PROVE FALSE
        <5>1. Origin(p, k) < Len(p)
          BY <1>2, <3>2, <4>2
        <5>2. Origin(p, k + 1) = Origin(p, k) + 1
          BY <1>2, <4>1, <4>3, <5>1
        <5>3. Origin(p, k) = i
          BY <3>2, <3>3, <3>4, <4>2, <5>2
        <5>4. i # 0
          BY <4>2, <5>3
        <5>. QED  BY <3>1, <4>3, <5>3, <5>4
      <4>. QED  BY <1>8, <4>1, <4>3
    <3>7. k \in S
      BY <1>4, <3>4, <3>5, <3>6
    <3>8. g[k] = i
      BY <1>10, <3>2, <3>3, <3>4, <3>7
    <3>. QED  BY <3>7, <3>8
  <2>. QED  BY <1>10, <2>1, Zenon DEF Onto
<1>13. /\ Cardinality(T) = Cardinality(S)
       /\ \A k \in 1 .. Cardinality(S) : Nth(T, k) = g[Nth(S, k)] /\ Nth(S, k) \in S
  <2> HIDE DEF n
  <2>1. 0 \in Int /\ n \in Int /\ S \subseteq 0 .. n /\ T \subseteq Int
    BY <1>4, <1>9
  <2>2. g \in [S -> T] /\ Onto(g, T) /\ Rising(g)
    BY <1>10, <1>11, <1>12
  <2>. QED  BY <2>1, <2>2, NthMatched
<1>14. \A k \in 1 .. Cardinality(S) : Token(Whole(r), Nth(S, k)) = Token(Whole(p), Nth(T, k))
  BY <1>3, <1>10, <1>13
<1>15. Components(r) = Components(p)
  BY <1>6, <1>7, <1>13, <1>14
<1>. QED  BY <1>15 DEF r

(* Normalizing twice is normalizing once, on both platforms, and does not  *)
(* change whether the path is rooted; and on Unix, or without a root, it   *)
(* leaves the components of the path as they are, with one separator       *)
(* between two of them.                                                    *)
THEOREM NormalizedOnce == Spec => []NormalizesOnce
<1>1. PathType => NormalizesOnce
  <2>1. SUFFICES ASSUME PathType PROVE NormalizesOnce
    OBVIOUS
  <2>2. path \in Paths
    BY <2>1 DEF PathType
  <2>3. /\ Normalize(Normalize(path)) = Normalize(path)
        /\ IsRooted(Normalize(path)) = IsRooted(path)
        /\ ~ (Windows /\ IsRooted(path)) =>
             Tidy(Normalize(path)) /\ Normalize(path) = Collapsed(path)
    BY <2>2, NormalizeTwice
  <2>4. Components(Collapsed(path)) = Components(path)
    BY <2>2, ComponentsKept
  <2>5. ~ (Windows /\ IsRooted(path)) => Components(Normalize(path)) = Components(path)
    BY <2>3, <2>4
  <2>. QED  BY <2>3, <2>5, Zenon DEF NormalizesOnce
<1>. QED  BY <1>1, PathsOnly, PTL


---------------------------------------------------------------------------
(* The tokenizers: what is left of t after one component is the tokenizer  *)
(* of the other ones.                                                      *)
Marks      == BOOLEAN
Tokenizers == [verbatim : Marks, left : Paths]

LEMMA BeginningsAre ==
  ASSUME NEW t \in Tokenizers
  PROVE  /\ t.left \in Paths /\ Len(t.left) \in Nat
         /\ Starts(t) \subseteq 0 .. Len(t.left) - 1
         /\ \A i \in 0 .. Len(t.left) - 1 :
              i \in Starts(t) <=> /\ ~ IsDirsep(t.left[i + 1], t.verbatim)
                                  /\ i = 0 \/ IsDirsep(t.left[i], t.verbatim)
<1> DEFINE Apart(c) == IsDirsep(c, t.verbatim)
           p == t.left
<1>1. p \in Paths /\ Len(p) \in Nat
  BY DEF Tokenizers, Paths
<1>2. Starts(t) = {i \in 0 .. Len(p) - 1 : ~ Apart(At(p, i)) /\ (i = 0 \/ Apart(At(p, i - 1)))}
  BY Zenon DEF Starts
<1> HIDE DEF Apart, p
<1>3. \A i \in 0 .. Len(p) - 1 : At(p, i) = p[i + 1] /\ At(p, i - 1) = p[i]
  <2>1. \A i \in 0 .. Len(p) - 1 : i \in Int /\ i - 1 + 1 = i
    BY <1>1
  <2>. QED  BY <2>1 DEF At
<1>4. /\ Starts(t) \subseteq 0 .. Len(p) - 1
      /\ \A i \in 0 .. Len(p) - 1 : i \in Starts(t) <=> ~ Apart(p[i + 1]) /\ (i = 0 \/ Apart(p[i]))
  BY <1>2, <1>3
<1>. QED  BY <1>1, <1>4 DEF Apart, p

(* A component and its end.                                                *)
LEMMA TokenIs ==
  ASSUME NEW t \in Tokenizers, NEW i \in Starts(t)
  PROVE  /\ EndOf(t, i) \in i + 1 .. Len(t.left)
         /\ EndsBy(t.left, t.verbatim, i, EndOf(t, i))
         /\ \A e : EndsBy(t.left, t.verbatim, i, e) => e = EndOf(t, i)
         /\ Token(t, i) \in Paths /\ Token(t, i) # <<>> /\ Len(Token(t, i)) = EndOf(t, i) - i
         /\ \A j \in 1 .. EndOf(t, i) - i : Token(t, i)[j] = t.left[i + j]
<1> DEFINE p == t.left
           v == t.verbatim
           e == EndOf(t, i)
<1>1. /\ p \in Paths /\ Len(p) \in Nat /\ i \in 0 .. Len(p) - 1
      /\ ~ IsDirsep(p[i + 1], v)
  BY BeginningsAre
<1>2. i \in 0 .. Len(p) /\ i \in Int
  BY <1>1
<1>3. /\ e \in i .. Len(p) /\ EndsBy(p, v, i, e)
      /\ \A x : EndsBy(p, v, i, x) => x = e
  BY <1>1, <1>2, EndIn DEF EndOf
<1> HIDE DEF e, p, v
<1>4. e # i
  <2>1. e = Len(p) \/ IsDirsep(p[e + 1], v)
    BY <1>3 DEF EndsBy
  <2>. QED  BY <1>1, <2>1
<1>5. e \in i + 1 .. Len(p) /\ e \in Int
  BY <1>1, <1>3, <1>4
<1>6. Token(t, i) = SubSeq(p, i + 1, e)
  BY Zenon DEF Token, p, e
<1>7. /\ SubSeq(p, i + 1, e) \in Paths /\ Len(SubSeq(p, i + 1, e)) = e - i
      /\ \A j \in 1 .. e - i : SubSeq(p, i + 1, e)[j] = p[i + j]
  <2> DEFINE m == i + 1
  <2>1. /\ m \in Int /\ e \in Int /\ 1 <= m /\ e <= Len(p) /\ m <= e /\ e - m + 1 = e - i
        /\ \A j \in 1 .. e - i : m + j - 1 = i + j
    BY <1>1, <1>5
  <2> HIDE DEF m
  <2>2. /\ SubSeq(p, m, e) \in Paths
        /\ Len(SubSeq(p, m, e)) = IF m <= e THEN e - m + 1 ELSE 0
        /\ \A j \in 1 .. e - m + 1 : SubSeq(p, m, e)[j] = p[m + j - 1]
    BY <1>1, <2>1, Cut DEF Paths
  <2>3. /\ SubSeq(p, m, e) \in Paths /\ Len(SubSeq(p, m, e)) = e - i
        /\ \A j \in 1 .. e - i : SubSeq(p, m, e)[j] = p[i + j]
    BY <2>1, <2>2
  <2>. QED  BY <2>3 DEF m
<1>8. Token(t, i) # <<>>
  <2>1. Len(Token(t, i)) > 0
    BY <1>1, <1>5, <1>6, <1>7
  <2>. QED  BY <2>1
<1>. QED  BY <1>3, <1>5, <1>6, <1>7, <1>8 DEF e, p, v

LEMMA SameToken ==
  ASSUME NEW t \in Tokenizers, NEW s \in Tokenizers, s.verbatim = t.verbatim,
         NEW i \in Starts(t), NEW j \in Starts(s), NEW e,
         EndsBy(s.left, s.verbatim, j, e), e - j = EndOf(t, i) - i,
         \A d \in 1 .. EndOf(t, i) - i : s.left[j + d] = t.left[i + d]
  PROVE  EndOf(s, j) = e /\ Token(s, j) = Token(t, i) /\ (IsDot(s, j) <=> IsDot(t, i))
<1>1. EndOf(s, j) = e
  BY TokenIs
<1>2. Token(s, j) = Token(t, i)
  <2>1. /\ Token(s, j) \in Paths /\ Len(Token(s, j)) = e - j
        /\ \A d \in 1 .. e - j : Token(s, j)[d] = s.left[j + d]
    BY <1>1, TokenIs
  <2>2. /\ Token(t, i) \in Paths /\ Len(Token(t, i)) = EndOf(t, i) - i
        /\ \A d \in 1 .. EndOf(t, i) - i : Token(t, i)[d] = t.left[i + d]
    BY TokenIs
  <2>3. \A d \in 1 .. EndOf(t, i) - i : Token(s, j)[d] = Token(t, i)[d]
    BY <2>1, <2>2
  <2> DEFINE a == Token(s, j)
             b == Token(t, i)
  <2>4. a \in Seq(Characters) /\ b \in Seq(Characters) /\ Len(a) = Len(b)
        /\ \A d \in 1 .. Len(b) : a[d] = b[d]
    BY <2>1, <2>2, <2>3 DEF Paths
  <2> HIDE DEF a, b
  <2>5. a = b
    BY <2>4
  <2>. QED  BY <2>5 DEF a, b
<1>. QED  BY <1>1, <1>2, Zenon DEF IsDot


(* What TokenNext leaves when it has read the component at m.              *)
After(t, m) == [t EXCEPT !.left = From(@, EndOf(t, m))]

LEMMA AfterIs ==
  ASSUME NEW t \in Tokenizers, NEW m \in Starts(t)
  PROVE  /\ After(t, m) \in Tokenizers /\ EndOf(t, m) \in Int /\ m < EndOf(t, m)
         /\ Len(After(t, m).left) = Len(t.left) - EndOf(t, m)
         /\ \A j \in Starts(After(t, m)) : j + EndOf(t, m) \in Starts(t) /\ j + EndOf(t, m) > m
         /\ \A i \in Starts(t) : i > m =>
              /\ i - EndOf(t, m) \in Starts(After(t, m))
              /\ EndOf(After(t, m), i - EndOf(t, m)) = EndOf(t, i) - EndOf(t, m)
              /\ Token(After(t, m), i - EndOf(t, m)) = Token(t, i)
              /\ IsDot(After(t, m), i - EndOf(t, m)) <=> IsDot(t, i)
<1> DEFINE p == t.left
           v == t.verbatim
           e == EndOf(t, m)
           r == After(t, m)
           q == From(p, e)
           Apart(c) == IsDirsep(c, v)
<1>1. /\ p \in Paths /\ Len(p) \in Nat /\ Starts(t) \subseteq 0 .. Len(p) - 1
      /\ \A i \in 0 .. Len(p) - 1 : i \in Starts(t) <=> ~ Apart(p[i + 1]) /\ (i = 0 \/ Apart(p[i]))
  BY BeginningsAre
<1>2. e \in m + 1 .. Len(p) /\ EndsBy(p, v, m, e)
  BY TokenIs
<1>3. m \in Int /\ 0 <= m /\ e \in Int /\ e \in 0 .. Len(p) /\ m < e
  <2> HIDE DEF e
  <2>. QED  BY <1>1, <1>2
<1>4. /\ \A j \in m + 1 .. e : ~ Apart(p[j])
      /\ e = Len(p) \/ Apart(p[e + 1])
  BY <1>2, Zenon DEF EndsBy
<1>5. q \in Paths /\ Len(q) = Len(p) - e /\ \A i \in 1 .. Len(p) - e : q[i] = p[e + i]
  <2> HIDE DEF e, p
  <2>. QED  BY <1>1, <1>3, FromIs DEF Paths
<1>6. r \in Tokenizers /\ r.left = q /\ r.verbatim = v
  <2>1. r = [t EXCEPT !.left = q]
    BY Zenon DEF After
  <2> HIDE DEF q, r
  <2>. QED  BY <1>5, <2>1 DEF Tokenizers
<1>7. /\ Starts(r) \subseteq 0 .. Len(q) - 1
      /\ \A i \in 0 .. Len(q) - 1 : i \in Starts(r) <=> ~ Apart(q[i + 1]) /\ (i = 0 \/ Apart(q[i]))
  <2>1. /\ Starts(r) \subseteq 0 .. Len(r.left) - 1
        /\ \A i \in 0 .. Len(r.left) - 1 :
              i \in Starts(r) <=> /\ ~ IsDirsep(r.left[i + 1], r.verbatim)
                                  /\ i = 0 \/ IsDirsep(r.left[i], r.verbatim)
    BY <1>6, BeginningsAre
  <2>. QED  BY <1>6, <2>1
<1> HIDE DEF p, v, e, r, q, Apart
<1>8. ASSUME NEW j \in Starts(r) PROVE j + e \in Starts(t) /\ j + e > m
  <2>1. j \in 0 .. Len(q) - 1 /\ ~ Apart(q[j + 1]) /\ (j = 0 \/ Apart(q[j]))
    BY <1>7
  <2>2. /\ j \in Int /\ 0 <= j /\ j + e \in 0 .. Len(p) - 1 /\ j + e > m /\ e # Len(p)
        /\ j + 1 \in 1 .. Len(p) - e /\ e + (j + 1) = j + e + 1
        /\ j # 0 => j \in 1 .. Len(p) - e /\ e + j = j + e
    BY <1>1, <1>3, <1>5, <2>1
  <2>3. ~ Apart(p[j + e + 1])
    BY <1>5, <2>1, <2>2
  <2>4. j # 0
    BY <1>3, <1>4, <2>2, <2>3
  <2>5. Apart(p[j + e])
    BY <1>5, <2>1, <2>2, <2>4
  <2>. QED  BY <1>1, <2>2, <2>3, <2>5
<1>9. ASSUME NEW i \in Starts(t), i > m
      PROVE  /\ i - e \in Starts(r)
             /\ EndOf(r, i - e) = EndOf(t, i) - e
             /\ Token(r, i - e) = Token(t, i)
             /\ IsDot(r, i - e) <=> IsDot(t, i)
  <2> DEFINE j == i - e
             f == EndOf(t, i)
             g == f - e
  <2>1. i \in 0 .. Len(p) - 1 /\ ~ Apart(p[i + 1]) /\ (i = 0 \/ Apart(p[i]))
    BY <1>1
  <2>2. i \in Int /\ i > e
    <3>1. i \in Int /\ i # 0 /\ i \in m + 1 .. Len(p)
      BY <1>1, <1>3, <1>9, <2>1
    <3>2. i \notin m + 1 .. e
      BY <1>4, <2>1, <3>1
    <3>. QED  BY <1>3, <3>1, <3>2
  <2>3. /\ j \in 0 .. Len(q) - 1 /\ j # 0 /\ j \in 1 .. Len(p) - e /\ j + 1 \in 1 .. Len(p) - e
        /\ e + j = i /\ e + (j + 1) = i + 1
    BY <1>1, <1>3, <1>5, <2>1, <2>2
  <2>4. j \in Starts(r)
    <3> HIDE DEF j
    <3>1. q[j] = p[i] /\ q[j + 1] = p[i + 1]
      BY <1>5, <2>3
    <3>2. i # 0
      BY <1>3, <2>2
    <3>. QED  BY <1>7, <2>1, <2>3, <3>1, <3>2
  <2>5. f \in i + 1 .. Len(p) /\ EndsBy(p, v, i, f)
    BY TokenIs DEF p, v
  <2>6. /\ \A x \in i + 1 .. f : ~ Apart(p[x])
        /\ f = Len(p) \/ Apart(p[f + 1])
    BY <2>5, Zenon DEF EndsBy, Apart
  <2> HIDE DEF f
  <2>7. f \in Int /\ g \in j .. Len(q) /\ g - j = f - i /\ (f # Len(p) => g + 1 \in 1 .. Len(p) - e)
        /\ e + (g + 1) = f + 1 /\ e + g = f
    <3>1. f \in i + 1 .. Len(p)
      BY <2>5
    <3>2. f \in Int /\ i < f /\ f <= Len(p) /\ Len(p) \in Int /\ Len(q) = Len(p) - e /\ e \in Int
          /\ 0 <= e /\ i \in Int /\ e < i
      BY <1>1, <1>3, <1>5, <2>2, <3>1
    <3>. QED  BY <3>2
  <2>8. \A x \in j + 1 .. g : ~ Apart(q[x])
    <3>1. ASSUME NEW x \in j + 1 .. g PROVE ~ Apart(q[x])
      <4>1. x \in 1 .. Len(p) - e /\ e + x \in i + 1 .. f
        BY <1>3, <1>5, <2>2, <2>3, <2>7
      <4>. QED  BY <1>5, <2>6, <4>1
    <3>. QED  BY <3>1
  <2>9. g = Len(q) \/ Apart(q[g + 1])
    <3>1. f = Len(p) => g = Len(q)
      BY <1>5
    <3>2. f # Len(p) => q[g + 1] = p[f + 1]
      <4> HIDE DEF g
      <4>. QED  BY <1>5, <2>7
    <3>. QED  BY <2>6, <3>1, <3>2
  <2>10. \A d \in 1 .. f - i : q[j + d] = p[i + d]
    <3>1. ASSUME NEW d \in 1 .. f - i PROVE q[j + d] = p[i + d]
      <4> DEFINE x == j + d
      <4>1. x \in 1 .. Len(p) - e /\ e + x = i + d
        BY <1>1, <1>3, <2>2, <2>5, <2>7
      <4> HIDE DEF x
      <4>2. q[x] = p[e + x]
        BY <1>5, <4>1
      <4>. QED  BY <4>1, <4>2 DEF x
    <3>. QED  BY <3>1
  <2> HIDE DEF g, j
  <2>11. EndsBy(q, v, j, g)
    BY <2>7, <2>8, <2>9, Zenon DEF EndsBy, Apart
  <2>12. EndOf(r, j) = g /\ Token(r, j) = Token(t, i) /\ (IsDot(r, j) <=> IsDot(t, i))
    <3>1. r.verbatim = t.verbatim /\ EndsBy(r.left, r.verbatim, j, g)
      BY <1>6, <2>11 DEF v
    <3>2. /\ g - j = EndOf(t, i) - i
          /\ \A d \in 1 .. EndOf(t, i) - i : r.left[j + d] = t.left[i + d]
      BY <1>6, <2>7, <2>10 DEF f, p
    <3>. QED  BY <1>6, <2>4, <3>1, <3>2, SameToken
  <2>. QED  BY <2>4, <2>12 DEF j, g, f
<1>. QED  BY <1>3, <1>5, <1>6, <1>8, <1>9 DEF p, e, r


(* What TokenNextBack leaves when it has read the component at m.          *)
Before(t, m) == [t EXCEPT !.left = Upto(@, m)]

LEMMA BeforeIs ==
  ASSUME NEW t \in Tokenizers, NEW m \in Starts(t)
  PROVE  /\ Before(t, m) \in Tokenizers
         /\ \A i \in Starts(Before(t, m)) : i \in Starts(t) /\ i < m
         /\ \A i \in Starts(t) : i < m =>
              /\ i \in Starts(Before(t, m))
              /\ Token(Before(t, m), i) = Token(t, i)
              /\ IsDot(Before(t, m), i) <=> IsDot(t, i)
<1> DEFINE p == t.left
           v == t.verbatim
           r == Before(t, m)
           q == Upto(p, m)
           Apart(c) == IsDirsep(c, v)
<1>1. /\ p \in Paths /\ Len(p) \in Nat /\ Starts(t) \subseteq 0 .. Len(p) - 1
      /\ \A i \in 0 .. Len(p) - 1 : i \in Starts(t) <=> ~ Apart(p[i + 1]) /\ (i = 0 \/ Apart(p[i]))
  BY BeginningsAre
<1>2. m \in 0 .. Len(p) - 1 /\ (m = 0 \/ Apart(p[m]))
  BY <1>1
<1>3. m \in Int /\ 0 <= m /\ m \in 0 .. Len(p)
  BY <1>1, <1>2
<1>4. q \in Paths /\ Len(q) = m /\ \A i \in 1 .. m : q[i] = p[i]
  <2> HIDE DEF p
  <2>. QED  BY <1>1, <1>3, UptoIs DEF Paths
<1>5. r \in Tokenizers /\ r.left = q /\ r.verbatim = v
  <2>1. r = [t EXCEPT !.left = q]
    BY Zenon DEF Before
  <2> HIDE DEF q, r
  <2>. QED  BY <1>4, <2>1 DEF Tokenizers
<1>6. /\ Starts(r) \subseteq 0 .. m - 1
      /\ \A i \in 0 .. m - 1 : i \in Starts(r) <=> ~ Apart(q[i + 1]) /\ (i = 0 \/ Apart(q[i]))
  <2>1. /\ Starts(r) \subseteq 0 .. Len(r.left) - 1
        /\ \A i \in 0 .. Len(r.left) - 1 :
              i \in Starts(r) <=> /\ ~ IsDirsep(r.left[i + 1], r.verbatim)
                                  /\ i = 0 \/ IsDirsep(r.left[i], r.verbatim)
    BY <1>5, BeginningsAre
  <2>. QED  BY <1>4, <1>5, <2>1
<1> HIDE DEF p, v, r, q, Apart
<1>7. \A i \in 0 .. m - 1 : /\ i \in 0 .. Len(p) - 1 /\ q[i + 1] = p[i + 1]
                            /\ i # 0 => q[i] = p[i]
  <2>1. \A i \in 0 .. m - 1 : i \in 0 .. Len(p) - 1 /\ i + 1 \in 1 .. m /\ (i # 0 => i \in 1 .. m)
    BY <1>1, <1>3
  <2>. QED  BY <1>4, <2>1
<1>8. \A i \in 0 .. m - 1 : i \in Starts(r) <=> i \in Starts(t)
  BY <1>1, <1>6, <1>7
<1>9. ASSUME NEW i \in Starts(t), i < m
      PROVE  /\ i \in Starts(r) /\ Token(r, i) = Token(t, i)
             /\ IsDot(r, i) <=> IsDot(t, i)
  <2> DEFINE f == EndOf(t, i)
  <2>1. i \in Int /\ 0 <= i /\ i \in 0 .. m - 1 /\ i \in Starts(r)
    BY <1>1, <1>3, <1>8, <1>9
  <2>2. f \in i + 1 .. Len(p) /\ EndsBy(p, v, i, f)
    BY TokenIs DEF p, v
  <2>3. /\ \A x \in i + 1 .. f : ~ Apart(p[x])
        /\ f = Len(p) \/ Apart(p[f + 1])
    BY <2>2, Zenon DEF EndsBy, Apart
  <2> HIDE DEF f
  <2>4. f \in Int /\ f < m
    <3>1. f \in Int
      BY <1>1, <2>1, <2>2
    <3>2. m # 0 /\ (~ f < m => m \in i + 1 .. f)
      BY <1>3, <1>9, <2>1, <3>1
    <3>. QED  BY <1>2, <2>3, <3>1, <3>2
  <2>5. f \in i .. m /\ f + 1 \in 1 .. m /\ f # Len(p) /\ \A x \in i + 1 .. f : x \in 1 .. m
    BY <1>1, <1>3, <2>1, <2>2, <2>4
  <2>6. EndsBy(q, v, i, f)
    <3>1. \A x \in i + 1 .. f : ~ Apart(q[x])
      BY <1>4, <2>3, <2>5
    <3>2. Apart(q[f + 1])
      BY <1>4, <2>3, <2>5
    <3>. QED  BY <1>4, <2>5, <3>1, <3>2, Zenon DEF EndsBy, Apart
  <2>7. \A d \in 1 .. f - i : q[i + d] = p[i + d]
    <3>1. \A d \in 1 .. f - i : i + d \in 1 .. m
      BY <2>1, <2>4, <2>5
    <3>. QED  BY <1>4, <3>1
  <2>8. r.verbatim = t.verbatim /\ EndsBy(r.left, r.verbatim, i, f) /\ f - i = EndOf(t, i) - i
        /\ \A d \in 1 .. EndOf(t, i) - i : r.left[i + d] = t.left[i + d]
    BY <1>5, <2>6, <2>7 DEF f, p, v
  <2>. QED  BY <1>5, <2>1, <2>8, SameToken
<1>10. \A i \in Starts(r) : i \in Starts(t) /\ i < m
  <2>1. \A i \in Starts(r) : i \in 0 .. m - 1 /\ i < m
    BY <1>3, <1>6
  <2>. QED  BY <1>8, <2>1
<1>. QED  BY <1>5, <1>9, <1>10 DEF r

---------------------------------------------------------------------------
(* What the numbers in S are when the first or the last of them is gone,   *)
(* and the others are counted from another one.                            *)
IsFirst(S, m) == m \in S /\ \A x \in S : m <= x
IsLast(S, m)  == m \in S /\ \A x \in S : x <= m

WithoutFirst(S, m) ==
  /\ 1 \in 1 .. Cardinality(S) /\ Nth(S, 1) = m
  /\ Cardinality(S \ {m}) = Cardinality(S) - 1
  /\ \A k \in 1 .. Cardinality(S) - 1 : Nth(S \ {m}, k) = Nth(S, k + 1)

WithoutLast(S, m) ==
  /\ Cardinality(S) \in 1 .. Cardinality(S) /\ Nth(S, Cardinality(S)) = m
  /\ Cardinality(S \ {m}) = Cardinality(S) - 1
  /\ \A k \in 1 .. Cardinality(S) - 1 : Nth(S \ {m}, k) = Nth(S, k)

LEMMA FirstGone ==
  ASSUME NEW a \in Int, NEW b \in Int, NEW S, Within(S, a, b), NEW m, IsFirst(S, m)
  PROVE  WithoutFirst(S, m)
<1> DEFINE T == S \ {m}
           n == Cardinality(S)
<1>0. S \subseteq a .. b /\ m \in S /\ \A x \in S : m <= x
  BY DEF Within, IsFirst
<1>1. /\ S \subseteq Int /\ IsFiniteSet(S) /\ n \in Nat /\ \A x \in S : a <= x /\ x \in Int
  BY <1>0, InOrderIs
<1>2. T \subseteq Int /\ IsFiniteSet(T) /\ Cardinality(T) = n - 1
  <2>1. IsFiniteSet(T) /\ Cardinality(T) = n - 1
    BY <1>0, <1>1, FS_RemoveElement
  <2>. QED  BY <1>1, <2>1
<1>3. 1 \in 1 .. n /\ Nth(S, 1) = m
  <2>1. S \subseteq m .. b
    <3>1. \A x \in S : x <= b
      BY <1>0
    <3>. QED  BY <1>0, <1>1, <3>1
  <2>2. m \in Int
    BY <1>0, <1>1
  <2>. QED  BY <1>0, <2>1, <2>2, NthFirst
<1>4. ASSUME NEW k \in 1 .. n - 1 PROVE Nth(T, k) = Nth(S, k + 1)
  <2> DEFINE l == k + 1
             x == Nth(S, l)
             X == {z \in S : z < x}
             Y == {z \in T : z < x}
  <2>1. l \in 1 .. n /\ l - 1 = k /\ 1 < l
    BY <1>1
  <2>2. x \in S /\ Cardinality(X) = l - 1
    <3> HIDE DEF l
    <3>. QED  BY <1>1, <2>1, NthIs
  <2>3. m < x
    <3> HIDE DEF l
    <3>. QED  BY <1>1, <1>3, <2>1, NthOrder
  <2> HIDE DEF x
  <2>4. IsFiniteSet(X) /\ m \in X
    BY <1>0, <1>1, <2>3, BelowFinite
  <2>5. Y = X \ {m}
    OBVIOUS
  <2>6. Cardinality(X \ {m}) = k - 1
    <3> HIDE DEF X
    <3>1. Cardinality(X \ {m}) = Cardinality(X) - 1
      BY <2>4, FS_RemoveElement
    <3>. QED  BY <2>1, <2>2, <3>1
  <2>7. x \in T /\ Cardinality({z \in T : z < x}) = k - 1
    BY <1>1, <2>2, <2>3, <2>5, <2>6
  <2> HIDE DEF T
  <2>8. Nth(T, k) = x
    BY <1>2, <2>7, NthOne
  <2>. QED  BY <2>8 DEF x
<1>. QED  BY <1>2, <1>3, <1>4 DEF WithoutFirst

LEMMA LastGone ==
  ASSUME NEW a \in Int, NEW b \in Int, NEW S, Within(S, a, b), NEW m, IsLast(S, m)
  PROVE  WithoutLast(S, m)
<1> DEFINE T == S \ {m}
           n == Cardinality(S)
<1>0. S \subseteq a .. b /\ m \in S /\ \A x \in S : x <= m
  BY DEF Within, IsLast
<1>1. /\ S \subseteq Int /\ IsFiniteSet(S) /\ n \in Nat /\ \A x \in S : a <= x /\ x \in Int
  BY <1>0, InOrderIs
<1>2. T \subseteq Int /\ IsFiniteSet(T) /\ Cardinality(T) = n - 1
  <2>1. IsFiniteSet(T) /\ Cardinality(T) = n - 1
    BY <1>0, <1>1, FS_RemoveElement
  <2>. QED  BY <1>1, <2>1
<1>3. PICK j \in 1 .. n : Nth(S, j) = m
  BY <1>0, <1>1, PlaceOf
<1>4. n \in 1 .. n /\ Nth(S, n) = m
  <2>1. n \in 1 .. n
    BY <1>1
  <2>2. Nth(S, n) \in S
    BY <1>0, <1>1, <2>1, InOrderIs
  <2>3. j < n => Nth(S, j) < Nth(S, n)
    BY <1>1, <2>1, NthOrder
  <2>4. Nth(S, n) <= m /\ Nth(S, n) \in Int /\ m \in Int
    BY <1>0, <1>1, <2>2
  <2>5. j = n
    BY <1>1, <1>3, <2>3, <2>4
  <2>. QED  BY <1>3, <2>1, <2>5
<1>5. ASSUME NEW k \in 1 .. n - 1 PROVE Nth(T, k) = Nth(S, k)
  <2> DEFINE x == Nth(S, k)
  <2>1. k \in 1 .. n /\ k < n
    BY <1>1
  <2>2. x \in S /\ Cardinality({z \in S : z < x}) = k - 1
    BY <1>1, <2>1, NthIs
  <2>3. x < m
    BY <1>1, <1>4, <2>1, NthOrder
  <2> HIDE DEF x
  <2>4. {z \in T : z < x} = {z \in S : z < x}
    BY <1>0, <1>1, <2>2, <2>3
  <2>5. x \in T /\ Cardinality({z \in T : z < x}) = k - 1
    BY <1>1, <2>2, <2>3, <2>4
  <2> HIDE DEF T
  <2>6. Nth(T, k) = x
    BY <1>2, <2>5, NthOne
  <2>. QED  BY <2>6 DEF x
<1>. QED  BY <1>2, <1>4, <1>5 DEF WithoutLast


---------------------------------------------------------------------------
(* TokenNext takes the first of the components it is asked for, and        *)
(* TokenNextBack the last.                                                 *)
RealOf(t, asked) ==
  {i \in Starts(t) : IsDot(t, i) => IF asked = "starts" THEN EndOf(t, i) = Len(t.left)
                                    ELSE i = 0}

LEMMA KeptAre ==
  ASSUME NEW t \in Tokenizers, NEW asked
  PROVE  /\ RealOf(t, asked) \subseteq 0 .. Len(t.left) - 1 /\ Len(t.left) - 1 \in Int
         /\ Len(Kept(t, asked)) = Cardinality(RealOf(t, asked))
         /\ Len(Kept(t, asked)) \in Nat /\ Kept(t, asked) \in Seq(Paths)
         /\ RealOf(t, asked) \subseteq Starts(t)
         /\ \A k \in 1 .. Len(Kept(t, asked)) :
              /\ Nth(RealOf(t, asked), k) \in RealOf(t, asked)
              /\ Kept(t, asked)[k] = Token(t, Nth(RealOf(t, asked), k))
              /\ Kept(t, asked)[k] # <<>> /\ Kept(t, asked)[k] \in Paths
<1> DEFINE S == RealOf(t, asked)
           n == Len(t.left) - 1
           c == Kept(t, asked)
<1>1. Starts(t) \subseteq 0 .. n /\ n \in Int /\ 0 \in Int
  BY BeginningsAre
<1>2. S \subseteq Starts(t)
  BY DEF RealOf
<1>3. c = [k \in DOMAIN InOrder(S) |-> Token(t, InOrder(S)[k])]
  BY Zenon DEF Kept, RealOf
<1>4. \A i \in Starts(t) : Token(t, i) \in Paths /\ Token(t, i) # <<>>
  BY TokenIs
<1> HIDE DEF S, n, c
<1>5. /\ Cardinality(S) \in Nat /\ DOMAIN InOrder(S) = 1 .. Cardinality(S)
      /\ \A k \in 1 .. Cardinality(S) : InOrder(S)[k] = Nth(S, k) /\ Nth(S, k) \in S
  <2>1. S \subseteq 0 .. n
    BY <1>1, <1>2
  <2>. QED  BY <1>1, <2>1, InOrderIs
<1>6. c = [k \in 1 .. Cardinality(S) |-> Token(t, Nth(S, k))]
  BY <1>3, <1>5
<1>7. \A k \in 1 .. Cardinality(S) : Token(t, Nth(S, k)) \in Paths /\ Token(t, Nth(S, k)) # <<>>
  BY <1>2, <1>4, <1>5
<1>8. c \in Seq(Paths) /\ Len(c) = Cardinality(S)
      /\ \A k \in 1 .. Cardinality(S) : c[k] = Token(t, Nth(S, k))
  BY <1>5, <1>6, <1>7
<1>9. S \subseteq 0 .. n
  BY <1>1, <1>2
<1>. QED  BY <1>1, <1>2, <1>5, <1>7, <1>8, <1>9 DEF S, n, c

DropsFirst(c, d) == Len(d) = Len(c) - 1 /\ \A k \in 1 .. Len(d) : d[k] = c[k + 1]
DropsLast(c, d)  == Len(d) = Len(c) - 1 /\ \A k \in 1 .. Len(d) : d[k] = c[k]

LEMMA TokenNextIs ==
  ASSUME NEW t \in Tokenizers
  PROVE  /\ Kept(t, "starts") = <<>> => TokenNext(t).token = <<>>
         /\ Kept(t, "starts") # <<>> =>
              /\ TokenNext(t).token = Kept(t, "starts")[1] /\ TokenNext(t).token # <<>>
              /\ TokenNext(t).rest \in Tokenizers
              /\ DropsFirst(Kept(t, "starts"), Kept(TokenNext(t).rest, "starts"))
<1> DEFINE S == RealOf(t, "starts")
           c == Kept(t, "starts")
           n == Len(t.left) - 1
<1>1. /\ S \subseteq 0 .. n /\ n \in Int /\ 0 \in Int /\ Len(c) = Cardinality(S) /\ Len(c) \in Nat
      /\ c \in Seq(Paths) /\ S \subseteq Starts(t)
      /\ \A k \in 1 .. Len(c) : /\ Nth(S, k) \in S /\ c[k] = Token(t, Nth(S, k))
                                /\ c[k] # <<>> /\ c[k] \in Paths
  BY KeptAre
<1>2. S = {i \in Starts(t) : IsDot(t, i) => EndOf(t, i) = Len(t.left)}
  BY DEF RealOf
<1>3. TokenNext(t) = IF S = {} THEN [token |-> <<>>, rest |-> [t EXCEPT !.left = <<>>]]
                     ELSE [token |-> Token(t, Min(S)), rest |-> After(t, Min(S))]
  BY <1>2, Zenon DEF TokenNext, After
<1> HIDE DEF S, c, n
<1>4. CASE S = {}
  <2>1. Cardinality(S) = 0
    BY <1>4, FS_EmptySet
  <2>2. c = <<>>
    BY <1>1, <2>1
  <2>3. TokenNext(t).token = <<>>
    BY <1>3, <1>4
  <2>. QED  BY <2>2, <2>3 DEF c
<1>5. CASE S # {}
  <2> DEFINE m == Min(S)
             e == EndOf(t, m)
             r == After(t, m)
             T == RealOf(r, "starts")
             d == Kept(r, "starts")
             M == S \ {m}
             g == [i \in M |-> i - e]
  <2>1. m \in S /\ \A x \in S : m <= x
    <3>1. /\ FirstOf(S, 0) \in S /\ \A x \in S : FirstOf(S, 0) <= x
      BY <1>1, <1>5, FirstOfIs
    <3>2. FirstOf(S, 0) = m
      BY <1>5 DEF FirstOf
    <3>. QED  BY <3>1, <3>2
  <2>2. TokenNext(t).token = Token(t, m) /\ TokenNext(t).rest = r
    BY <1>3, <1>5
  <2>3. m \in Starts(t)
    BY <1>1, <2>1
  <2>4. /\ r \in Tokenizers /\ e \in Int /\ m < e /\ Len(r.left) = Len(t.left) - e
        /\ \A j \in Starts(r) : j + e \in Starts(t) /\ j + e > m
        /\ \A i \in Starts(t) : i > m =>
             /\ i - e \in Starts(r) /\ EndOf(r, i - e) = EndOf(t, i) - e
             /\ Token(r, i - e) = Token(t, i) /\ (IsDot(r, i - e) <=> IsDot(t, i))
    BY <2>3, AfterIs
  <2>5. /\ 1 \in 1 .. Cardinality(S) /\ Nth(S, 1) = m
        /\ Cardinality(M) = Cardinality(S) - 1
        /\ \A k \in 1 .. Cardinality(S) - 1 : Nth(M, k) = Nth(S, k + 1)
    <3> HIDE DEF m
    <3>1. Within(S, 0, n) /\ IsFirst(S, m) /\ 0 \in Int /\ n \in Int
      BY <1>1, <2>1 DEF Within, IsFirst
    <3>2. WithoutFirst(S, m)
      BY <3>1, FirstGone
    <3>. QED  BY <3>2 DEF WithoutFirst
  <2>6. /\ T \subseteq 0 .. Len(r.left) - 1 /\ Len(d) = Cardinality(T) /\ Len(d) \in Nat
        /\ \A k \in 1 .. Len(d) : d[k] = Token(r, Nth(T, k))
    BY <2>4, KeptAre
  <2>7. T = {i \in Starts(r) : IsDot(r, i) => EndOf(r, i) = Len(r.left)}
    BY DEF RealOf
  <2> HIDE DEF m, e, r, T, d
  <2>8. \A i \in Starts(t) : EndOf(t, i) \in Int /\ i \in Int
    <3>1. ASSUME NEW i \in Starts(t) PROVE EndOf(t, i) \in Int /\ i \in Int
      <4>1. EndOf(t, i) \in i + 1 .. Len(t.left) /\ i \in 0 .. Len(t.left) - 1
        BY TokenIs, BeginningsAre
      <4>. QED  BY <4>1, BeginningsAre
    <3>. QED  BY <3>1
  <2>9. Len(t.left) \in Nat /\ m \in Int /\ \A i \in M : i \in S /\ i > m /\ i \in Int /\ i \in Starts(t)
    <3>1. Len(t.left) \in Nat
      BY BeginningsAre
    <3>2. \A i \in M : i \in S /\ i \in Starts(t) /\ i # m /\ m <= i
      BY <1>1, <2>1
    <3>. QED  BY <2>3, <2>8, <3>1, <3>2
  <2>10. \A i \in M : i - e \in T /\ Token(r, i - e) = Token(t, i)
    <3>1. ASSUME NEW i \in M PROVE i - e \in T /\ Token(r, i - e) = Token(t, i)
      <4> DEFINE j == i - e
      <4>1. /\ j \in Starts(r) /\ EndOf(r, j) = EndOf(t, i) - e
            /\ Token(r, j) = Token(t, i) /\ (IsDot(r, j) <=> IsDot(t, i))
        BY <2>4, <2>9
      <4>2. IsDot(t, i) => EndOf(t, i) = Len(t.left)
        BY <1>2, <2>9
      <4> HIDE DEF j
      <4>3. IsDot(r, j) => EndOf(r, j) = Len(r.left)
        BY <2>4, <4>1, <4>2
      <4>4. j \in T
        BY <2>7, <4>1, <4>3
      <4>. QED  BY <4>1, <4>4 DEF j
    <3>. QED  BY <3>1
  <2>11. \A j \in T : j + e \in M /\ j \in Int
    <3>1. ASSUME NEW j \in T PROVE j + e \in M /\ j \in Int
      <4> DEFINE i == j + e
      <4>1. j \in Starts(r) /\ j \in Int /\ (IsDot(r, j) => EndOf(r, j) = Len(r.left))
        <5>1. Starts(r) \subseteq 0 .. Len(r.left) - 1 /\ Len(r.left) \in Nat
          BY <2>4, BeginningsAre
        <5>. QED  BY <2>7, <5>1
      <4>2. i \in Starts(t) /\ i > m /\ i - e = j
        BY <2>4, <4>1
      <4> HIDE DEF i
      <4>3. EndOf(r, j) = EndOf(t, i) - e /\ (IsDot(r, j) <=> IsDot(t, i))
        BY <2>4, <4>2
      <4>4. EndOf(t, i) \in Int /\ i \in Int
        BY <2>8, <4>2
      <4>5. IsDot(t, i) => EndOf(t, i) = Len(t.left)
        BY <2>4, <2>9, <4>1, <4>3, <4>4
      <4>6. i \in S /\ i # m
        BY <1>2, <2>9, <4>2, <4>4, <4>5
      <4>. QED  BY <4>1, <4>6 DEF i
    <3>. QED  BY <3>1
  <2> HIDE DEF M
  <2>12. g \in [M -> T] /\ DOMAIN g = M /\ \A i \in M : g[i] = i - e
    BY <2>10
  <2> HIDE DEF g
  <2>13. Rising(g)
    <3>1. ASSUME NEW x \in M, NEW y \in M, x < y PROVE g[x] < g[y]
      BY <2>4, <2>9, <2>12, <3>1
    <3>. QED  BY <2>12, <3>1, Zenon DEF Rising
  <2>14. Onto(g, T)
    <3>1. ASSUME NEW j \in T PROVE \E i \in M : g[i] = j
      <4> DEFINE x == j + e
      <4>1. x \in M /\ x - e = j
        BY <2>4, <2>11
      <4> HIDE DEF x
      <4>. QED  BY <2>12, <4>1
    <3>. QED  BY <2>12, <3>1, Zenon DEF Onto
  <2>15. /\ Cardinality(T) = Cardinality(M)
         /\ \A k \in 1 .. Cardinality(M) : Nth(T, k) = g[Nth(M, k)] /\ Nth(M, k) \in M
    <3>1. M \subseteq 0 .. n /\ T \subseteq Int
      BY <1>1, <2>11 DEF M
    <3>2. g \in [M -> T] /\ Onto(g, T) /\ Rising(g) /\ 0 \in Int /\ n \in Int
      BY <1>1, <2>12, <2>13, <2>14
    <3>. QED  BY <3>1, <3>2, NthMatched
  <2>16. Len(d) = Len(c) - 1
    BY <1>1, <2>5, <2>6, <2>15
  <2>17. ASSUME NEW k \in 1 .. Len(d) PROVE d[k] = c[k + 1]
    <3>1. k \in 1 .. Cardinality(M) /\ k \in 1 .. Cardinality(S) - 1 /\ k + 1 \in 1 .. Len(c)
      <4>1. Cardinality(M) = Len(d) /\ Cardinality(S) = Len(c) /\ Len(c) \in Nat
        BY <1>1, <2>6, <2>15
      <4>. QED  BY <2>16, <4>1
    <3>2. Nth(M, k) = Nth(S, k + 1) /\ Nth(M, k) \in M /\ Nth(T, k) = Nth(M, k) - e
      BY <2>5, <2>12, <2>15, <3>1
    <3>3. d[k] = Token(t, Nth(M, k))
      BY <2>6, <2>10, <3>2
    <3>. QED  BY <1>1, <3>1, <3>2, <3>3
  <2>18. c # <<>> /\ Token(t, m) = c[1] /\ c[1] # <<>>
    BY <1>1, <2>5
  <2>19. DropsFirst(c, d)
    BY <2>16, <2>17 DEF DropsFirst
  <2>. QED  BY <2>2, <2>4, <2>18, <2>19 DEF c, d
<1>. QED  BY <1>4, <1>5


LEMMA TokenNextBackIs ==
  ASSUME NEW t \in Tokenizers
  PROVE  /\ TokenNextBack(t).rest \in Tokenizers
         /\ Kept(t, "ends") = <<>> =>
              TokenNextBack(t).token = <<>> /\ Kept(TokenNextBack(t).rest, "ends") = <<>>
         /\ Kept(t, "ends") # <<>> =>
              /\ TokenNextBack(t).token = Kept(t, "ends")[Len(Kept(t, "ends"))]
              /\ TokenNextBack(t).token # <<>>
              /\ DropsLast(Kept(t, "ends"), Kept(TokenNextBack(t).rest, "ends"))
<1> DEFINE S == RealOf(t, "ends")
           c == Kept(t, "ends")
           n == Len(t.left) - 1
<1>1. /\ S \subseteq 0 .. n /\ n \in Int /\ 0 \in Int /\ Len(c) = Cardinality(S) /\ Len(c) \in Nat
      /\ c \in Seq(Paths) /\ S \subseteq Starts(t)
      /\ \A k \in 1 .. Len(c) : /\ Nth(S, k) \in S /\ c[k] = Token(t, Nth(S, k))
                                /\ c[k] # <<>> /\ c[k] \in Paths
  BY KeptAre
<1>2. S = {i \in Starts(t) : IsDot(t, i) => i = 0}
  BY DEF RealOf
<1>3. TokenNextBack(t) = IF S = {} THEN [token |-> <<>>, rest |-> [t EXCEPT !.left = <<>>]]
                         ELSE [token |-> Token(t, Max(S)), rest |-> Before(t, Max(S))]
  BY <1>2, Zenon DEF TokenNextBack, Before
<1> HIDE DEF S, c, n
<1>4. CASE S = {}
  <2> DEFINE r == [t EXCEPT !.left = <<>>]
             d == Kept(r, "ends")
  <2>1. Cardinality(S) = 0
    BY <1>4, FS_EmptySet
  <2>2. c = <<>>
    BY <1>1, <2>1
  <2>3. TokenNextBack(t).token = <<>> /\ TokenNextBack(t).rest = r
    BY <1>3, <1>4
  <2>4. r \in Tokenizers /\ r.left = <<>>
    BY Typed DEF Tokenizers
  <2> HIDE DEF r
  <2>5. /\ RealOf(r, "ends") \subseteq 0 .. Len(r.left) - 1
        /\ Len(d) = Cardinality(RealOf(r, "ends")) /\ d \in Seq(Paths)
    BY <2>4, KeptAre
  <2>6. RealOf(r, "ends") = {}
    BY <2>4, <2>5
  <2>7. Len(d) = 0
    BY <2>5, <2>6, FS_EmptySet
  <2> HIDE DEF d
  <2>8. d = <<>>
    BY <2>5, <2>7
  <2>. QED  BY <2>2, <2>3, <2>4, <2>8 DEF c, d
<1>5. CASE S # {}
  <2> DEFINE m == Max(S)
             r == Before(t, m)
             T == RealOf(r, "ends")
             d == Kept(r, "ends")
             M == S \ {m}
  <2>1. m \in S /\ \A x \in S : x <= m
    <3>1. /\ LastOf(S, 0) \in S /\ \A x \in S : x <= LastOf(S, 0)
      BY <1>1, <1>5, LastOfIs
    <3>2. LastOf(S, 0) = m
      BY <1>5 DEF LastOf
    <3>. QED  BY <3>1, <3>2
  <2>2. TokenNextBack(t).token = Token(t, m) /\ TokenNextBack(t).rest = r
    BY <1>3, <1>5
  <2>3. m \in Starts(t)
    BY <1>1, <2>1
  <2>4. /\ r \in Tokenizers
        /\ \A i \in Starts(r) : i \in Starts(t) /\ i < m
        /\ \A i \in Starts(t) : i < m =>
             i \in Starts(r) /\ Token(r, i) = Token(t, i) /\ (IsDot(r, i) <=> IsDot(t, i))
    BY <2>3, BeforeIs
  <2>5. /\ Cardinality(S) \in 1 .. Cardinality(S) /\ Nth(S, Cardinality(S)) = m
        /\ Cardinality(M) = Cardinality(S) - 1
        /\ \A k \in 1 .. Cardinality(S) - 1 : Nth(M, k) = Nth(S, k)
    <3> HIDE DEF m
    <3>1. Within(S, 0, n) /\ IsLast(S, m) /\ 0 \in Int /\ n \in Int
      BY <1>1, <2>1 DEF Within, IsLast
    <3>2. WithoutLast(S, m)
      BY <3>1, LastGone
    <3>. QED  BY <3>2 DEF WithoutLast
  <2>6. /\ Len(d) = Cardinality(T) /\ Len(d) \in Nat
        /\ \A k \in 1 .. Len(d) : d[k] = Token(r, Nth(T, k)) /\ Nth(T, k) \in T
    BY <2>4, KeptAre
  <2>7. T = {i \in Starts(r) : IsDot(r, i) => i = 0}
    BY DEF RealOf
  <2> HIDE DEF m, r, T, d
  <2>8. \A i \in S : i \in Int
    BY <1>1
  <2>9. T = M
    <3>1. ASSUME NEW i \in M PROVE i \in T
      <4>1. i \in S /\ i \in Starts(t) /\ i < m
        BY <1>1, <2>1, <2>8
      <4>. QED  BY <1>2, <2>4, <2>7, <4>1
    <3>2. ASSUME NEW i \in T PROVE i \in M
      <4>1. i \in Starts(t) /\ i < m
        BY <2>4, <2>7
      <4>2. IsDot(r, i) <=> IsDot(t, i)
        BY <2>4, <4>1
      <4>3. i \in S
        BY <1>2, <2>7, <4>1, <4>2
      <4>. QED  BY <2>1, <2>8, <4>1, <4>3
    <3> HIDE DEF M
    <3>. QED  BY <3>1, <3>2
  <2>10. Len(d) = Len(c) - 1
    BY <1>1, <2>5, <2>6, <2>9
  <2>11. ASSUME NEW k \in 1 .. Len(d) PROVE d[k] = c[k]
    <3>1. k \in 1 .. Cardinality(S) - 1 /\ k \in 1 .. Len(c)
      BY <1>1, <2>6, <2>10, <2>11
    <3>2. Nth(T, k) = Nth(S, k) /\ Nth(T, k) \in M
      BY <2>5, <2>6, <2>9, <3>1
    <3>3. \A i \in M : i \in Starts(t) /\ i < m
      BY <1>1, <2>1, <2>8
    <3> HIDE DEF M
    <3>. QED  BY <1>1, <2>4, <2>6, <3>1, <3>2, <3>3
  <2>12. c # <<>> /\ Token(t, m) = c[Len(c)] /\ c[Len(c)] # <<>>
    BY <1>1, <2>5
  <2>13. DropsLast(c, d)
    BY <2>10, <2>11 DEF DropsLast
  <2>. QED  BY <2>2, <2>4, <2>12, <2>13 DEF c, d
<1>. QED  BY <1>4, <1>5


LEMMA TokenizerType ==
  ASSUME NEW p \in Paths
  PROVE  Tokenizer(p) \in Tokenizers
<1> DEFINE v == SplitPath(p).verbatim
           n == RootLength(p)
           q == From(p, n)
           In == {i \in DOMAIN q : ~ IsDirsep(q[i], v)}
           l == Trimmed(q, v)
<1>1. v \in Marks
  <2>1. v = IsVerbatim(p)
    BY SplitIs DEF Paths
  <2>2. IsVerbatim(p) \in BOOLEAN
    BY DEF IsVerbatim, IsPrefix
  <2>. QED  BY <2>1, <2>2 DEF Marks
<1>2. q \in Paths
  <2>1. n \in 0 .. Len(p)
    BY RootIn DEF Paths
  <2> HIDE DEF n
  <2>. QED  BY <2>1, PartsType
<1>3. Tokenizer(p) = [verbatim |-> v, left |-> l]
  BY DEF Tokenizer
<1>4. l = IF In = {} THEN <<>> ELSE SubSeq(q, Min(In), Max(In))
  BY Zenon DEF Trimmed
<1> HIDE DEF v, q, n, l
<1>5. In \subseteq 1 .. Len(q) /\ Len(q) \in Int /\ 1 \in Int
  BY <1>2 DEF Paths
<1>6. l \in Paths
  <2>1. CASE In = {}
    BY <1>4, <2>1, Typed
  <2>2. CASE In # {}
    <3> DEFINE a == Min(In)
               b == Max(In)
    <3> HIDE DEF In
    <3>1. FirstOf(In, 0) \in In /\ LastOf(In, 0) \in In
      BY <1>5, <2>2, FirstOfIs, LastOfIs
    <3>2. a \in In /\ b \in In
      BY <2>2, <3>1 DEF FirstOf, LastOf
    <3>3. a \in Int /\ b \in Int /\ 1 <= a /\ b <= Len(q)
      <4>1. \A x \in In : x \in Int /\ 1 <= x /\ x <= Len(q)
        BY <1>5
      <4> HIDE DEF a, b
      <4>. QED  BY <3>2, <4>1
    <3>4. l = SubSeq(q, a, b)
      BY <1>4, <2>2
    <3> HIDE DEF a, b
    <3>. QED  BY <1>2, <3>3, <3>4, Cut DEF Paths
  <2>. QED  BY <2>1, <2>2
<1>. QED  BY <1>1, <1>3, <1>6 DEF Tokenizers

---------------------------------------------------------------------------
(* The platform stays what it is, and with it what every operator gives.   *)
LEMMA SameSeparators ==
  ASSUME platform' = platform
  PROVE  /\ Windows' <=> Windows
         /\ \A c, v : IsDirsep(c, v)' <=> IsDirsep(c, v)
         /\ \A p, n, v : FirstSep(p, n, v)' = FirstSep(p, n, v)
<1>1. (Windows' <=> Windows) /\ DirSep' = DirSep
  BY DEF Windows, DirSep
<1>2. \A c, v : IsDirsep(c, v)' <=> IsDirsep(c, v)
  BY <1>1 DEF IsDirsep
<1>3. \A p, n, v : Seps(p, n, v)' = Seps(p, n, v)
  BY <1>2 DEF Seps
<1>4. \A p, n, v : FirstSep(p, n, v)' = FirstSep(p, n, v)
  BY <1>3 DEF FirstSep
<1>. QED  BY <1>1, <1>2, <1>4

LEMMA SameSplit ==
  ASSUME platform' = platform
  PROVE  \A p : RootLength(p)' = RootLength(p) /\ SplitPath(p)' = SplitPath(p)
<1>1. /\ Windows' <=> Windows
      /\ \A c, v : IsDirsep(c, v)' <=> IsDirsep(c, v)
      /\ \A p, n, v : FirstSep(p, n, v)' = FirstSep(p, n, v)
  BY SameSeparators
<1>2. \A p, n, v : UncRoot(p, n, v)' = UncRoot(p, n, v)
  BY <1>1 DEF UncRoot
<1>3. \A p : /\ IsVerbatim(p)' = IsVerbatim(p) /\ (IsDevice(p)' <=> IsDevice(p))
             /\ (IsUnc(p)' <=> IsUnc(p)) /\ (HasDrive(p)' <=> HasDrive(p))
  BY <1>1 DEF IsVerbatim, IsDevice, IsUnc, HasDrive
<1>4. \A p : RootLength(p)' = RootLength(p)
  BY <1>1, <1>2, <1>3 DEF RootLength
<1>5. \A p, n, v : Seps(p, n, v)' = Seps(p, n, v)
  BY <1>1 DEF Seps
<1>6. \A p, r, v : FileOffset(p, r, v)' = FileOffset(p, r, v)
  BY <1>5 DEF FileOffset
<1>7. \A p, r, f, v : DirLength(p, r, f, v)' = DirLength(p, r, f, v)
  BY <1>1 DEF DirLength
<1>8. \A p : SplitPath(p)' = SplitPath(p)
  BY <1>3, <1>4, <1>6, <1>7 DEF SplitPath
<1>. QED  BY <1>4, <1>8

LEMMA SameKept ==
  ASSUME platform' = platform
  PROVE  /\ \A p : Tokenizer(p)' = Tokenizer(p)
         /\ \A t, asked : Kept(t, asked)' = Kept(t, asked)
<1>1. /\ \A c, v : IsDirsep(c, v)' <=> IsDirsep(c, v)
      /\ \A p, n, v : FirstSep(p, n, v)' = FirstSep(p, n, v)
  BY SameSeparators
<1>2. \A p : RootLength(p)' = RootLength(p) /\ SplitPath(p)' = SplitPath(p)
  BY SameSplit
<1>3. \A q, v : Trimmed(q, v)' = Trimmed(q, v)
  BY <1>1 DEF Trimmed
<1>4. \A p : Tokenizer(p)' = Tokenizer(p)
  BY <1>2, <1>3 DEF Tokenizer
<1>5. \A t, i : EndOf(t, i)' = EndOf(t, i)
  BY <1>1 DEF EndOf
<1>6. \A t, i : Token(t, i)' = Token(t, i)
  BY <1>5 DEF Token
<1>7. \A t, i : IsDot(t, i)' <=> IsDot(t, i)
  BY <1>6 DEF IsDot
<1>8. \A t : Starts(t)' = Starts(t)
  BY <1>1 DEF Starts
<1>9. \A t, asked : Kept(t, asked)' = Kept(t, asked)
  BY <1>5, <1>6, <1>7, <1>8 DEF Kept
<1>. QED  BY <1>4, <1>9


---------------------------------------------------------------------------
(* The loops of starts_with and ends_with.  a and b are all the components *)
(* of the two paths, x and y those not compared yet, k the number of the   *)
(* turns made: so many components, counted from the end the loop comes     *)
(* from, are alike.                                                        *)
FrontPassed(a, b, x, y, k) ==
  /\ k \in Nat /\ Len(x) = Len(a) - k /\ Len(y) = Len(b) - k
  /\ \A i \in 1 .. Len(x) : x[i] = a[k + i]
  /\ \A i \in 1 .. Len(y) : y[i] = b[k + i]
  /\ \A i \in 1 .. k : Compare(a[i], b[i])

BackPassed(a, b, x, y, k) ==
  /\ k \in Nat /\ Len(x) = Len(a) - k /\ Len(y) = Len(b) - k
  /\ \A i \in 1 .. Len(x) : x[i] = a[i]
  /\ \A i \in 1 .. Len(y) : y[i] = b[i]
  /\ \A i \in 0 .. k - 1 : Compare(a[Len(a) - i], b[Len(b) - i])

(* What the loop has to answer.                                            *)
FrontRight(a, b) == Len(a) >= Len(b) /\ Alike(a, b)
BackRight(a, b)  == /\ Len(a) >= Len(b)
                    /\ Alike(SubSeq(a, Len(a) - Len(b) + 1, Len(a)), b)

LEMMA FrontTurn ==
  ASSUME NEW a \in Seq(Paths), NEW b \in Seq(Paths), NEW x \in Seq(Paths), NEW y \in Seq(Paths),
         NEW k, FrontPassed(a, b, x, y, k)
  PROVE  /\ x = <<>> /\ y = <<>> => FrontRight(a, b)
         /\ x = <<>> /\ y # <<>> => ~ FrontRight(a, b)
         /\ x # <<>> /\ y = <<>> => ~ FrontRight(a, b)
         /\ x # <<>> /\ y # <<>> /\ ~ Compare(x[1], y[1]) => ~ FrontRight(a, b)
         /\ \A v, w \in Seq(Paths) :
              x # <<>> /\ y # <<>> /\ Compare(x[1], y[1]) /\ DropsFirst(x, v) /\ DropsFirst(y, w)
                => FrontPassed(a, b, v, w, k + 1)
<1>1. /\ k \in Nat /\ Len(x) = Len(a) - k /\ Len(y) = Len(b) - k
      /\ \A i \in 1 .. Len(x) : x[i] = a[k + i]
      /\ \A i \in 1 .. Len(y) : y[i] = b[k + i]
      /\ \A i \in 1 .. k : Compare(a[i], b[i])
  BY DEF FrontPassed
<1>2. /\ Len(a) \in Nat /\ Len(b) \in Nat /\ Len(x) \in Nat /\ Len(y) \in Nat
      /\ DOMAIN a = 1 .. Len(a)
      /\ (x = <<>> <=> Len(x) = 0) /\ (y = <<>> <=> Len(y) = 0)
  OBVIOUS
<1>3. FrontRight(a, b) <=> Len(a) = Len(b) /\ \A i \in 1 .. Len(a) : Compare(a[i], b[i])
  BY <1>2 DEF FrontRight, Alike
<1>4. ASSUME x = <<>>, y = <<>> PROVE FrontRight(a, b)
  <2>1. Len(a) = k /\ Len(b) = k
    BY <1>1, <1>2, <1>4
  <2>. QED  BY <1>1, <1>3, <2>1
<1>5. ASSUME x = <<>> <=> y # <<>> PROVE ~ FrontRight(a, b)
  <2>1. Len(x) # Len(y)
    BY <1>2, <1>5
  <2>2. Len(a) # Len(b)
    BY <1>1, <2>1
  <2>. QED  BY <1>3, <2>2
<1>6. ASSUME x # <<>>, y # <<>>
      PROVE  k + 1 \in 1 .. Len(a) /\ x[1] = a[k + 1] /\ y[1] = b[k + 1]
             /\ 1 \in 1 .. Len(x) /\ 1 \in 1 .. Len(y)
  <2>1. 1 \in 1 .. Len(x) /\ 1 \in 1 .. Len(y)
    BY <1>2, <1>6
  <2>2. k + 1 \in 1 .. Len(a)
    BY <1>1, <1>2, <2>1
  <2>. QED  BY <1>1, <2>1, <2>2
<1>7. ASSUME x # <<>>, y # <<>>, ~ Compare(x[1], y[1]) PROVE ~ FrontRight(a, b)
  <2> DEFINE l == k + 1
  <2>1. l \in 1 .. Len(a) /\ ~ Compare(a[l], b[l])
    BY <1>6, <1>7
  <2> HIDE DEF l
  <2>. QED  BY <1>3, <2>1
<1>8. ASSUME NEW v \in Seq(Paths), NEW w \in Seq(Paths), x # <<>>, y # <<>>,
             Compare(x[1], y[1]), DropsFirst(x, v), DropsFirst(y, w)
      PROVE  FrontPassed(a, b, v, w, k + 1)
  <2> DEFINE l == k + 1
  <2>1. /\ Len(v) = Len(x) - 1 /\ \A i \in 1 .. Len(v) : v[i] = x[i + 1]
        /\ Len(w) = Len(y) - 1 /\ \A i \in 1 .. Len(w) : w[i] = y[i + 1]
    BY <1>8 DEF DropsFirst
  <2>2. l \in Nat /\ Len(v) = Len(a) - l /\ Len(w) = Len(b) - l
    BY <1>1, <1>2, <2>1
  <2>3. \A i \in 1 .. Len(v) : v[i] = a[l + i]
    <3>1. ASSUME NEW i \in 1 .. Len(v) PROVE v[i] = a[l + i]
      <4>1. i + 1 \in 1 .. Len(x) /\ k + (i + 1) = l + i
        BY <1>1, <1>2, <2>1
      <4>2. x[i + 1] = a[k + (i + 1)]
        BY <1>1, <4>1
      <4>. QED  BY <2>1, <4>1, <4>2
    <3>. QED  BY <3>1
  <2>4. \A i \in 1 .. Len(w) : w[i] = b[l + i]
    <3>1. ASSUME NEW i \in 1 .. Len(w) PROVE w[i] = b[l + i]
      <4>1. i + 1 \in 1 .. Len(y) /\ k + (i + 1) = l + i
        BY <1>1, <1>2, <2>1
      <4>2. y[i + 1] = b[k + (i + 1)]
        BY <1>1, <4>1
      <4>. QED  BY <2>1, <4>1, <4>2
    <3>. QED  BY <3>1
  <2>5. \A i \in 1 .. l : Compare(a[i], b[i])
    <3>1. \A i \in 1 .. l : i \in 1 .. k \/ i = l
      BY <1>1
    <3>2. Compare(a[l], b[l])
      BY <1>6, <1>8
    <3> HIDE DEF l
    <3>. QED  BY <1>1, <3>1, <3>2
  <2> HIDE DEF l
  <2>6. FrontPassed(a, b, v, w, l)
    BY <2>2, <2>3, <2>4, <2>5, Zenon DEF FrontPassed
  <2>. QED  BY <2>6 DEF l
<1>. QED  BY <1>4, <1>5, <1>7, <1>8

LEMMA BackTurn ==
  ASSUME NEW a \in Seq(Paths), NEW b \in Seq(Paths), NEW x \in Seq(Paths), NEW y \in Seq(Paths),
         NEW k, BackPassed(a, b, x, y, k)
  PROVE  /\ y = <<>> => BackRight(a, b)
         /\ x = <<>> /\ y # <<>> => ~ BackRight(a, b)
         /\ x # <<>> /\ y # <<>> /\ ~ Compare(x[Len(x)], y[Len(y)]) => ~ BackRight(a, b)
         /\ \A v, w \in Seq(Paths) :
              x # <<>> /\ y # <<>> /\ Compare(x[Len(x)], y[Len(y)])
              /\ DropsLast(x, v) /\ DropsLast(y, w) => BackPassed(a, b, v, w, k + 1)
<1>1. /\ k \in Nat /\ Len(x) = Len(a) - k /\ Len(y) = Len(b) - k
      /\ \A i \in 1 .. Len(x) : x[i] = a[i]
      /\ \A i \in 1 .. Len(y) : y[i] = b[i]
      /\ \A i \in 0 .. k - 1 : Compare(a[Len(a) - i], b[Len(b) - i])
  BY DEF BackPassed
<1>2. /\ Len(a) \in Nat /\ Len(b) \in Nat /\ Len(x) \in Nat /\ Len(y) \in Nat
      /\ (x = <<>> <=> Len(x) = 0) /\ (y = <<>> <=> Len(y) = 0)
  OBVIOUS
<1>3. BackRight(a, b) <=>
        /\ Len(a) >= Len(b)
        /\ \A i \in 0 .. Len(b) - 1 : Compare(a[Len(a) - i], b[Len(b) - i])
  <2> DEFINE m == Len(a) - Len(b)
             c == SubSeq(a, m + 1, Len(a))
  <2>1. SUFFICES ASSUME Len(a) >= Len(b)
                 PROVE  Alike(c, b) <=>
                          \A i \in 0 .. Len(b) - 1 : Compare(a[Len(a) - i], b[Len(b) - i])
    BY DEF BackRight
  <2>2. c \in Seq(Paths) /\ Len(c) = Len(b) /\ \A i \in 1 .. Len(b) : c[i] = a[m + i]
    <3> DEFINE l == m + 1
    <3>1. /\ l \in Int /\ Len(a) \in Int /\ 1 <= l /\ Len(a) <= Len(a) /\ Len(a) - l + 1 = Len(b)
          /\ \A i \in 1 .. Len(b) : l + i - 1 = m + i
          /\ (l <= Len(a) \/ Len(b) = 0)
      BY <1>2, <2>1
    <3> HIDE DEF l
    <3>2. /\ SubSeq(a, l, Len(a)) \in Seq(Paths)
          /\ Len(SubSeq(a, l, Len(a))) = IF l <= Len(a) THEN Len(a) - l + 1 ELSE 0
          /\ \A i \in 1 .. Len(a) - l + 1 : SubSeq(a, l, Len(a))[i] = a[l + i - 1]
      BY <3>1, Cut
    <3>3. /\ SubSeq(a, l, Len(a)) \in Seq(Paths) /\ Len(SubSeq(a, l, Len(a))) = Len(b)
          /\ \A i \in 1 .. Len(b) : SubSeq(a, l, Len(a))[i] = a[m + i]
      BY <1>2, <3>1, <3>2
    <3>. QED  BY <3>3 DEF l
  <2> HIDE DEF c
  <2>3. DOMAIN c = 1 .. Len(b)
    BY <2>2
  <2>4. Alike(c, b) <=> \A i \in 1 .. Len(b) : Compare(a[m + i], b[i])
    BY <2>2, <2>3 DEF Alike
  <2>5. ASSUME NEW i \in 1 .. Len(b)
        PROVE  Len(b) - i \in 0 .. Len(b) - 1 /\ Len(a) - (Len(b) - i) = m + i
               /\ Len(b) - (Len(b) - i) = i
    BY <1>2
  <2>6. ASSUME NEW i \in 0 .. Len(b) - 1
        PROVE  Len(b) - i \in 1 .. Len(b) /\ m + (Len(b) - i) = Len(a) - i
    BY <1>2
  <2> HIDE DEF m
  <2>7. ASSUME \A i \in 1 .. Len(b) : Compare(a[m + i], b[i]), NEW i \in 0 .. Len(b) - 1
        PROVE  Compare(a[Len(a) - i], b[Len(b) - i])
    <3>1. Compare(a[m + (Len(b) - i)], b[Len(b) - i])
      BY <2>6, <2>7
    <3>. QED  BY <2>6, <3>1
  <2>8. ASSUME \A i \in 0 .. Len(b) - 1 : Compare(a[Len(a) - i], b[Len(b) - i]),
               NEW i \in 1 .. Len(b)
        PROVE  Compare(a[m + i], b[i])
    <3>1. Compare(a[Len(a) - (Len(b) - i)], b[Len(b) - (Len(b) - i)])
      BY <2>5, <2>8
    <3>. QED  BY <2>5, <3>1
  <2>. QED  BY <2>4, <2>7, <2>8
<1>4. ASSUME y = <<>> PROVE BackRight(a, b)
  <2>1. Len(b) = k /\ Len(a) >= Len(b)
    BY <1>1, <1>2, <1>4
  <2>. QED  BY <1>1, <1>3, <2>1
<1>5. ASSUME x = <<>>, y # <<>> PROVE ~ BackRight(a, b)
  <2>1. Len(x) = 0 /\ Len(y) > 0
    BY <1>2, <1>5
  <2>2. ~ Len(a) >= Len(b)
    BY <1>1, <1>2, <2>1
  <2>. QED  BY <1>3, <2>2
<1>6. ASSUME x # <<>>, y # <<>>
      PROVE  /\ x[Len(x)] = a[Len(a) - k] /\ y[Len(y)] = b[Len(b) - k]
             /\ k \in 0 .. Len(b) - 1
  <2>1. Len(x) \in 1 .. Len(x) /\ Len(y) \in 1 .. Len(y) /\ k \in 0 .. Len(b) - 1
    BY <1>1, <1>2, <1>6
  <2>. QED  BY <1>1, <2>1
<1>7. ASSUME x # <<>>, y # <<>>, ~ Compare(x[Len(x)], y[Len(y)]) PROVE ~ BackRight(a, b)
  BY <1>3, <1>6, <1>7
<1>8. ASSUME NEW v \in Seq(Paths), NEW w \in Seq(Paths), x # <<>>, y # <<>>,
             Compare(x[Len(x)], y[Len(y)]), DropsLast(x, v), DropsLast(y, w)
      PROVE  BackPassed(a, b, v, w, k + 1)
  <2> DEFINE l == k + 1
  <2>1. /\ Len(v) = Len(x) - 1 /\ \A i \in 1 .. Len(v) : v[i] = x[i]
        /\ Len(w) = Len(y) - 1 /\ \A i \in 1 .. Len(w) : w[i] = y[i]
    BY <1>8 DEF DropsLast
  <2>2. l \in Nat /\ Len(v) = Len(a) - l /\ Len(w) = Len(b) - l
    BY <1>1, <1>2, <2>1
  <2>3. (\A i \in 1 .. Len(v) : i \in 1 .. Len(x)) /\ (\A i \in 1 .. Len(w) : i \in 1 .. Len(y))
    BY <1>2, <2>1
  <2>4. (\A i \in 1 .. Len(v) : v[i] = a[i]) /\ (\A i \in 1 .. Len(w) : w[i] = b[i])
    BY <1>1, <2>1, <2>3
  <2>5. \A i \in 0 .. l - 1 : Compare(a[Len(a) - i], b[Len(b) - i])
    <3>1. \A i \in 0 .. l - 1 : i \in 0 .. k - 1 \/ i = k
      BY <1>1
    <3>2. Compare(a[Len(a) - k], b[Len(b) - k])
      BY <1>6, <1>8
    <3> HIDE DEF l
    <3>. QED  BY <1>1, <3>1, <3>2
  <2> HIDE DEF l
  <2>6. BackPassed(a, b, v, w, l)
    BY <2>2, <2>4, <2>5, Zenon DEF BackPassed
  <2>. QED  BY <2>6 DEF l
<1>. QED  BY <1>4, <1>5, <1>7, <1>8


---------------------------------------------------------------------------
(* The invariant of the comparison, and what is said of an answer given.   *)
Ways    == {"starts", "ends"}
Matches == [asked : Ways, of : Paths, mine : Tokenizers, other : Tokenizers]

Roots(p, q) == Compare(Upto(p, RootLength(p)), Upto(q, RootLength(q)))

FrontMet(p, m) ==
  \E k : FrontPassed(Kept(Tokenizer(p), "starts"), Kept(Tokenizer(m.of), "starts"),
                     Kept(m.mine, "starts"), Kept(m.other, "starts"), k)
BackMet(p, m) ==
  \E k : BackPassed(Kept(Tokenizer(p), "ends"), Kept(Tokenizer(m.of), "ends"),
                    Kept(m.mine, "ends"), Kept(m.other, "ends"), k)

Matching(p, m) ==
  m # None => /\ m \in Matches /\ p # <<>> /\ m.of # <<>> /\ Roots(p, m.of)
              /\ m.asked = "starts" => FrontMet(p, m)
              /\ m.asked = "ends" => BackMet(p, m)

Right(p, q, asked) ==
  LET mine == Kept(Tokenizer(p), asked)
      other == Kept(Tokenizer(q), asked)
      tail == SubSeq(mine, Len(mine) - Len(other) + 1, Len(mine))
  IN  Roots(p, q) /\ Len(mine) >= Len(other)
      /\ Alike(IF asked = "starts" THEN mine ELSE tail, other)

Answering(p, a) == a # None /\ p # <<>> /\ a.of # <<>> => a.says = Right(p, a.of, a.asked)

AnswersInv == PathType /\ Matching(path, match) /\ Answering(path, answer)

LEMMA SameMatching ==
  ASSUME platform' = platform
  PROVE  /\ \A p, m : Matching(p, m)' <=> Matching(p, m)
         /\ \A p, a : Answering(p, a)' <=> Answering(p, a)
<1>1. \A p : RootLength(p)' = RootLength(p)
  BY SameSplit
<1>2. /\ \A p : Tokenizer(p)' = Tokenizer(p)
      /\ \A t, asked : Kept(t, asked)' = Kept(t, asked)
  BY SameKept
<1>3. \A p, q : Roots(p, q)' <=> Roots(p, q)
  BY <1>1 DEF Roots
<1>4. \A p, m : (FrontMet(p, m)' <=> FrontMet(p, m)) /\ (BackMet(p, m)' <=> BackMet(p, m))
  BY <1>2 DEF FrontMet, BackMet
<1>5. Matches' = Matches
  BY DEF Matches
<1>6. \A p, m : Matching(p, m)' <=> Matching(p, m)
  BY <1>3, <1>4, <1>5 DEF Matching
<1>7. \A p, q, asked : Right(p, q, asked)' = Right(p, q, asked)
  BY <1>2, <1>3 DEF Right
<1>8. \A p, a : Answering(p, a)' <=> Answering(p, a)
  BY <1>7 DEF Answering
<1>. QED  BY <1>6, <1>8

LEMMA RightIs ==
  /\ \A p, q, asked : Right(p, q, asked) \in BOOLEAN
  /\ \A p, q : Right(p, q, "starts") <=>
       Roots(p, q) /\ FrontRight(Kept(Tokenizer(p), "starts"), Kept(Tokenizer(q), "starts"))
  /\ \A p, q : Right(p, q, "ends") <=>
       Roots(p, q) /\ BackRight(Kept(Tokenizer(p), "ends"), Kept(Tokenizer(q), "ends"))
  /\ \A p, q, asked : ~ Roots(p, q) => ~ Right(p, q, asked)
<1>1. \A p, q, asked : Right(p, q, asked) \in BOOLEAN
  BY DEF Right
<1>2. \A p, q : Right(p, q, "starts") <=>
        Roots(p, q) /\ FrontRight(Kept(Tokenizer(p), "starts"), Kept(Tokenizer(q), "starts"))
  BY DEF Right, FrontRight
<1>3. \A p, q : Right(p, q, "ends") <=>
        Roots(p, q) /\ BackRight(Kept(Tokenizer(p), "ends"), Kept(Tokenizer(q), "ends"))
  BY DEF Right, BackRight
<1>4. \A p, q, asked : ~ Roots(p, q) => ~ Right(p, q, asked)
  BY DEF Right
<1>. QED  BY <1>1, <1>2, <1>3, <1>4


(* An answer is right when it says what is right.                          *)
LEMMA SaidRight ==
  ASSUME NEW p, NEW q, NEW asked, NEW says, says \in BOOLEAN, says <=> Right(p, q, asked)
  PROVE  Answering(p, [asked |-> asked, of |-> q, says |-> says])
<1> DEFINE a == [asked |-> asked, of |-> q, says |-> says]
<1>1. a.says = says /\ a.of = q /\ a.asked = asked
  OBVIOUS
<1>2. says = Right(p, q, asked)
  BY RightIs
<1> HIDE DEF a
<1>3. a.says = Right(p, a.of, a.asked)
  BY <1>1, <1>2
<1>4. Answering(p, a)
  BY <1>3, Zenon DEF Answering
<1>. QED  BY <1>4 DEF a

LEMMA StartsTurns ==
  ASSUME AnswersInv, TurnStarts
  PROVE  Matching(path, match') /\ Answering(path, answer')
<1> DEFINE m == TokenNext(match.mine)
           o == TokenNext(match.other)
           a == Kept(Tokenizer(path), "starts")
           b == Kept(Tokenizer(match.of), "starts")
           x == Kept(match.mine, "starts")
           y == Kept(match.other, "starts")
           right == Right(path, match.of, "starts")
<1>1. /\ match \in Matches /\ path # <<>> /\ match.of # <<>> /\ Roots(path, match.of)
      /\ match.asked = "starts" /\ FrontMet(path, match) /\ path \in Paths
  BY DEF AnswersInv, Matching, TurnStarts, PathType
<1>2. match.mine \in Tokenizers /\ match.other \in Tokenizers /\ match.of \in Paths
  BY <1>1 DEF Matches
<1>3. Tokenizer(path) \in Tokenizers /\ Tokenizer(match.of) \in Tokenizers
  BY <1>1, <1>2, TokenizerType
<1>4. a \in Seq(Paths) /\ b \in Seq(Paths) /\ x \in Seq(Paths) /\ y \in Seq(Paths)
  BY <1>2, <1>3, KeptAre
<1>5. PICK k : FrontPassed(a, b, x, y, k)
  BY <1>1 DEF FrontMet
<1>6. right <=> FrontRight(a, b)
  BY <1>1, RightIs
<1>7. /\ x = <<>> => m.token = <<>>
      /\ x # <<>> => /\ m.token = x[1] /\ m.token # <<>> /\ m.rest \in Tokenizers
                     /\ DropsFirst(x, Kept(m.rest, "starts"))
  BY <1>2, TokenNextIs
<1>8. /\ y = <<>> => o.token = <<>>
      /\ y # <<>> => /\ o.token = y[1] /\ o.token # <<>> /\ o.rest \in Tokenizers
                     /\ DropsFirst(y, Kept(o.rest, "starts"))
  BY <1>2, TokenNextIs
<1>9. /\ x = <<>> /\ y = <<>> => FrontRight(a, b)
      /\ x = <<>> /\ y # <<>> => ~ FrontRight(a, b)
      /\ x # <<>> /\ y = <<>> => ~ FrontRight(a, b)
      /\ x # <<>> /\ y # <<>> /\ ~ Compare(x[1], y[1]) => ~ FrontRight(a, b)
      /\ \A v, w \in Seq(Paths) :
           x # <<>> /\ y # <<>> /\ Compare(x[1], y[1]) /\ DropsFirst(x, v) /\ DropsFirst(y, w)
             => FrontPassed(a, b, v, w, k + 1)
  BY <1>4, <1>5, FrontTurn
<1>10. IF m.token = <<>> \/ o.token = <<>> THEN Answered(m.token = o.token)
       ELSE Turn(m, o) \/ (~ Compare(m.token, o.token) /\ Answered(FALSE))
  BY DEF TurnStarts
<1> HIDE DEF m, o, a, b, x, y, right
<1>11. ASSUME NEW says, says \in BOOLEAN, says <=> right, Answered(says)
       PROVE  Matching(path, match') /\ Answering(path, answer')
  <2>1. match' = None /\ answer' = [asked |-> "starts", of |-> match.of, says |-> says]
    BY <1>1, <1>11, Zenon DEF Answered, Says
  <2>2. Answering(path, [asked |-> "starts", of |-> match.of, says |-> says])
    BY <1>11, SaidRight DEF right
  <2>3. Answering(path, answer')
    BY <2>1, <2>2, Zenon
  <2>4. Matching(path, match')
    BY <2>1, Zenon DEF Matching
  <2>. QED  BY <2>3, <2>4
<1>12. CASE m.token = <<>> \/ o.token = <<>>
  <2>1. (m.token = o.token) <=> right
    BY <1>6, <1>7, <1>8, <1>9, <1>12
  <2>2. Answered(m.token = o.token)
    BY <1>10, <1>12
  <2> DEFINE says == m.token = o.token
  <2>3. says \in BOOLEAN
    OBVIOUS
  <2>. QED  BY <1>11, <2>1, <2>2, <2>3
<1>13. CASE m.token # <<>> /\ o.token # <<>> /\ ~ Compare(m.token, o.token) /\ Answered(FALSE)
  <2>1. FALSE <=> right
    BY <1>6, <1>7, <1>8, <1>9, <1>13
  <2>. QED  BY <1>11, <1>13, <2>1
<1>14. CASE m.token # <<>> /\ o.token # <<>> /\ Turn(m, o)
  <2>1. /\ Compare(m.token, o.token) /\ answer' = answer
        /\ match' = [match EXCEPT !.mine = m.rest, !.other = o.rest]
    BY <1>14 DEF Turn
  <2>2. x # <<>> /\ y # <<>>
    BY <1>7, <1>8, <1>14
  <2> DEFINE v == Kept(m.rest, "starts")
             w == Kept(o.rest, "starts")
             l == k + 1
  <2>3. v \in Seq(Paths) /\ w \in Seq(Paths)
    BY <1>7, <1>8, <2>2, KeptAre
  <2>4. FrontPassed(a, b, v, w, l)
    BY <1>7, <1>8, <1>9, <2>1, <2>2, <2>3
  <2>5. /\ match' \in Matches /\ match'.of = match.of /\ match'.asked = "starts"
        /\ match'.mine = m.rest /\ match'.other = o.rest
    BY <1>1, <1>7, <1>8, <2>1, <2>2 DEF Matches
  <2> HIDE DEF l
  <2>6. FrontMet(path, match')
    <3>1. FrontPassed(Kept(Tokenizer(path), "starts"), Kept(Tokenizer(match'.of), "starts"),
                      Kept(match'.mine, "starts"), Kept(match'.other, "starts"), l)
      BY <2>4, <2>5 DEF a, b
    <3>. QED  BY <3>1, Zenon DEF FrontMet
  <2>7. Matching(path, match')
    BY <1>1, <2>5, <2>6 DEF Matching
  <2>. QED  BY <2>1, <2>7 DEF AnswersInv
<1>. QED  BY <1>10, <1>12, <1>13, <1>14


(* When both are at their end, nothing is left to compare in the next turn *)
(* either.                                                                 *)
LEMMA EndsTurns ==
  ASSUME AnswersInv, TurnEnds
  PROVE  Matching(path, match') /\ Answering(path, answer')
<1> DEFINE m == TokenNextBack(match.mine)
           o == TokenNextBack(match.other)
           a == Kept(Tokenizer(path), "ends")
           b == Kept(Tokenizer(match.of), "ends")
           x == Kept(match.mine, "ends")
           y == Kept(match.other, "ends")
           right == Right(path, match.of, "ends")
<1>1. /\ match \in Matches /\ path # <<>> /\ match.of # <<>> /\ Roots(path, match.of)
      /\ match.asked = "ends" /\ BackMet(path, match) /\ path \in Paths
  BY DEF AnswersInv, Matching, TurnEnds, PathType
<1>2. match.mine \in Tokenizers /\ match.other \in Tokenizers /\ match.of \in Paths
  BY <1>1 DEF Matches
<1>3. Tokenizer(path) \in Tokenizers /\ Tokenizer(match.of) \in Tokenizers
  BY <1>1, <1>2, TokenizerType
<1>4. a \in Seq(Paths) /\ b \in Seq(Paths) /\ x \in Seq(Paths) /\ y \in Seq(Paths)
  BY <1>2, <1>3, KeptAre
<1>5. PICK k : BackPassed(a, b, x, y, k)
  BY <1>1 DEF BackMet
<1>6. right <=> BackRight(a, b)
  BY <1>1, RightIs
<1>7. /\ m.rest \in Tokenizers
      /\ x = <<>> => m.token = <<>> /\ Kept(m.rest, "ends") = <<>>
      /\ x # <<>> => /\ m.token = x[Len(x)] /\ m.token # <<>>
                     /\ DropsLast(x, Kept(m.rest, "ends"))
  BY <1>2, TokenNextBackIs
<1>8. /\ o.rest \in Tokenizers
      /\ y = <<>> => o.token = <<>> /\ Kept(o.rest, "ends") = <<>>
      /\ y # <<>> => /\ o.token = y[Len(y)] /\ o.token # <<>>
                     /\ DropsLast(y, Kept(o.rest, "ends"))
  BY <1>2, TokenNextBackIs
<1>9. /\ y = <<>> => BackRight(a, b)
      /\ x = <<>> /\ y # <<>> => ~ BackRight(a, b)
      /\ x # <<>> /\ y # <<>> /\ ~ Compare(x[Len(x)], y[Len(y)]) => ~ BackRight(a, b)
      /\ \A v, w \in Seq(Paths) :
           x # <<>> /\ y # <<>> /\ Compare(x[Len(x)], y[Len(y)])
           /\ DropsLast(x, v) /\ DropsLast(y, w) => BackPassed(a, b, v, w, k + 1)
  BY <1>4, <1>5, BackTurn
<1>10. IF m.token = <<>> /\ o.token = <<>> THEN Turn(m, o)
       ELSE IF m.token = <<>> \/ o.token = <<>> THEN Answered(o.token = <<>>)
       ELSE Turn(m, o) \/ (~ Compare(m.token, o.token) /\ Answered(FALSE))
  BY DEF TurnEnds
<1> HIDE DEF m, o, a, b, x, y, right
<1>11. ASSUME NEW says, says \in BOOLEAN, says <=> right, Answered(says)
       PROVE  Matching(path, match') /\ Answering(path, answer')
  <2>1. match' = None /\ answer' = [asked |-> "ends", of |-> match.of, says |-> says]
    BY <1>1, <1>11, Zenon DEF Answered, Says
  <2>2. Answering(path, [asked |-> "ends", of |-> match.of, says |-> says])
    BY <1>11, SaidRight DEF right
  <2>3. Answering(path, answer')
    BY <2>1, <2>2, Zenon
  <2>4. Matching(path, match')
    BY <2>1, Zenon DEF Matching
  <2>. QED  BY <2>3, <2>4
<1>12. ASSUME Turn(m, o), NEW l, BackPassed(a, b, Kept(m.rest, "ends"), Kept(o.rest, "ends"), l)
       PROVE  Matching(path, match') /\ Answering(path, answer')
  <2>1. /\ answer' = answer
        /\ match' = [match EXCEPT !.mine = m.rest, !.other = o.rest]
    BY <1>12 DEF Turn
  <2>2. /\ match' \in Matches /\ match'.of = match.of /\ match'.asked = "ends"
        /\ match'.mine = m.rest /\ match'.other = o.rest
    BY <1>1, <1>7, <1>8, <2>1 DEF Matches
  <2>3. BackMet(path, match')
    <3>1. BackPassed(Kept(Tokenizer(path), "ends"), Kept(Tokenizer(match'.of), "ends"),
                     Kept(match'.mine, "ends"), Kept(match'.other, "ends"), l)
      BY <1>12, <2>2 DEF a, b
    <3>. QED  BY <3>1, Zenon DEF BackMet
  <2>4. Matching(path, match')
    BY <1>1, <2>2, <2>3 DEF Matching
  <2>. QED  BY <2>1, <2>4 DEF AnswersInv
<1>13. CASE m.token = <<>> /\ o.token = <<>>
  <2>1. x = <<>> /\ y = <<>> /\ Kept(m.rest, "ends") = x /\ Kept(o.rest, "ends") = y
    BY <1>7, <1>8, <1>13
  <2>2. BackPassed(a, b, Kept(m.rest, "ends"), Kept(o.rest, "ends"), k)
    BY <1>5, <2>1
  <2>3. Turn(m, o)
    BY <1>10, <1>13
  <2>. QED  BY <1>12, <2>2, <2>3
<1>14. CASE (m.token = <<>> \/ o.token = <<>>) /\ ~ (m.token = <<>> /\ o.token = <<>>)
  <2>1. (o.token = <<>>) <=> right
    BY <1>6, <1>7, <1>8, <1>9, <1>14
  <2>2. Answered(o.token = <<>>)
    BY <1>10, <1>14
  <2> DEFINE says == o.token = <<>>
  <2>3. says \in BOOLEAN
    OBVIOUS
  <2>. QED  BY <1>11, <2>1, <2>2, <2>3
<1>15. CASE m.token # <<>> /\ o.token # <<>> /\ ~ Compare(m.token, o.token) /\ Answered(FALSE)
  <2>1. FALSE <=> right
    BY <1>6, <1>7, <1>8, <1>9, <1>15
  <2>. QED  BY <1>11, <1>15, <2>1
<1>16. CASE m.token # <<>> /\ o.token # <<>> /\ Turn(m, o)
  <2>1. Compare(m.token, o.token)
    BY <1>16 DEF Turn
  <2>2. x # <<>> /\ y # <<>>
    BY <1>7, <1>8, <1>16
  <2>3. Kept(m.rest, "ends") \in Seq(Paths) /\ Kept(o.rest, "ends") \in Seq(Paths)
    BY <1>7, <1>8, KeptAre
  <2>4. BackPassed(a, b, Kept(m.rest, "ends"), Kept(o.rest, "ends"), k + 1)
    BY <1>7, <1>8, <1>9, <2>1, <2>2, <2>3
  <2>. QED  BY <1>12, <1>16, <2>4
<1>. QED  BY <1>10, <1>13, <1>14, <1>15, <1>16

LEMMA AskedBegins ==
  ASSUME NEW p \in Paths, NEW q \in Paths, p # <<>>, q # <<>>, Roots(p, q), NEW asked \in Ways
  PROVE  Matching(p, [asked |-> asked, of |-> q, mine |-> Tokenizer(p), other |-> Tokenizer(q)])
<1> DEFINE m == [asked |-> asked, of |-> q, mine |-> Tokenizer(p), other |-> Tokenizer(q)]
           A(w) == Kept(Tokenizer(p), w)
           B(w) == Kept(Tokenizer(q), w)
<1>1. Tokenizer(p) \in Tokenizers /\ Tokenizer(q) \in Tokenizers
  BY TokenizerType
<1>2. /\ m \in Matches /\ m.asked = asked /\ m.of = q
      /\ m.mine = Tokenizer(p) /\ m.other = Tokenizer(q)
  BY <1>1 DEF Matches
<1>3. \A w : A(w) \in Seq(Paths) /\ B(w) \in Seq(Paths)
  BY <1>1, KeptAre
<1> HIDE DEF m
<1>4. FrontMet(p, m)
  <2> DEFINE a == A("starts")
             b == B("starts")
  <2>1. a \in Seq(Paths) /\ b \in Seq(Paths)
    BY <1>3
  <2> HIDE DEF a, b
  <2>2. FrontPassed(a, b, a, b, 0)
    BY <2>1 DEF FrontPassed
  <2>. QED  BY <1>2, <2>2 DEF FrontMet, a, b
<1>5. BackMet(p, m)
  <2> DEFINE a == A("ends")
             b == B("ends")
  <2>1. a \in Seq(Paths) /\ b \in Seq(Paths)
    BY <1>3
  <2> HIDE DEF a, b
  <2>2. BackPassed(a, b, a, b, 0)
    BY <2>1 DEF BackPassed
  <2>. QED  BY <1>2, <2>2 DEF BackMet, a, b
<1>6. Matching(p, m)
  BY <1>2, <1>4, <1>5, Zenon DEF Matching
<1>. QED  BY <1>6 DEF m

LEMMA AskedKeeps ==
  ASSUME AnswersInv, NEW q \in Others[platform], StartsWith(q) \/ EndsWith(q)
  PROVE  Matching(path, match') /\ Answering(path, answer')
<1>1. path \in Paths /\ q \in Paths
  BY Given DEF AnswersInv, PathType
<1>2. SameRoots(q) <=> Roots(path, q)
  BY DEF SameRoots, Roots
<1>3. PICK asked \in Ways : \E says :
        IF path = <<>> \/ q = <<>> THEN Says(asked, q, says) /\ UNCHANGED match
        ELSE IF SameRoots(q) THEN Compared(asked, q)
        ELSE Says(asked, q, FALSE) /\ UNCHANGED match
  <2>1. "starts" \in Ways /\ "ends" \in Ways
    BY DEF Ways
  <2>. QED  BY <2>1, Zenon DEF StartsWith, EndsWith
<1>4. match = None
  BY DEF StartsWith, EndsWith
<1>5. CASE path = <<>> \/ q = <<>>
  <2>1. PICK says : answer' = [asked |-> asked, of |-> q, says |-> says] /\ match' = None
    BY <1>3, <1>4, <1>5, Zenon DEF Says
  <2>2. answer'.of = q
    BY <2>1
  <2>. QED  BY <1>5, <2>1, <2>2, Zenon DEF Matching, Answering
<1>6. CASE path # <<>> /\ q # <<>> /\ SameRoots(q)
  <2>1. /\ match' = [asked |-> asked, of |-> q, mine |-> Tokenizer(path), other |-> Tokenizer(q)]
        /\ answer' = None
    BY <1>3, <1>6, Zenon DEF Compared
  <2>2. Matching(path, match')
    BY <1>1, <1>2, <1>6, <2>1, AskedBegins
  <2>. QED  BY <2>1, <2>2, Zenon DEF Answering
<1>7. CASE path # <<>> /\ q # <<>> /\ ~ SameRoots(q)
  <2>1. Says(asked, q, FALSE) /\ match' = None
    BY <1>3, <1>4, <1>7
  <2>2. answer' = [asked |-> asked, of |-> q, says |-> FALSE]
    BY <2>1, Zenon DEF Says
  <2>3. ~ Right(path, q, asked)
    BY <1>2, <1>7, RightIs
  <2>4. Answering(path, [asked |-> asked, of |-> q, says |-> FALSE])
    BY <2>3, SaidRight
  <2>5. Answering(path, answer')
    BY <2>2, <2>4, Zenon
  <2>. QED  BY <2>1, <2>5, Zenon DEF Matching
<1>. QED  BY <1>5, <1>6, <1>7

LEMMA ChangedKeeps ==
  ASSUME NEW p, Becomes(p)
  PROVE  match' = None /\ answer' = None
BY DEF Becomes

LEMMA AnswersStep ==
  ASSUME AnswersInv, [Next]_vars
  PROVE  AnswersInv'
<1>1. PathType'
  BY TypeStep DEF AnswersInv
<1>2. platform' = platform
  BY DEF Next, vars, TakePart, ReplacePart, Join, TakeFullPath, TakeNormal, MakeName, Becomes,
         StartsWith, EndsWith, TurnStarts, TurnEnds
<1>3. SUFFICES Matching(path', match') /\ Answering(path', answer')
  <2>1. /\ \A p, m : Matching(p, m)' <=> Matching(p, m)
        /\ \A p, a : Answering(p, a)' <=> Answering(p, a)
    BY <1>2, SameMatching
  <2>. QED  BY <1>1, <1>3, <2>1 DEF AnswersInv
<1>4. ASSUME match' = None, answer' = None
      PROVE  Matching(path', match') /\ Answering(path', answer')
  BY <1>4, Zenon DEF Matching, Answering
<1>5. CASE TakePart \/ ReplacePart \/ Join \/ TakeFullPath \/ TakeNormal \/ MakeName
  <2>1. \E p : Becomes(p)
    BY <1>5, Zenon DEF TakePart, ReplacePart, Join, TakeFullPath, TakeNormal, MakeName
  <2>. QED  BY <1>4, <2>1, ChangedKeeps
<1>6. ASSUME NEW q \in Others[platform], StartsWith(q) \/ EndsWith(q)
      PROVE  Matching(path', match') /\ Answering(path', answer')
  <2>1. path' = path
    BY <1>6 DEF StartsWith, EndsWith
  <2>. QED  BY <1>6, <2>1, AskedKeeps
<1>7. CASE TurnStarts
  <2>1. path' = path
    BY <1>7 DEF TurnStarts
  <2>. QED  BY <1>7, <2>1, StartsTurns
<1>8. CASE TurnEnds
  <2>1. path' = path
    BY <1>8 DEF TurnEnds
  <2>. QED  BY <1>8, <2>1, EndsTurns
<1>9. CASE UNCHANGED vars
  BY <1>9 DEF vars, AnswersInv
<1>. QED  BY <1>5, <1>6, <1>7, <1>8, <1>9, Zenon DEF Next

(* What is right for each of the two questions, that starts_with says TRUE *)
(* exactly of the same components, is more than AnswersRight asks of it.   *)
LEMMA AllAlike ==
  ASSUME NEW mine \in Seq(Paths), NEW other, Alike(mine, other)
  PROVE  SubSeq(mine, 1, Len(other)) = mine
<1>1. Len(mine) = Len(other) /\ Len(mine) \in Nat
  BY DEF Alike
<1>2. /\ 1 \in Int /\ Len(mine) \in Int /\ 1 <= 1 /\ Len(mine) <= Len(mine)
      /\ Len(mine) - 1 + 1 = Len(mine) /\ \A i \in 1 .. Len(mine) : 1 + i - 1 = i
  BY <1>1
<1>3. /\ SubSeq(mine, 1, Len(mine)) \in Seq(Paths)
      /\ Len(SubSeq(mine, 1, Len(mine))) = IF 1 <= Len(mine) THEN Len(mine) - 1 + 1 ELSE 0
      /\ \A i \in 1 .. Len(mine) - 1 + 1 : SubSeq(mine, 1, Len(mine))[i] = mine[1 + i - 1]
  BY <1>2, Cut
<1>4. /\ Len(SubSeq(mine, 1, Len(mine))) = Len(mine)
      /\ \A i \in 1 .. Len(mine) : SubSeq(mine, 1, Len(mine))[i] = mine[i]
  BY <1>1, <1>2, <1>3
<1>. QED  BY <1>1, <1>3, <1>4

LEMMA RightlyAnswered == AnswersInv => AnswersRight
<1> DEFINE asked == answer.asked
           mine == Kept(Tokenizer(path), asked)
           other == Kept(Tokenizer(answer.of), asked)
           head == SubSeq(mine, 1, Len(other))
           tail == SubSeq(mine, Len(mine) - Len(other) + 1, Len(mine))
           fits == SameRoots(answer.of) /\ Len(mine) >= Len(other)
<1> SUFFICES ASSUME AnswersInv, answer # None, path # <<>>, answer.of # <<>>
             PROVE  IF asked = "starts"
                      THEN /\ answer.says => fits /\ Alike(head, other)
                           /\ fits /\ Alike(mine, other) => answer.says
                    ELSE answer.says = (fits /\ Alike(tail, other))
  BY Zenon DEF AnswersRight
<1>1. answer.says = (SameRoots(answer.of) /\ Len(mine) >= Len(other)
                     /\ Alike(IF asked = "starts" THEN mine ELSE tail, other))
  BY Zenon DEF AnswersInv, Answering, Right, Roots, SameRoots
<1>2. mine \in Seq(Paths)
  BY TokenizerType, KeptAre DEF AnswersInv, PathType
<1>3. Alike(mine, other) => head = mine
  <2> HIDE DEF mine, other
  <2>. QED  BY <1>2, AllAlike
<1>4. CASE asked = "starts"
  <2> HIDE DEF head, tail, other, mine
  <2>1. answer.says = (fits /\ Alike(mine, other))
    <3>1. (IF asked = "starts" THEN mine ELSE tail) = mine
      BY <1>4
    <3>. QED  BY <1>1, <3>1
  <2> HIDE DEF fits
  <2>. QED  BY <1>3, <1>4, <2>1
<1>5. CASE asked # "starts"
  <2> HIDE DEF head, tail, other, mine
  <2>1. (IF asked = "starts" THEN mine ELSE tail) = tail
    BY <1>5
  <2>2. answer.says = (fits /\ Alike(tail, other))
    BY <1>1, <2>1
  <2>. QED  BY <1>5, <2>2
<1>. QED  BY <1>4, <1>5

(* Every answer ends_with gives is the one that comparing all the          *)
(* components at once gives; starts_with says TRUE of prefixes only, and   *)
(* of every path with the same components; for paths of any length.        *)
THEOREM RightAnswers == Spec => []AnswersRight
<1>1. Init => AnswersInv
  <2>1. SUFFICES ASSUME Init PROVE AnswersInv
    OBVIOUS
  <2>2. match = None /\ answer = None
    BY <2>1 DEF Init
  <2>. QED  BY <2>1, <2>2, TypeInit, Zenon DEF AnswersInv, Matching, Answering
<1>2. AnswersInv /\ [Next]_vars => AnswersInv'
  BY AnswersStep
<1>3. AnswersInv => AnswersRight
  BY RightlyAnswered
<1>. QED  BY <1>1, <1>2, <1>3, PTL DEF Spec

---------------------------------------------------------------------------
(* Resolving.  A sequence put behind the others.                           *)
LEMMA FlattenAppend ==
  ASSUME NEW C, NEW s \in Seq(Seq(C)), NEW x \in Seq(C)
  PROVE  FlattenSeq(Append(s, x)) = FlattenSeq(s) \o x
<1> DEFINE r == Append(s, x)
           n == Len(s)
<1>1. /\ r \in Seq(Seq(C)) /\ r # <<>> /\ Len(r) = n + 1 /\ n \in Nat
      /\ \A i \in 1 .. n : r[i] = s[i]
      /\ r[n + 1] = x
  BY AppendProperties, LenProperties
<1>2. FlattenSeq(s) \in Seq(C)
  BY FlattenType
<1> HIDE DEF r, n
<1>3. PICK g \in [1 .. Len(r) -> Seq(C)] :
        /\ g[1] = r[1] /\ \A i \in 2 .. Len(r) : g[i] = g[i - 1] \o r[i]
        /\ FlattenSeq(r) = g[Len(r)]
  BY <1>1, FlattenIs
<1>4. CASE s = <<>>
  <2>1. n = 0 /\ FlattenSeq(s) = <<>>
    BY <1>4 DEF FlattenSeq, n
  <2>2. FlattenSeq(r) = x
    BY <1>1, <1>3, <2>1
  <2>3. <<>> \o x = x
    BY ConcatEmptySeq
  <2>. QED  BY <2>1, <2>2, <2>3 DEF r
<1>5. CASE s # <<>>
  <2>1. PICK f \in [1 .. n -> Seq(C)] :
          /\ f[1] = s[1] /\ \A i \in 2 .. n : f[i] = f[i - 1] \o s[i]
          /\ FlattenSeq(s) = f[n]
    BY <1>5, FlattenIs DEF n
  <2>2. n >= 1
    BY <1>1, <1>5, EmptySeq DEF n
  <2> DEFINE S == {i \in 1 .. n : f[i] = g[i]}
  <2>3. 1 \in S
    BY <1>1, <1>3, <2>1, <2>2
  <2>4. ASSUME NEW i \in 1 .. n - 1, i \in S PROVE i + 1 \in S
    <3>1. i + 1 \in 2 .. n /\ i + 1 \in 2 .. Len(r) /\ i + 1 - 1 = i /\ i + 1 \in 1 .. n
      BY <1>1, <2>2
    <3>2. PICK k \in 2 .. n : k = i + 1 /\ k - 1 = i /\ k \in 2 .. Len(r) /\ k \in 1 .. n
      BY <3>1
    <3>3. f[k] = f[k - 1] \o s[k] /\ g[k] = g[k - 1] \o r[k]
      BY <1>3, <2>1, <3>2, Zenon
    <3>4. f[i] = g[i] /\ r[k] = s[k]
      BY <1>1, <2>4, <3>2
    <3>5. f[k] = g[k]
      BY <3>2, <3>3, <3>4
    <3>. QED  BY <3>2, <3>5
  <2> HIDE DEF S
  <2>5. 1 \in Int /\ n \in Int /\ \A i \in 1 .. n - 1 : i \in S => i + 1 \in S
    BY <1>1, <2>4
  <2>6. 1 .. n \subseteq S
    BY <2>3, <2>5, Climb
  <2>7. f[n] = g[n]
    BY <1>1, <2>2, <2>6 DEF S
  <2>8. PICK k \in 2 .. Len(r) : k = n + 1 /\ k - 1 = n
    BY <1>1, <2>2
  <2>9. g[k] = g[k - 1] \o r[k]
    BY <1>3, <2>8, Zenon
  <2>. QED  BY <1>1, <1>3, <2>1, <2>7, <2>8, <2>9 DEF r
<1>. QED  BY <1>4, <1>5

(* Names without a separator, and the path that a sequence of them makes.  *)
Plains == Seq(Characters \ {"/"})
Routes   == Seq(Plains)

LEMMA PlainsAre ==
  /\ "/" \in Characters
  /\ \A c \in Plains : /\ c \in Paths /\ Len(c) \in Nat
                       /\ \A i \in 1 .. Len(c) : c[i] # "/"
                       /\ <<"/">> \o c \in Paths
<1>1. "/" \in Characters
  BY CharactersAssumption
<1>2. ASSUME NEW c \in Plains
      PROVE  /\ c \in Paths /\ Len(c) \in Nat
             /\ \A i \in 1 .. Len(c) : c[i] # "/"
             /\ <<"/">> \o c \in Paths
  <2>1. c \in Seq(Characters \ {"/"})
    BY DEF Plains
  <2>2. c \in Seq(Characters)
    <3>1. Characters \ {"/"} \subseteq Characters
      OBVIOUS
    <3>. QED  BY <2>1, <3>1, SeqMonotonic
  <2>3. \A i \in 1 .. Len(c) : c[i] \in Characters \ {"/"}
    BY <2>1, ElementOfSeq
  <2>4. <<"/">> \in Seq(Characters)
    BY <1>1
  <2>. QED  BY <2>2, <2>3, <2>4, ConcatProperties, LenProperties DEF Paths
<1>. QED  BY <1>1, <1>2

LEMMA WrittenIs ==
  /\ <<>> \in Routes /\ Written(<<>>) = <<>>
  /\ \A at \in Routes : Written(at) \in Paths
  /\ \A at \in Routes, c \in Plains :
       Append(at, c) \in Routes /\ Written(Append(at, c)) = Written(at) \o (<<"/">> \o c)
<1> DEFINE W(at) == [k \in DOMAIN at |-> <<"/">> \o at[k]]
<1>1. \A at : Written(at) = FlattenSeq(W(at))
  BY DEF Written
<1>2. ASSUME NEW at \in Routes
      PROVE  /\ Len(at) \in Nat /\ DOMAIN at = 1 .. Len(at)
             /\ W(at) \in Seq(Paths) /\ Len(W(at)) = Len(at)
             /\ \A i \in 1 .. Len(at) : W(at)[i] = <<"/">> \o at[i]
  <2>1. at \in Seq(Plains)
    BY DEF Routes
  <2>2. Len(at) \in Nat /\ DOMAIN at = 1 .. Len(at) /\ \A i \in 1 .. Len(at) : at[i] \in Plains
    BY <2>1, LenProperties, ElementOfSeq
  <2>3. \A i \in 1 .. Len(at) : <<"/">> \o at[i] \in Paths
    BY <2>2, PlainsAre
  <2>. QED  BY <2>2, <2>3
<1>3. <<>> \in Routes /\ Written(<<>>) = <<>>
  <2>1. <<>> \in Routes
    BY EmptySeq DEF Routes
  <2>2. Len(W(<<>>)) = 0 /\ W(<<>>) \in Seq(Paths)
    <3>1. Len(<<>>) = 0
      OBVIOUS
    <3> HIDE DEF W
    <3>. QED  BY <1>2, <2>1, <3>1
  <2>3. W(<<>>) = <<>>
    <3> HIDE DEF W
    <3>. QED  BY <2>2, EmptySeq
  <2>4. FlattenSeq(<<>>) = <<>>
    BY DEF FlattenSeq
  <2>. QED  BY <1>1, <2>1, <2>3, <2>4
<1>4. ASSUME NEW at \in Routes PROVE Written(at) \in Paths
  <2>1. W(at) \in Seq(Seq(Characters))
    BY <1>2 DEF Paths
  <2> HIDE DEF W
  <2>. QED  BY <1>1, <2>1, FlattenType DEF Paths
<1>5. ASSUME NEW at \in Routes, NEW c \in Plains
      PROVE  Append(at, c) \in Routes /\ Written(Append(at, c)) = Written(at) \o (<<"/">> \o c)
  <2> DEFINE b == Append(at, c)
             y == <<"/">> \o c
  <2>1. /\ b \in Routes /\ Len(b) = Len(at) + 1
        /\ \A i \in 1 .. Len(at) : b[i] = at[i]
        /\ b[Len(at) + 1] = c
    BY AppendProperties DEF Routes
  <2>2. y \in Paths
    BY PlainsAre
  <2> HIDE DEF b, y
  <2>3. /\ Len(at) \in Nat
        /\ W(at) \in Seq(Paths) /\ Len(W(at)) = Len(at)
        /\ \A i \in 1 .. Len(at) : W(at)[i] = <<"/">> \o at[i]
    BY <1>2
  <2>4. /\ W(b) \in Seq(Paths) /\ Len(W(b)) = Len(b)
        /\ \A i \in 1 .. Len(b) : W(b)[i] = <<"/">> \o b[i]
    BY <1>2, <2>1
  <2> HIDE DEF W
  <2>5. /\ Append(W(at), y) \in Seq(Paths) /\ Len(Append(W(at), y)) = Len(at) + 1
        /\ \A i \in 1 .. Len(at) : Append(W(at), y)[i] = W(at)[i]
        /\ Append(W(at), y)[Len(at) + 1] = y
    BY <2>2, <2>3, AppendProperties
  <2>6. ASSUME NEW i \in 1 .. Len(b) PROVE W(b)[i] = Append(W(at), y)[i]
    <3>1. i \in 1 .. Len(at) \/ i = Len(at) + 1
      BY <2>1, <2>3
    <3>2. W(b)[i] = <<"/">> \o b[i]
      BY <2>4
    <3>3. CASE i \in 1 .. Len(at)
      BY <3>2, <3>3, <2>1, <2>3, <2>5
    <3>4. CASE i = Len(at) + 1
      BY <3>2, <3>4, <2>1, <2>5 DEF y
    <3>. QED  BY <3>1, <3>3, <3>4
  <2>7. Len(W(b)) = Len(Append(W(at), y))
    BY <2>1, <2>4, <2>5
  <2>7a. \A i \in 1 .. Len(W(b)) : W(b)[i] = Append(W(at), y)[i]
    BY <2>4, <2>6
  <2>8. W(b) = Append(W(at), y)
    BY <2>4, <2>5, <2>7, <2>7a, SeqEqual
  <2>9. FlattenSeq(Append(W(at), y)) = FlattenSeq(W(at)) \o y
    BY <2>2, <2>3, FlattenAppend DEF Paths
  <2>. QED  BY <1>1, <2>1, <2>8, <2>9 DEF b, y
<1>. QED  BY <1>3, <1>4, <1>5

(* The last separator of such a path is the one before its last name.      *)
LEMMA RewoundIs ==
  ASSUME ~ Windows, NEW at \in Routes, NEW c \in Plains
  PROVE  Rewound(Written(Append(at, c))) = Written(at)
<1> DEFINE w == Written(at)
           y == <<"/">> \o c
           out == w \o y
           S == {i \in 1 .. Len(out) - 1 : At(out, i) = DirSep}
<1>1. /\ w \in Paths /\ Len(w) \in Nat
      /\ c \in Paths /\ Len(c) \in Nat /\ \A i \in 1 .. Len(c) : c[i] # "/"
      /\ y \in Paths
  BY PlainsAre, WrittenIs, LenProperties DEF Paths
<1>2. Written(Append(at, c)) = out
  BY WrittenIs
<1>3. /\ Len(y) = Len(c) + 1 /\ y[1] = "/"
      /\ \A i \in 1 .. Len(c) : y[1 + i] = c[i]
  <2>1. <<"/">> \in Paths /\ Len(<<"/">>) = 1 /\ <<"/">>[1] = "/"
    BY PlainsAre DEF Paths
  <2>. QED  BY <1>1, <2>1, PathsJoined
<1> HIDE DEF w, y
<1>4. /\ out \in Paths /\ Len(out) = Len(w) + Len(y)
      /\ \A i \in 1 .. Len(w) : out[i] = w[i]
      /\ \A i \in 1 .. Len(y) : out[Len(w) + i] = y[i]
  BY <1>1, PathsJoined
<1> HIDE DEF out
<1>5. DirSep = "/"
  BY DEF DirSep
<1>6. Rewound(out) = Upto(out, LastOf(S, 0))
  BY DEF Rewound
<1>7. /\ S \subseteq 1 .. Len(out) - 1
      /\ \A i \in 1 .. Len(out) - 1 : i \in S <=> out[i + 1] = "/"
  BY <1>5 DEF At
<1> HIDE DEF S
<1>8. out[Len(w) + 1] = "/" /\ \A i \in 1 .. Len(c) : out[Len(w) + 1 + i] # "/"
  <2>1. 1 \in 1 .. Len(y) /\ \A i \in 1 .. Len(c) : 1 + i \in 1 .. Len(y)
    BY <1>1, <1>3
  <2>2. \A i \in 1 .. Len(c) : out[Len(w) + (1 + i)] = c[i] /\ Len(w) + (1 + i) = Len(w) + 1 + i
    BY <1>1, <1>3, <1>4, <2>1
  <2>. QED  BY <1>1, <1>3, <1>4, <2>1, <2>2
<1>9. LastOf(S, 0) = Len(w)
  <2>1. 1 \in Int /\ Len(out) - 1 \in Int
    BY <1>1, <1>3, <1>4
  <2>2. /\ S = {} => LastOf(S, 0) = 0
        /\ S # {} => LastOf(S, 0) \in S /\ \A k \in S : k <= LastOf(S, 0)
    BY <1>7, <2>1, LastOfIs
  <2>3. ASSUME NEW i \in S PROVE i <= Len(w) /\ i \in Int
    <3>1. i \in 1 .. Len(out) - 1 /\ out[i + 1] = "/"
      BY <1>7
    <3>2. ASSUME i > Len(w) PROVE FALSE
      <4>1. i - Len(w) \in 1 .. Len(c) /\ Len(w) + 1 + (i - Len(w)) = i + 1
        BY <1>1, <1>3, <1>4, <3>1, <3>2
      <4>. QED  BY <1>8, <3>1, <4>1
    <3>. QED  BY <1>1, <3>1, <3>2
  <2>4. CASE Len(w) = 0
    <3>1. S = {}
      BY <1>7, <2>3, <2>4
    <3>. QED  BY <2>2, <2>4, <3>1
  <2>5. CASE Len(w) # 0
    <3>1. Len(w) \in S
      BY <1>1, <1>3, <1>4, <1>7, <1>8, <2>5
    <3>2. LastOf(S, 0) \in S /\ Len(w) <= LastOf(S, 0)
      BY <2>2, <3>1
    <3>. QED  BY <1>1, <2>3, <3>2
  <2>. QED  BY <2>4, <2>5
<1>10. Upto(out, Len(w)) = w
  <2>1. Len(w) \in 0 .. Len(out)
    BY <1>1, <1>3, <1>4
  <2>2. /\ Upto(out, Len(w)) \in Paths /\ Len(Upto(out, Len(w))) = Len(w)
        /\ \A i \in 1 .. Len(w) : Upto(out, Len(w))[i] = out[i]
    BY <1>4, <2>1, UptoIs DEF Paths
  <2>. QED  BY <1>1, <1>4, <2>2, SeqEqual DEF Paths
<1>. QED  BY <1>2, <1>6, <1>9, <1>10 DEF out, w, y

(* The walk: where each component leads.                                   *)
LEMMA GoneType ==
  ASSUME NEW at \in Routes, NEW c \in Plains
  PROVE  Gone(at, c) \in Routes
<1>1. Append(at, c) \in Routes
  BY WrittenIs
<1>2. at # <<>> => Front(at) \in Routes
  <2>1. ASSUME at # <<>> PROVE Front(at) \in Routes
    <3>1. at \in Seq(Plains) /\ Len(at) \in Nat /\ Len(at) # 0
      BY <2>1, EmptySeq DEF Routes
    <3>2. Len(at) - 1 \in 0 .. Len(at)
      BY <3>1
    <3>3. Upto(at, Len(at) - 1) \in Seq(Plains)
      BY <3>1, <3>2, UptoIs
    <3>. QED  BY <3>3 DEF Front, Upto, Routes
  <2>. QED  BY <2>1
<1>. QED  BY <1>1, <1>2 DEF Gone

LEMMA UpIs ==
  ASSUME ~ Windows, NEW at \in Routes
  PROVE  Rewound(Written(at)) = Written(Gone(at, <<".", ".">>))
<1>1. CASE at = <<>>
  <2>1. Gone(at, <<".", ".">>) = at
    BY <1>1 DEF Gone
  <2>2. Rewound(<<>>) = <<>>
    <3>1. {i \in 1 .. Len(<<>>) - 1 : At(<<>>, i) = DirSep} = {}
      OBVIOUS
    <3>2. Rewound(<<>>) = Upto(<<>>, 0)
      BY <3>1 DEF Rewound, LastOf
    <3>. QED  BY <3>2, SubSeqEmpty DEF Upto
  <2>. QED  BY <1>1, <2>1, <2>2, WrittenIs
<1>2. CASE at # <<>>
  <2>1. PICK b \in Routes, c \in Plains : at = Append(b, c)
    BY <1>2, SequenceEmptyOrAppend DEF Routes
  <2>2. Front(at) = b
    <3>1. /\ at \in Seq(Plains) /\ b \in Seq(Plains) /\ Len(b) \in Nat /\ Len(at) = Len(b) + 1
          /\ \A i \in 1 .. Len(b) : at[i] = b[i]
      BY <2>1, AppendProperties, LenProperties DEF Routes
    <3>2. Len(b) \in 0 .. Len(at) /\ Len(at) - 1 = Len(b)
      BY <3>1
    <3>3. /\ Upto(at, Len(b)) \in Seq(Plains) /\ Len(Upto(at, Len(b))) = Len(b)
          /\ \A i \in 1 .. Len(b) : Upto(at, Len(b))[i] = at[i]
      BY <3>1, <3>2, UptoIs
    <3>4. Upto(at, Len(b)) = b
      BY <3>1, <3>3, SeqEqual
    <3>. QED  BY <3>2, <3>4 DEF Front, Upto
  <2>3. <<".", ".">> # <<".">>
    <3>1. Len(<<".", ".">>) = 2 /\ Len(<<".">>) = 1
      OBVIOUS
    <3>. QED  BY <3>1
  <2>4. Gone(at, <<".", ".">>) = Front(at)
    BY <1>2, <2>3 DEF Gone
  <2>. QED  BY <2>1, <2>2, <2>4, RewoundIs
<1>. QED  BY <1>1, <1>2

(* The components of a Unix path.                                          *)
LEMMA SlashOnly ==
  ASSUME ~ Windows
  PROVE  DirSep = "/" /\ \A c : Sep(c) <=> c = "/"
<1>1. DirSep = "/"
  BY DEF DirSep
<1>2. \A c : Sep(c) <=> c = DirSep
  BY Zenon DEF Sep, IsDirsep
<1>. QED  BY <1>1, <1>2

LEMMA NamesIn ==
  ASSUME ~ Windows, NEW p \in Paths, NEW i \in Starts(Whole(p))
  PROVE  LET e == EndOf(Whole(p), i)
             c == Token(Whole(p), i)
         IN  /\ i \in Int /\ 0 <= i /\ e \in i + 1 .. Len(p)
             /\ \A j \in i + 1 .. e : p[j] # "/"
             /\ e = Len(p) \/ p[e + 1] = "/"
             /\ c \in Plains /\ Len(c) = e - i /\ \A j \in 1 .. e - i : c[j] = p[i + j]
<1> DEFINE e == EndOf(Whole(p), i)
           c == Token(Whole(p), i)
<1>1. Whole(p) \in Tokenizers /\ Whole(p).left = p
  <2>1. FALSE \in BOOLEAN
    OBVIOUS
  <2>. QED  BY <2>1, Zenon DEF Whole, Tokenizers, Marks
<1>2. /\ e \in i + 1 .. Len(p) /\ EndsBy(p, Whole(p).verbatim, i, e)
      /\ c \in Paths /\ Len(c) = e - i
      /\ \A j \in 1 .. e - i : c[j] = p[i + j]
  <2>1. /\ e \in i + 1 .. Len(Whole(p).left)
        /\ EndsBy(Whole(p).left, Whole(p).verbatim, i, e)
        /\ c \in Paths /\ Len(c) = e - i
        /\ \A j \in 1 .. e - i : c[j] = Whole(p).left[i + j]
    BY <1>1, TokenIs
  <2>. QED  BY <1>1, <2>1
<1>3. (\A j \in i + 1 .. e : ~ Sep(p[j])) /\ (e = Len(p) \/ Sep(p[e + 1]))
  <2>1. Whole(p).verbatim = FALSE
    BY Zenon DEF Whole
  <2> HIDE DEF e
  <2>. QED  BY <1>2, <2>1, Zenon DEF EndsBy, Sep
<1>4. i \in Int /\ 0 <= i /\ i < Len(p) /\ Len(p) \in Nat
  <2>1. Starts(Whole(p)) \subseteq 0 .. Len(p) - 1
    BY StartsAre
  <2>2. Len(p) \in Nat
    BY DEF Paths
  <2>. QED  BY <2>1, <2>2
<1> HIDE DEF e, c
<1>5. \A j \in i + 1 .. e : p[j] # "/"
  BY <1>3, SlashOnly
<1>6. e = Len(p) \/ p[e + 1] = "/"
  BY <1>3, SlashOnly
<1>7. c \in Plains
  <2>1. \A j \in 1 .. Len(c) : c[j] \in Characters \ {"/"}
    <3>1. ASSUME NEW j \in 1 .. Len(c) PROVE c[j] \in Characters /\ c[j] # "/"
      <4>1. c[j] \in Characters
        BY <1>2, ElementOfSeq DEF Paths
      <4>2. j \in 1 .. e - i /\ i + j \in i + 1 .. e
        BY <1>2, <1>4
      <4>. QED  BY <1>2, <1>5, <4>1, <4>2
    <3>. QED  BY <3>1
  <2>2. Len(c) \in Nat /\ c \in [1 .. Len(c) -> Characters]
    BY <1>2, LenProperties DEF Paths
  <2>3. c \in [1 .. Len(c) -> Characters \ {"/"}]
    BY <2>1, <2>2
  <2>4. \A n \in Nat : [1 .. n -> Characters \ {"/"}] \subseteq Seq(Characters \ {"/"})
    BY SeqDef
  <2>. QED  BY <2>2, <2>3, <2>4 DEF Plains
<1>. QED  BY <1>2, <1>4, <1>5, <1>6, <1>7 DEF e, c

Named(p, k) == Token(Whole(p), Nth(Starts(Whole(p)), k))
Many(p)     == Cardinality(Starts(Whole(p)))

LEMMA ManyAre ==
  ASSUME NEW p \in Paths
  PROVE  /\ Starts(Whole(p)) \subseteq 0 .. Len(p) - 1
         /\ Enumerated(Starts(Whole(p)), 0, Len(p) - 1)
         /\ Many(p) \in Nat
<1>1. Starts(Whole(p)) \subseteq 0 .. Len(p) - 1
  BY StartsAre
<1>2. Enumerated(Starts(Whole(p)), 0, Len(p) - 1)
  <2>1. 0 \in Int /\ Len(p) - 1 \in Int
    BY DEF Paths
  <2>. QED  BY <1>1, <2>1, PlacesAre DEF Within
<1>. QED  BY <1>1, <1>2 DEF Enumerated, Many

LEMMA WalkIs ==
  ASSUME ~ Windows, NEW p \in Paths
  PROVE  \E at \in [0 .. Many(p) -> Routes] :
           /\ at[0] = <<>>
           /\ \A n \in 1 .. Many(p) : at[n] = Gone(at[n - 1], Named(p, n))
           /\ Walk(p) = at[Many(p)]
<1> DEFINE L == Many(p)
           cs == Components(p)
           G == [x \in (1 .. L) \X Routes |-> Gone(x[2], Named(p, x[1]))]
           Put(f, n) == IF n = 0 THEN <<>> ELSE Gone(f[n - 1], cs[n])
           g == CHOOSE f : f = [n \in 0 .. L |-> Put(f, n)]
<1>1. /\ L \in Nat /\ <<>> \in Routes
      /\ cs = [k \in 1 .. L |-> Named(p, k)]
      /\ \A k \in 1 .. L : Named(p, k) \in Plains
  <2>1. \A k \in 1 .. Many(p) : Nth(Starts(Whole(p)), k) \in Starts(Whole(p))
    BY ManyAre DEF Enumerated, Many
  <2>2. \A k \in 1 .. Many(p) : Named(p, k) \in Plains
    BY <2>1, NamesIn DEF Named
  <2>3. cs = [k \in 1 .. Many(p) |-> Named(p, k)]
    BY ComponentsAre DEF Named, Many
  <2>. QED  BY <2>2, <2>3, ManyAre, WrittenIs
<1>2. Len(cs) = L /\ \A k \in 1 .. L : cs[k] = Named(p, k)
  <2> HIDE DEF cs, L
  <2>1. cs \in Seq(Plains)
    BY <1>1
  <2>. QED  BY <1>1
<1>3. Walk(p) = g[L]
  <2>1. Walk(p) = (CHOOSE f : f = [n \in 0 .. Len(cs) |->
                                    IF n = 0 THEN <<>> ELSE Gone(f[n - 1], cs[n])])[Len(cs)]
    BY DEF Walk
  <2>. QED  BY <1>2, <2>1
<1> HIDE DEF L, cs
<1>4. \A n \in 1 .. L, at \in Routes : Gone(at, Named(p, n)) \in Routes
  BY <1>1, GoneType
<1>5. G \in [(1 .. L) \X Routes -> Routes]
  <2>1. \A x \in (1 .. L) \X Routes : x[1] \in 1 .. L /\ x[2] \in Routes
    OBVIOUS
  <2>. QED  BY <1>4, <2>1
<1>6. \A n \in 1 .. L, at \in Routes : G[<<n, at>>] = Gone(at, Named(p, n))
  <2>1. \A n \in 1 .. L, at \in Routes : <<n, at>> \in (1 .. L) \X Routes
    OBVIOUS
  <2>2. \A n, at : <<n, at>>[1] = n /\ <<n, at>>[2] = at
    OBVIOUS
  <2>. QED  BY <2>1, <2>2
<1> HIDE DEF G
<1>7. PICK h \in [0 .. L -> Routes] : Runs(h, L, <<>>, G)
  BY <1>1, <1>5, Recursion
<1>8. \A n \in 0 .. L : h[n] = Put(h, n)
  <2>1. \A n \in 0 .. L : n = 0 \/ (n \in 1 .. L /\ n - 1 \in 0 .. L /\ n # 0)
    BY <1>1
  <2>2. ASSUME NEW n \in 1 .. L PROVE h[n] = Gone(h[n - 1], cs[n])
    <3>1. h[n - 1] \in Routes
      BY <1>7, <2>1
    <3>2. h[n] = G[<<n, h[n - 1]>>]
      BY <1>7 DEF Runs
    <3>. QED  BY <1>2, <1>6, <3>1, <3>2
  <2>3. h[0] = <<>>
    BY <1>7 DEF Runs
  <2>. QED  BY <2>1, <2>2, <2>3
<1>9. h = [n \in 0 .. L |-> Put(h, n)]
  <2> HIDE DEF Put
  <2>. QED  BY <1>7, <1>8
<1>10. g = [n \in 0 .. L |-> Put(g, n)]
  BY <1>9
<1> HIDE DEF g
<1>11. \A n \in 0 .. L : g[n] = Put(g, n)
  <2> HIDE DEF Put
  <2>. QED  BY <1>10
<1>12. g[0] = <<>> /\ \A n \in 1 .. L : g[n] = Gone(g[n - 1], Named(p, n))
  <2>1. 0 \in 0 .. L /\ \A n \in 1 .. L : n \in 0 .. L /\ n # 0
    BY <1>1
  <2>. QED  BY <1>2, <1>11, <2>1
<1> DEFINE T == {n \in 0 .. L : g[n] \in Routes}
<1>13. 0 .. L \subseteq T
  <2>1. 0 \in T
    BY <1>1, <1>12
  <2>2. ASSUME NEW n \in 0 .. L - 1, n \in T PROVE n + 1 \in T
    <3>1. PICK k \in 1 .. L : k = n + 1 /\ k - 1 = n /\ k \in 0 .. L
      BY <1>1
    <3>2. g[k] = Gone(g[k - 1], Named(p, k))
      BY <1>12, <3>1, Zenon
    <3>3. g[k] \in Routes
      BY <1>4, <2>2, <3>1, <3>2
    <3>. QED  BY <3>1, <3>3
  <2> HIDE DEF T
  <2>3. 0 \in Int /\ L \in Int /\ \A n \in 0 .. L - 1 : n \in T => n + 1 \in T
    BY <1>1, <2>2
  <2>. QED  BY <2>1, <2>3, Climb
<1>14. g \in [0 .. L -> Routes]
  <2> HIDE DEF Put
  <2>. QED  BY <1>10, <1>13
<1>. QED  BY <1>3, <1>12, <1>14 DEF L

(* What becomes of a character: one dealt with already and a separator     *)
(* before another are dropped, the separator before a "." or a ".." stands *)
(* for that component, any other character is written.                     *)
Begins(p, i) == i + 1 < Len(p) /\ p[i + 1] = "/" /\ p[i + 2] # "/"

LEMMA BeginsAt ==
  ASSUME ~ Windows, NEW p \in Paths, NEW i \in 0 .. Len(p) - 1, Begins(p, i)
  PROVE  /\ i + 1 \in Starts(Whole(p))
         /\ LET e == EndOf(Whole(p), i + 1)
                c == Token(Whole(p), i + 1)
            IN  /\ c = <<".">> <=> p[i + 2] = "." /\ (i + 2 = Len(p) \/ (i + 2 < Len(p) /\ p[i + 3] = "/"))
                /\ c = <<".">> => e = i + 2
                /\ c = <<".", ".">> <=> /\ p[i + 2] = "." /\ i + 2 < Len(p) /\ p[i + 3] = "."
                                        /\ i + 3 = Len(p) \/ (i + 3 < Len(p) /\ p[i + 4] = "/")
                /\ c = <<".", ".">> => e = i + 3
<1>1. Len(p) \in Nat /\ i \in Int /\ 0 <= i /\ i + 1 < Len(p) /\ p[i + 1] = "/" /\ p[i + 2] # "/"
  BY DEF Paths, Begins
<1>2. i + 1 \in Starts(Whole(p))
  <2>1. i + 1 \in 0 .. Len(p) - 1 /\ i + 1 + 1 = i + 2 /\ i + 1 # 0
    BY <1>1
  <2>2. ~ Sep(p[i + 1 + 1]) /\ Sep(p[i + 1])
    BY <1>1, <2>1, SlashOnly
  <2>. QED  BY <2>1, <2>2, StartsAre
<1> DEFINE e == EndOf(Whole(p), i + 1)
           c == Token(Whole(p), i + 1)
<1>3. /\ e \in i + 1 + 1 .. Len(p)
      /\ \A j \in i + 1 + 1 .. e : p[j] # "/"
      /\ e = Len(p) \/ p[e + 1] = "/"
      /\ c \in Plains /\ Len(c) = e - (i + 1) /\ \A j \in 1 .. e - (i + 1) : c[j] = p[i + 1 + j]
  BY <1>2, NamesIn
<1> HIDE DEF e, c
<1>4. /\ e \in Int /\ i + 2 <= e /\ e <= Len(p)
      /\ \A j \in Int : i + 2 <= j /\ j <= e => p[j] # "/"
      /\ e = Len(p) \/ p[e + 1] = "/"
      /\ c \in Plains /\ Len(c) = e - (i + 1)
      /\ c[1] = p[i + 2] /\ (e > i + 2 => c[2] = p[i + 3])
  <2>1. e \in Int /\ i + 2 <= e /\ e <= Len(p)
    BY <1>1, <1>3
  <2>2. \A j \in Int : i + 2 <= j /\ j <= e => j \in i + 1 + 1 .. e
    BY <1>1, <2>1
  <2>3. c[1] = p[i + 1 + 1] /\ (e > i + 2 => c[2] = p[i + 1 + 2])
    BY <1>1, <1>3, <2>1
  <2>. QED  BY <1>1, <1>3, <2>1, <2>2, <2>3
<1>5. /\ c = <<".">> <=> Len(c) = 1 /\ c[1] = "."
      /\ c = <<".", ".">> <=> Len(c) = 2 /\ c[1] = "." /\ c[2] = "."
  <2>1. c \in Seq(Characters \ {"/"})
    BY <1>4 DEF Plains
  <2>. QED  BY <2>1
<1>6. c = <<".">> <=> p[i + 2] = "." /\ (i + 2 = Len(p) \/ (i + 2 < Len(p) /\ p[i + 3] = "/"))
  <2>1. c = <<".">> <=> e = i + 2 /\ p[i + 2] = "."
    BY <1>1, <1>4, <1>5
  <2>2. e = i + 2 => i + 2 = Len(p) \/ (i + 2 < Len(p) /\ p[i + 3] = "/")
    <3>1. e + 1 = i + 3 \/ e # i + 2
      BY <1>1, <1>4
    <3>. QED  BY <1>1, <1>4, <3>1
  <2>3. i + 2 < Len(p) /\ p[i + 3] = "/" => e < i + 3
    BY <1>1, <1>4
  <2>4. i + 2 = Len(p) \/ (i + 2 < Len(p) /\ p[i + 3] = "/") => e = i + 2
    BY <1>1, <1>4, <2>3
  <2>. QED  BY <2>1, <2>2, <2>4
<1>7. c = <<".", ".">> <=> /\ p[i + 2] = "." /\ i + 2 < Len(p) /\ p[i + 3] = "."
                           /\ i + 3 = Len(p) \/ (i + 3 < Len(p) /\ p[i + 4] = "/")
  <2>1. c = <<".", ".">> <=> e = i + 3 /\ p[i + 2] = "." /\ p[i + 3] = "."
    BY <1>1, <1>4, <1>5
  <2>2. e = i + 3 => i + 3 = Len(p) \/ (i + 3 < Len(p) /\ p[i + 4] = "/")
    <3>1. e + 1 = i + 4 \/ e # i + 3
      BY <1>1, <1>4
    <3>. QED  BY <1>1, <1>4, <3>1
  <2>3. i + 3 < Len(p) /\ p[i + 4] = "/" => e < i + 4
    BY <1>1, <1>4
  <2>4. i + 2 < Len(p) /\ p[i + 3] = "." => e # i + 2
    <3>1. e = i + 2 => e + 1 = i + 3
      BY <1>1, <1>4
    <3>. QED  BY <1>4, <3>1
  <2>5. i + 2 < Len(p) /\ p[i + 3] = "." /\ (i + 3 = Len(p) \/ (i + 3 < Len(p) /\ p[i + 4] = "/"))
          => e = i + 3
    BY <1>1, <1>4, <2>3, <2>4
  <2>6. e = i + 3 => i + 2 < Len(p)
    BY <1>1, <1>4
  <2>. QED  BY <2>1, <2>2, <2>5, <2>6
<1>8. (c = <<".">> => e = i + 2) /\ (c = <<".", ".">> => e = i + 3)
  BY <1>1, <1>4, <1>5
<1>. QED  BY <1>2, <1>6, <1>7, <1>8 DEF e, c

LEMMA TurnIs ==
  ASSUME ~ Windows, NEW p \in Paths, NEW t \in States, NEW i \in 0 .. Len(p) - 1
  PROVE  LET r == Resolved(p, t, i)
             e == EndOf(Whole(p), i + 1)
             c == Token(Whole(p), i + 1)
         IN  /\ i < t.next => r = t
             /\ i + 1 < Len(p) /\ p[i + 1] = "/" /\ p[i + 2] = "/" => r = t
             /\ t.next <= i /\ (p[i + 1] # "/" \/ i + 1 = Len(p)) =>
                  r.out = Append(t.out, p[i + 1]) /\ r.next = t.next
             /\ t.next <= i /\ Begins(p, i) =>
                  /\ c = <<".">> => r.out = t.out /\ r.next = e
                  /\ c = <<".", ".">> => r.out = Rewound(t.out) /\ r.next = e
                  /\ c # <<".">> /\ c # <<".", ".">> =>
                       r.out = Append(t.out, "/") /\ r.next = t.next
<1> DEFINE r == Resolved(p, t, i)
           e == EndOf(Whole(p), i + 1)
           c == Token(Whole(p), i + 1)
           Is(j, x) == j < Len(p) /\ At(p, j) = x
           Ends(j)  == j = Len(p) \/ Is(j, DirSep)
           starts == Is(i, DirSep) /\ i + 1 < Len(p)
           dot  == starts /\ Is(i + 1, ".") /\ Ends(i + 2)
           dots == starts /\ Is(i + 1, ".") /\ Is(i + 2, ".") /\ Ends(i + 3)
           over == starts /\ Is(i + 1, DirSep)
           Dot  == [t EXCEPT !.next = i + 2]
           Dots == [out |-> Rewound(t.out), next |-> i + 3]
           Put  == [t EXCEPT !.out = Append(@, At(p, i))]
<1>1. /\ Len(p) \in Nat /\ i \in Int /\ 0 <= i /\ i < Len(p) /\ t.next \in Int
      /\ t = [out |-> t.out, next |-> t.next]
  BY DEF Paths, States
<1>2. /\ i < t.next \/ over => r = t
      /\ ~ i < t.next /\ ~ over /\ dot => r = Dot
      /\ ~ i < t.next /\ ~ over /\ ~ dot /\ dots => r = Dots
      /\ ~ i < t.next /\ ~ over /\ ~ dot /\ ~ dots => r = Put
  BY DEF Resolved
<1>3. /\ Dot.out = t.out /\ Dot.next = i + 2
      /\ Dots.out = Rewound(t.out) /\ Dots.next = i + 3
      /\ Put.out = Append(t.out, p[i + 1]) /\ Put.next = t.next
  BY <1>1 DEF At
<1> HIDE DEF r, Dot, Dots, Put
<1>4. /\ starts <=> p[i + 1] = "/" /\ i + 1 < Len(p)
      /\ over <=> p[i + 1] = "/" /\ i + 1 < Len(p) /\ p[i + 2] = "/"
      /\ dot <=> /\ p[i + 1] = "/" /\ i + 1 < Len(p) /\ p[i + 2] = "."
                 /\ i + 2 = Len(p) \/ (i + 2 < Len(p) /\ p[i + 3] = "/")
      /\ dots <=> /\ p[i + 1] = "/" /\ i + 1 < Len(p) /\ p[i + 2] = "."
                  /\ i + 2 < Len(p) /\ p[i + 3] = "."
                  /\ i + 3 = Len(p) \/ (i + 3 < Len(p) /\ p[i + 4] = "/")
  <2>1. i + 1 + 1 = i + 2 /\ i + 2 + 1 = i + 3 /\ i + 3 + 1 = i + 4
    BY <1>1
  <2>2. \A x : /\ Is(i, x) <=> p[i + 1] = x
               /\ Is(i + 1, x) <=> i + 1 < Len(p) /\ p[i + 2] = x
               /\ Is(i + 2, x) <=> i + 2 < Len(p) /\ p[i + 3] = x
               /\ Is(i + 3, x) <=> i + 3 < Len(p) /\ p[i + 4] = x
    BY <1>1, <2>1 DEF At
  <2>3. DirSep = "/"
    BY SlashOnly
  <2> HIDE DEF Is
  <2>. QED  BY <2>2, <2>3
<1> HIDE DEF starts, dot, dots, over
<1>5. i < t.next => r = t
  BY <1>2
<1>6. i + 1 < Len(p) /\ p[i + 1] = "/" /\ p[i + 2] = "/" => r = t
  BY <1>2, <1>4
<1>7. t.next <= i /\ (p[i + 1] # "/" \/ i + 1 = Len(p)) =>
        r.out = Append(t.out, p[i + 1]) /\ r.next = t.next
  <2>1. t.next <= i => ~ i < t.next
    BY <1>1
  <2>2. p[i + 1] # "/" \/ i + 1 = Len(p) => ~ over /\ ~ dot /\ ~ dots
    BY <1>1, <1>4
  <2>. QED  BY <1>2, <1>3, <2>1, <2>2
<1>8. ASSUME t.next <= i, Begins(p, i)
      PROVE  /\ c = <<".">> => r.out = t.out /\ r.next = e
             /\ c = <<".", ".">> => r.out = Rewound(t.out) /\ r.next = e
             /\ c # <<".">> /\ c # <<".", ".">> =>
                  r.out = Append(t.out, "/") /\ r.next = t.next
  <2>1. ~ i < t.next /\ ~ over
    BY <1>1, <1>4, <1>8 DEF Begins
  <2>2. /\ c = <<".">> <=> p[i + 2] = "." /\ (i + 2 = Len(p) \/ (i + 2 < Len(p) /\ p[i + 3] = "/"))
        /\ c = <<".">> => e = i + 2
        /\ c = <<".", ".">> <=> /\ p[i + 2] = "." /\ i + 2 < Len(p) /\ p[i + 3] = "."
                                /\ i + 3 = Len(p) \/ (i + 3 < Len(p) /\ p[i + 4] = "/")
        /\ c = <<".", ".">> => e = i + 3
    BY <1>8, BeginsAt
  <2>3. p[i + 1] = "/" /\ i + 1 < Len(p)
    BY <1>8 DEF Begins
  <2> HIDE DEF c, e
  <2>4. (dot <=> c = <<".">>) /\ (dots <=> c = <<".", ".">>)
    BY <1>4, <2>2, <2>3
  <2>5. c = <<".", ".">> => c # <<".">>
    <3>1. Len(<<".", ".">>) = 2 /\ Len(<<".">>) = 1
      OBVIOUS
    <3>. QED  BY <3>1
  <2>6. CASE c = <<".">>
    <3>1. r = Dot
      BY <1>2, <2>1, <2>4, <2>6
    <3>2. r.out = t.out /\ r.next = e
      BY <1>3, <2>2, <2>6, <3>1
    <3>. QED  BY <2>5, <2>6, <3>2
  <2>7. CASE c = <<".", ".">>
    <3>1. r = Dots
      BY <1>2, <2>1, <2>4, <2>5, <2>7
    <3>2. r.out = Rewound(t.out) /\ r.next = e
      BY <1>3, <2>2, <2>7, <3>1
    <3>. QED  BY <2>5, <2>7, <3>2
  <2>8. CASE c # <<".">> /\ c # <<".", ".">>
    <3>1. r = Put
      BY <1>2, <2>1, <2>4, <2>8
    <3>. QED  BY <1>3, <2>3, <2>8, <3>1
  <2>. QED  BY <2>6, <2>7, <2>8
<1>. QED  BY <1>5, <1>6, <1>7, <1>8 DEF r, c, e

(* One more character of a component written.                              *)
LEMMA OneMore ==
  ASSUME NEW p \in Paths, NEW w \in Paths, NEW s \in Nat, NEW n \in Nat, s <= n, n < Len(p)
  PROVE  Append(w \o (<<"/">> \o SubSeq(p, s + 1, n)), p[n + 1])
           = w \o (<<"/">> \o SubSeq(p, s + 1, n + 1))
<1> DEFINE x == SubSeq(p, s + 1, n)
           c == p[n + 1]
           b == <<"/">>
<1>1. Len(p) \in Nat /\ p \in Seq(Characters) /\ c \in Characters
  <2>1. Len(p) \in Nat /\ p \in Seq(Characters)
    BY DEF Paths
  <2>2. n + 1 \in 1 .. Len(p)
    BY <2>1
  <2>. QED  BY <2>1, <2>2, ElementOfSeq
<1>2. x \in Seq(Characters)
  <2>1. s + 1 \in Int /\ n \in Int /\ 1 <= s + 1 /\ n <= Len(p)
    BY <1>1
  <2>. QED  BY <1>1, <2>1, Cut
<1>3. SubSeq(p, s + 1, n + 1) = x \o <<c>>
  <2>1. s + 1 \in 1 .. Len(p) /\ n + 1 \in s + 1 .. Len(p) /\ n + 1 - 1 = n
    BY <1>1
  <2>2. SubSeq(p, s + 1, n + 1) = SubSeq(p, s + 1, n + 1 - 1) \o <<p[n + 1]>>
    BY <1>1, <2>1, SubSeqRecursiveSecond
  <2>. QED  BY <2>1, <2>2
<1>4. w \in Seq(Characters) /\ b \in Seq(Characters) /\ <<c>> \in Seq(Characters)
  BY <1>1, PlainsAre DEF Paths
<1> HIDE DEF x, c, b
<1>5. b \o x \in Seq(Characters) /\ w \o (b \o x) \in Seq(Characters)
  BY <1>2, <1>4, ConcatProperties
<1>6. Append(w \o (b \o x), c) = (w \o (b \o x)) \o <<c>>
  BY <1>1, <1>5, AppendIsConcat
<1>7. (w \o (b \o x)) \o <<c>> = w \o ((b \o x) \o <<c>>)
  BY <1>4, <1>5, ConcatAssociative
<1>8. (b \o x) \o <<c>> = b \o (x \o <<c>>)
  BY <1>2, <1>4, ConcatAssociative
<1>. QED  BY <1>3, <1>6, <1>7, <1>8 DEF x, c, b

(* After the characters before n, k components have begun: what Resolve    *)
(* has written is the way walked so far, with as much of the component it  *)
(* is in as it has seen.                                                   *)
Walked(p, at) ==
  /\ at \in [0 .. Many(p) -> Routes] /\ at[0] = <<>>
  /\ \A k \in 1 .. Many(p) : at[k] = Gone(at[k - 1], Named(p, k))

Place(p, k)  == Nth(Starts(Whole(p)), k)
Ending(p, k) == IF k = 0 THEN 0 ELSE EndOf(Whole(p), Place(p, k))
Special(c)   == c = <<".">> \/ c = <<".", ".">>

Latest(p, n, k) ==
  /\ k \in 0 .. Many(p) /\ (k > 0 => Place(p, k) <= n)
  /\ \A z \in Starts(Whole(p)) : z <= n => k > 0 /\ z <= Place(p, k)

Midway(p, at, t, n, k) ==
  \/ t.next = Ending(p, k) /\ t.out = Written(at[k])
  \/ /\ t.next <= Place(p, k) /\ ~ Special(Named(p, k))
     /\ t.out = Written(at[k - 1]) \o (<<"/">> \o SubSeq(p, Place(p, k) + 1, n))

Held(p, at, t, n, k) ==
  /\ Latest(p, n, k) /\ t.next <= Ending(p, k)
  /\ n > Ending(p, k) => p[n] = "/"
  /\ n >= Ending(p, k) => t.out = Written(at[k])
  /\ n < Ending(p, k) => Midway(p, at, t, n, k)

LEMMA PlaceIs ==
  ASSUME ~ Windows, NEW p \in Paths, NEW k \in 1 .. Many(p)
  PROVE  LET s == Place(p, k)
             e == Ending(p, k)
         IN  /\ s \in Starts(Whole(p)) /\ s \in Nat /\ e \in Nat /\ s < e /\ e <= Len(p)
             /\ \A j \in Nat : s <= j /\ j < e => p[j + 1] # "/"
             /\ e = Len(p) \/ p[e + 1] = "/"
             /\ Named(p, k) \in Plains /\ Named(p, k) = SubSeq(p, s + 1, e)
             /\ e = EndOf(Whole(p), s) /\ Named(p, k) = Token(Whole(p), s)
<1> DEFINE s == Place(p, k)
           e == EndOf(Whole(p), s)
<1>1. s \in Starts(Whole(p))
  BY ManyAre DEF Enumerated, Many, Place
<1>2. /\ s \in Int /\ 0 <= s /\ e \in s + 1 .. Len(p)
      /\ \A j \in s + 1 .. e : p[j] # "/"
      /\ e = Len(p) \/ p[e + 1] = "/"
      /\ Token(Whole(p), s) \in Plains
  BY <1>1, NamesIn
<1>3. Ending(p, k) = e /\ Named(p, k) = Token(Whole(p), s)
  BY DEF Ending, Place, Named
<1>4. Token(Whole(p), s) = SubSeq(p, s + 1, e)
  BY Zenon DEF Token, Whole
<1> HIDE DEF s, e
<1>5. Len(p) \in Nat
  BY DEF Paths
<1>6. \A j \in Nat : s <= j /\ j < e => p[j + 1] # "/"
  <2>1. \A j \in Nat : s <= j /\ j < e => j + 1 \in s + 1 .. e
    BY <1>2
  <2>. QED  BY <1>2, <2>1
<1>7. s \in Nat /\ e \in Nat /\ s < e /\ e <= Len(p)
  BY <1>2, <1>5
<1>. QED  BY <1>1, <1>2, <1>3, <1>4, <1>6, <1>7 DEF s, e

LEMMA WayIs ==
  ASSUME ~ Windows, NEW p \in Paths, NEW at, Walked(p, at), NEW k \in 1 .. Many(p)
  PROVE  /\ at[k - 1] \in Routes /\ at[k] \in Routes
         /\ Named(p, k) = <<".">> => Written(at[k]) = Written(at[k - 1])
         /\ Named(p, k) = <<".", ".">> => Written(at[k]) = Rewound(Written(at[k - 1]))
         /\ ~ Special(Named(p, k)) => Written(at[k]) = Written(at[k - 1]) \o (<<"/">> \o Named(p, k))
<1> DEFINE b == at[k - 1]
           c == Named(p, k)
<1>1. b \in Routes /\ at[k] \in Routes /\ at[k] = Gone(b, c)
  <2>1. Many(p) \in Nat
    BY ManyAre
  <2>2. k - 1 \in 0 .. Many(p) /\ k \in 0 .. Many(p)
    BY <2>1
  <2>. QED  BY <2>2 DEF Walked
<1>2. c \in Plains
  BY PlaceIs
<1> HIDE DEF b, c
<1>3. c = <<".">> => Gone(b, c) = b
  BY DEF Gone
<1>4. ~ Special(c) => Gone(b, c) = Append(b, c)
  BY DEF Gone, Special
<1>5. c = <<".", ".">> => Written(at[k]) = Rewound(Written(b))
  BY <1>1, UpIs
<1>6. ~ Special(c) => Written(at[k]) = Written(b) \o (<<"/">> \o c)
  BY <1>1, <1>2, <1>4, WrittenIs
<1>. QED  BY <1>1, <1>3, <1>5, <1>6 DEF b, c

(* Where one is in the path, from the character at n.                      *)
LEMMA Whereabouts ==
  ASSUME ~ Windows, NEW p \in Paths, p[1] = "/",
         NEW n \in 0 .. Len(p) - 1, NEW k, Latest(p, n, k),
         n > Ending(p, k) => p[n] = "/"
  PROVE  /\ n \in Nat /\ Len(p) \in Nat /\ Ending(p, k) \in Nat /\ Ending(p, k) <= Len(p)
         /\ p[n + 1] # "/" => n < Ending(p, k)
         /\ p[n + 1] = "/" => Ending(p, k) <= n
         /\ n < Ending(p, k) => k \in 1 .. Many(p)
<1>1. n \in Nat /\ Len(p) \in Nat /\ n < Len(p) /\ Many(p) \in Nat /\ k \in 0 .. Many(p)
  <2>1. Len(p) \in Nat
    BY DEF Paths
  <2>. QED  BY <2>1, ManyAre DEF Latest
<1>2. k = 0 => Ending(p, k) = 0
  BY DEF Ending
<1>3. k # 0 => k \in 1 .. Many(p)
  BY <1>1
<1>4. ASSUME k # 0
      PROVE  /\ Place(p, k) \in Nat /\ Ending(p, k) \in Nat /\ Place(p, k) < Ending(p, k)
             /\ Ending(p, k) <= Len(p) /\ Place(p, k) <= n
             /\ \A j \in Nat : Place(p, k) <= j /\ j < Ending(p, k) => p[j + 1] # "/"
             /\ Ending(p, k) = Len(p) \/ p[Ending(p, k) + 1] = "/"
  BY <1>1, <1>3, <1>4, PlaceIs DEF Latest
<1>5. Ending(p, k) \in Nat /\ Ending(p, k) <= Len(p)
  BY <1>1, <1>2, <1>4
<1>6. ASSUME p[n + 1] # "/" PROVE n < Ending(p, k)
  <2>1. ASSUME n = Ending(p, k) PROVE FALSE
    <3>1. k # 0
      BY <1>2, <1>6, <2>1
    <3>. QED  BY <1>1, <1>4, <1>6, <2>1, <3>1
  <2>2. ASSUME n > Ending(p, k) PROVE FALSE
    <3>1. p[n] = "/" /\ n # 0
      BY <1>1, <1>5, <2>2
    <3>2. n \in Starts(Whole(p))
      BY <1>6, <3>1, StartsAre, SlashOnly
    <3>3. k > 0 /\ n <= Place(p, k)
      BY <1>1, <3>2 DEF Latest
    <3>. QED  BY <1>1, <1>4, <2>2, <3>3
  <2>. QED  BY <1>1, <1>5, <2>1, <2>2
<1>7. ASSUME p[n + 1] = "/" PROVE Ending(p, k) <= n
  <2>1. CASE k = 0
    BY <1>1, <1>2, <2>1
  <2>2. CASE k # 0
    BY <1>1, <1>4, <1>7, <2>2
  <2>. QED  BY <2>1, <2>2
<1>8. n < Ending(p, k) => k \in 1 .. Many(p)
  BY <1>1, <1>2, <1>3
<1>. QED  BY <1>1, <1>5, <1>6, <1>7, <1>8

LEMMA SameLatest ==
  ASSUME NEW p, NEW n \in Nat, NEW k, Latest(p, n, k), Starts(Whole(p)) \subseteq Int,
         n + 1 \notin Starts(Whole(p)), k > 0 => Place(p, k) \in Int
  PROVE  Latest(p, n + 1, k)
<1>1. \A z \in Starts(Whole(p)) : z <= n + 1 => z <= n
  OBVIOUS
<1>. QED  BY <1>1 DEF Latest

LEMMA NextLatest ==
  ASSUME NEW p \in Paths, NEW n \in Nat, NEW k, Latest(p, n, k), n + 1 \in Starts(Whole(p))
  PROVE  k + 1 \in 1 .. Many(p) /\ Place(p, k + 1) = n + 1 /\ Latest(p, n + 1, k + 1)
<1> DEFINE S == Starts(Whole(p))
           L == Len(p) - 1
<1>1. /\ S \subseteq 0 .. L /\ L \in Int /\ Many(p) \in Nat /\ k \in 0 .. Many(p)
      /\ \A j \in 1 .. Many(p) : Place(p, j) \in S
  <2>1. L \in Int
    BY DEF Paths
  <2>. QED  BY <2>1, ManyAre DEF Latest, Enumerated, Place, Many
<1> HIDE DEF L
<1>2. k + 1 \in 1 .. Many(p) /\ Place(p, k + 1) = n + 1
  <2>1. CASE k = 0
    <3>1. S \subseteq n + 1 .. L
      <4>1. \A z \in S : z \in Int /\ z <= L /\ ~ z <= n
        BY <1>1, <2>1 DEF Latest
      <4>. QED  BY <4>1
    <3>2. n + 1 \in S /\ n + 1 \in Int
      OBVIOUS
    <3> HIDE DEF S
    <3>3. 1 \in 1 .. Cardinality(S) /\ Nth(S, 1) = n + 1
      BY <1>1, <3>1, <3>2, NthFirst
    <3>. QED  BY <2>1, <3>3 DEF Many, Place, S
  <2>2. CASE k # 0
    <3>1. k \in 1 .. Many(p)
      BY <1>1, <2>2
    <3>2. Nth(S, k) \in S /\ Nth(S, k) <= n /\ \A z \in S : z <= n => z <= Nth(S, k)
      BY <1>1, <3>1 DEF Latest, Place
    <3>3. n + 1 \in S
      OBVIOUS
    <3> HIDE DEF S
    <3>4. Adjacent(S, Nth(S, k), n + 1)
      <4>1. \A z \in S : z \in Int
        BY <1>1
      <4>2. \A z \in S : z <= Nth(S, k) \/ n + 1 <= z
        BY <3>2, <4>1
      <4>3. Nth(S, k) < n + 1
        BY <3>2, <4>1
      <4>. QED  BY <4>2, <4>3 DEF Adjacent
    <3>5. k \in 1 .. Cardinality(S)
      BY <3>1 DEF Many, S
    <3>6. PICK y \in S : y = n + 1
      BY <3>3
    <3>7. 0 \in Int /\ L \in Int /\ S \subseteq 0 .. L /\ Adjacent(S, Nth(S, k), y)
      BY <1>1, <3>4, <3>6
    <3>8. k + 1 \in 1 .. Cardinality(S) /\ Nth(S, k + 1) = y
      BY <3>5, <3>7, NthStep
    <3>. QED  BY <3>6, <3>8 DEF Many, Place, S
  <2>. QED  BY <2>1, <2>2
<1>3. Latest(p, n + 1, k + 1)
  <2>1. k + 1 \in 0 .. Many(p) /\ k + 1 > 0
    BY <1>1, <1>2
  <2>. QED  BY <1>2, <2>1 DEF Latest
<1>. QED  BY <1>2, <1>3

(* The character at n is one of a component.                               *)
LEMMA InsideHeld ==
  ASSUME ~ Windows, NEW p \in Paths, p[1] = "/", NEW at, Walked(p, at),
         NEW t \in States, NEW n \in 0 .. Len(p) - 1, NEW k,
         Held(p, at, t, n, k), p[n + 1] # "/"
  PROVE  Held(p, at, Resolved(p, t, n), n + 1, k)
<1> DEFINE r == Resolved(p, t, n)
           s == Place(p, k)
           e == Ending(p, k)
           w == Written(at[k - 1])
<1>1. Latest(p, n, k) /\ t.next <= e /\ (n > e => p[n] = "/") /\ (n < e => Midway(p, at, t, n, k))
  BY DEF Held
<1>2. n \in Nat /\ Len(p) \in Nat /\ n < Len(p) /\ n < e /\ k \in 1 .. Many(p)
  BY <1>1, Whereabouts
<1>3. /\ s \in Nat /\ e \in Nat /\ s < e /\ s <= n /\ e <= Len(p)
      /\ Named(p, k) = SubSeq(p, s + 1, e)
  BY <1>1, <1>2, PlaceIs DEF Latest
<1>4. Latest(p, n + 1, k)
  <2>1. n + 1 \notin Starts(Whole(p))
    <3>1. n + 1 # 0 /\ (n + 1 \in 0 .. Len(p) - 1 \/ ~ n + 1 \in 0 .. Len(p) - 1)
      BY <1>2
    <3>2. ~ Sep(p[n + 1])
      BY SlashOnly
    <3>. QED  BY <3>1, <3>2, StartsAre
  <2>2. Starts(Whole(p)) \subseteq Int
    BY ManyAre DEF Enumerated
  <2>. QED  BY <1>1, <1>2, <1>3, <2>1, <2>2, SameLatest
<1>5. t.next \in Int /\ w \in Paths
  <2>1. at[k - 1] \in Routes
    BY <1>2, WayIs
  <2>. QED  BY <2>1, WrittenIs DEF States
<1>6. /\ n < t.next => r = t
      /\ t.next <= n => r.out = Append(t.out, p[n + 1]) /\ r.next = t.next
  BY TurnIs
<1>7. ASSUME t.next = e, t.out = Written(at[k])
      PROVE  Held(p, at, r, n + 1, k)
  <2>1. r = t
    BY <1>2, <1>6, <1>7
  <2>2. Midway(p, at, r, n + 1, k)
    BY <1>7, <2>1 DEF Midway
  <2>3. r.next <= e /\ r.out = Written(at[k])
    BY <1>1, <1>7, <2>1
  <2>4. ~ n + 1 > e
    BY <1>2, <1>3
  <2>. QED  BY <1>4, <2>2, <2>3, <2>4 DEF Held
<1>8. ASSUME t.next <= s, ~ Special(Named(p, k)),
             t.out = w \o (<<"/">> \o SubSeq(p, s + 1, n))
      PROVE  Held(p, at, r, n + 1, k)
  <2>0. t.next <= n
    <3> HIDE DEF s, e, w
    <3>. QED  BY <1>2, <1>3, <1>5, <1>8
  <2>1. r.out = Append(t.out, p[n + 1]) /\ r.next = t.next
    BY <1>6, <2>0
  <2>2. r.out = w \o (<<"/">> \o SubSeq(p, s + 1, n + 1))
    <3> HIDE DEF s, e, w, r
    <3>1. Append(w \o (<<"/">> \o SubSeq(p, s + 1, n)), p[n + 1])
            = w \o (<<"/">> \o SubSeq(p, s + 1, n + 1))
      BY <1>2, <1>3, <1>5, OneMore
    <3>. QED  BY <1>8, <2>1, <3>1
  <2>3. Midway(p, at, r, n + 1, k)
    BY <1>8, <2>1, <2>2 DEF Midway
  <2>4. n + 1 >= e => r.out = Written(at[k])
    <3>1. n + 1 >= e => n + 1 = e
      BY <1>2, <1>3
    <3>2. Written(at[k]) = w \o (<<"/">> \o Named(p, k))
      BY <1>2, <1>8, WayIs
    <3> HIDE DEF e, s, w
    <3>. QED  BY <1>3, <2>2, <3>1, <3>2
  <2>5. ~ n + 1 > e /\ r.next <= e
    BY <1>1, <1>2, <1>3, <2>1
  <2>. QED  BY <1>4, <2>3, <2>4, <2>5 DEF Held
<1>. QED  BY <1>1, <1>2, <1>7, <1>8 DEF Midway

(* It is a separator with another one behind it.                           *)
LEMMA BetweenHeld ==
  ASSUME ~ Windows, NEW p \in Paths, p[1] = "/", NEW at, Walked(p, at),
         NEW t \in States, NEW n \in 0 .. Len(p) - 1, NEW k,
         Held(p, at, t, n, k), n + 1 < Len(p), p[n + 1] = "/", p[n + 2] = "/"
  PROVE  Held(p, at, Resolved(p, t, n), n + 1, k)
<1> DEFINE e == Ending(p, k)
<1>1. /\ Latest(p, n, k) /\ t.next <= e /\ (n > e => p[n] = "/")
      /\ (n >= e => t.out = Written(at[k]))
  BY DEF Held
<1>2. n \in Nat /\ Len(p) \in Nat /\ e \in Nat /\ e <= n
  BY <1>1, Whereabouts
<1>3. Resolved(p, t, n) = t
  BY TurnIs
<1>4. Latest(p, n + 1, k)
  <2>1. n + 1 \notin Starts(Whole(p))
    <3>1. n + 1 \in 0 .. Len(p) - 1 /\ n + 1 + 1 = n + 2
      BY <1>2
    <3>2. Sep(p[n + 1 + 1])
      BY <3>1, SlashOnly
    <3>. QED  BY <3>1, <3>2, StartsAre
  <2>2. Starts(Whole(p)) \subseteq Int /\ (k > 0 => Place(p, k) \in Int)
    <3>1. k > 0 => k \in 1 .. Many(p)
      BY <1>1, ManyAre DEF Latest
    <3>. QED  BY <3>1, PlaceIs, ManyAre DEF Enumerated
  <2>. QED  BY <1>1, <1>2, <2>1, <2>2, SameLatest
<1>5. n >= e /\ n + 1 >= e /\ ~ n + 1 < e
  BY <1>2
<1>. QED  BY <1>1, <1>3, <1>4, <1>5 DEF Held

(* It is the separator before a component.                                 *)
LEMMA BeginsHeld ==
  ASSUME ~ Windows, NEW p \in Paths, p[1] = "/", NEW at, Walked(p, at),
         NEW t \in States, NEW n \in 0 .. Len(p) - 1, NEW k,
         Held(p, at, t, n, k), Begins(p, n)
  PROVE  Held(p, at, Resolved(p, t, n), n + 1, k + 1)
<1> DEFINE e == Ending(p, k)
           r == Resolved(p, t, n)
           f == Ending(p, k + 1)
           c == Named(p, k + 1)
<1>1. /\ Latest(p, n, k) /\ t.next <= e /\ (n > e => p[n] = "/")
      /\ (n >= e => t.out = Written(at[k]))
      /\ p[n + 1] = "/" /\ k \in Int
  <2>1. k \in Int
    BY ManyAre DEF Held, Latest
  <2>. QED  BY <2>1 DEF Held, Begins
<1>2. n \in Nat /\ Len(p) \in Nat /\ e \in Nat /\ e <= n
  BY <1>1, Whereabouts
<1>3. n + 1 \in Starts(Whole(p))
  BY BeginsAt
<1>4. k + 1 \in 1 .. Many(p) /\ Place(p, k + 1) = n + 1 /\ Latest(p, n + 1, k + 1)
  BY <1>1, <1>2, <1>3, NextLatest
<1>5. PICK j \in 1 .. Many(p) : j = k + 1 /\ j - 1 = k
  BY <1>1, <1>4
<1>6. /\ f \in Nat /\ n + 1 < f /\ f = EndOf(Whole(p), n + 1) /\ c = Token(Whole(p), n + 1)
      /\ at[k] \in Routes
      /\ c = <<".">> => Written(at[j]) = Written(at[k])
      /\ c = <<".", ".">> => Written(at[j]) = Rewound(Written(at[k]))
  <2>1. /\ Ending(p, j) \in Nat /\ Place(p, j) < Ending(p, j)
        /\ Ending(p, j) = EndOf(Whole(p), Place(p, j)) /\ Named(p, j) = Token(Whole(p), Place(p, j))
    BY PlaceIs
  <2>2. /\ at[j - 1] \in Routes
        /\ Named(p, j) = <<".">> => Written(at[j]) = Written(at[j - 1])
        /\ Named(p, j) = <<".", ".">> => Written(at[j]) = Rewound(Written(at[j - 1]))
    BY WayIs
  <2>. QED  BY <1>4, <1>5, <2>1, <2>2
<1>7. t.next \in Int /\ t.next <= n /\ t.out = Written(at[k])
  BY <1>1, <1>2 DEF States
<1>8. /\ c = <<".">> => r.out = t.out /\ r.next = f
      /\ c = <<".", ".">> => r.out = Rewound(t.out) /\ r.next = f
      /\ c # <<".">> /\ c # <<".", ".">> => r.out = Append(t.out, "/") /\ r.next = t.next
  BY <1>6, <1>7, TurnIs
<1> HIDE DEF c, f, r, e
<1>9. ASSUME Special(c) PROVE Midway(p, at, r, n + 1, j) /\ r.next <= f
  <2>1. r.next = f /\ r.out = Written(at[j])
    BY <1>6, <1>7, <1>8, <1>9 DEF Special
  <2>. QED  BY <1>5, <1>6, <2>1 DEF Midway, f
<1>10. ASSUME ~ Special(c) PROVE Midway(p, at, r, n + 1, j) /\ r.next <= f
  <2>1. r.next = t.next /\ r.out = Append(Written(at[k]), "/")
    BY <1>7, <1>8, <1>10 DEF Special
  <2>2. r.next <= n + 1 /\ r.next <= f
    BY <1>2, <1>6, <1>7, <2>1
  <2>3. SubSeq(p, n + 1 + 1, n + 1) = <<>>
    BY <1>2, SubSeqEmpty
  <2>4. Append(Written(at[k]), "/") = Written(at[k]) \o (<<"/">> \o <<>>)
    <3>1. Written(at[k]) \in Seq(Characters) /\ "/" \in Characters
      BY <1>6, WrittenIs, PlainsAre DEF Paths
    <3>2. <<"/">> \o <<>> = <<"/">>
      OBVIOUS
    <3>. QED  BY <3>1, <3>2, AppendIsConcat
  <2>5. r.out = Written(at[j - 1]) \o (<<"/">> \o SubSeq(p, Place(p, j) + 1, n + 1))
    BY <1>4, <1>5, <2>1, <2>3, <2>4
  <2>. QED  BY <1>4, <1>5, <1>10, <2>2, <2>5 DEF Midway, c
<1>11. ~ n + 1 > f /\ ~ n + 1 >= f
  BY <1>2, <1>6
<1>. QED  BY <1>4, <1>5, <1>9, <1>10, <1>11 DEF Held, f, r

LEMMA AllBegun ==
  ASSUME NEW p \in Paths, NEW k, Latest(p, Len(p) - 1, k)
  PROVE  k = Many(p)
<1>1. Many(p) \in Nat /\ k \in 0 .. Many(p) /\ Len(p) \in Nat
  BY ManyAre DEF Latest, Paths
<1>2. ASSUME k < Many(p) PROVE FALSE
  <2>1. PICK m \in 1 .. Many(p) : m = k + 1
    BY <1>1, <1>2
  <2>2. Place(p, m) \in Starts(Whole(p)) /\ Place(p, m) \in Int /\ Place(p, m) <= Len(p) - 1
    BY ManyAre DEF Enumerated, Place, Many
  <2>3. k > 0 /\ Place(p, m) <= Place(p, k)
    BY <2>2 DEF Latest
  <2>4. k \in 1 .. Many(p) /\ k < m
    BY <1>1, <2>1, <2>3
  <2>5. Place(p, k) < Place(p, m) /\ Place(p, k) \in Int
    BY <2>4, ManyAre DEF Enumerated, Place, Many
  <2>. QED  BY <2>2, <2>3, <2>5
<1>. QED  BY <1>1, <1>2

LEMMA NothingWritten ==
  ASSUME NEW at \in Routes
  PROVE  Written(at) = <<>> <=> at = <<>>
<1>1. ASSUME at # <<>> PROVE Written(at) # <<>>
  <2>1. PICK b \in Routes, c \in Plains : at = Append(b, c)
    BY <1>1, SequenceEmptyOrAppend DEF Routes
  <2>2. Written(at) = Written(b) \o (<<"/">> \o c) /\ Written(b) \in Paths
    BY <2>1, WrittenIs
  <2>3. c \in Paths /\ <<"/">> \in Paths /\ <<"/">> \o c \in Paths
    BY PlainsAre DEF Paths
  <2>4. <<"/">> # <<>>
    OBVIOUS
  <2>. QED  BY <2>2, <2>3, <2>4, ConcatEqualIffEmpty DEF Paths
<1>. QED  BY <1>1, WrittenIs

LEMMA ResolveWalks ==
  ASSUME ~ Windows, NEW p \in Paths, p # <<>>, p[1] = "/"
  PROVE  Resolve(p) = Written(Walk(p)) \o
                        (IF p[Len(p)] = "/" \/ Walk(p) = <<>> THEN <<"/">> ELSE <<>>)
<1> DEFINE L == Len(p)
           K == Many(p)
<1>1. L \in Nat /\ L >= 1
  BY EmptySeq DEF Paths
<1>2. PICK u \in [0 .. L -> States] :
        /\ u[0] = [out |-> <<>>, next |-> 0]
        /\ \A n \in 1 .. L : u[n] = Resolved(p, u[n - 1], n - 1)
        /\ Resolve(p) = IF u[L].out = <<>> THEN <<DirSep>> ELSE u[L].out
  BY ResolveIs
<1>3. PICK at \in [0 .. K -> Routes] :
        /\ at[0] = <<>> /\ \A k \in 1 .. K : at[k] = Gone(at[k - 1], Named(p, k))
        /\ Walk(p) = at[K]
  BY WalkIs
<1>4. Walked(p, at) /\ K \in Nat
  BY <1>3, ManyAre DEF Walked
<1>5. \A n \in 0 .. L - 1 : u[n + 1] = Resolved(p, u[n], n) /\ u[n] \in States
  <2>1. ASSUME NEW n \in 0 .. L - 1
        PROVE  u[n + 1] = Resolved(p, u[n], n) /\ u[n] \in States
    <3>1. PICK m \in 1 .. L : m = n + 1 /\ m - 1 = n /\ n \in 0 .. L
      BY <1>1
    <3>2. u[m] = Resolved(p, u[m - 1], m - 1)
      BY <1>2, Zenon
    <3>. QED  BY <1>2, <3>1, <3>2
  <2>. QED  BY <2>1
<1> DEFINE Good(n) == \E k : Held(p, at, u[n], n, k)
           H == {n \in 0 .. L - 1 : Good(n)}
<1>6. 0 .. L - 1 \subseteq H
  <2>1. 0 \in H
    <3>1. Latest(p, 0, 0)
      <4>1. ASSUME NEW z \in Starts(Whole(p)), z <= 0 PROVE FALSE
        <5>1. z \in 0 .. Len(p) - 1
          BY StartsAre
        <5>2. z = 0
          BY <4>1, <5>1
        <5>3. ~ Sep(p[1])
          BY <4>1, <5>1, <5>2, StartsAre
        <5>. QED  BY <5>3, SlashOnly
      <4>2. 0 \in 0 .. Many(p) /\ ~ 0 > 0
        BY <1>4
      <4>. QED  BY <4>1, <4>2 DEF Latest
    <3>2. Ending(p, 0) = 0
      BY DEF Ending
    <3>3. u[0].out = Written(at[0]) /\ u[0].next = 0
      BY <1>2, <1>3, WrittenIs
    <3>4. Held(p, at, u[0], 0, 0)
      BY <3>1, <3>2, <3>3 DEF Held
    <3>. QED  BY <1>1, <3>4
  <2>2. ASSUME NEW n \in 0 .. L - 1 - 1, n \in H PROVE n + 1 \in H
    <3>1. n \in 0 .. Len(p) - 1 /\ n + 1 < Len(p) /\ n + 1 \in 0 .. L - 1
      BY <1>1
    <3>2. u[n + 1] = Resolved(p, u[n], n) /\ u[n] \in States
      BY <1>5, <3>1
    <3>3. PICK k : Held(p, at, u[n], n, k)
      BY <2>2
    <3> HIDE DEF L, K
    <3>4. CASE p[n + 1] # "/"
      <4>1. Held(p, at, Resolved(p, u[n], n), n + 1, k)
        BY <1>4, <3>1, <3>2, <3>3, <3>4, InsideHeld
      <4>. QED  BY <3>1, <3>2, <4>1
    <3>5. CASE p[n + 1] = "/" /\ p[n + 2] = "/"
      <4>1. Held(p, at, Resolved(p, u[n], n), n + 1, k)
        BY <1>4, <3>1, <3>2, <3>3, <3>5, BetweenHeld
      <4>. QED  BY <3>1, <3>2, <4>1
    <3>6. CASE p[n + 1] = "/" /\ p[n + 2] # "/"
      <4>1. Begins(p, n)
        BY <3>1, <3>6 DEF Begins
      <4>2. Held(p, at, Resolved(p, u[n], n), n + 1, k + 1)
        BY <1>4, <3>1, <3>2, <3>3, <4>1, BeginsHeld
      <4>. QED  BY <3>1, <3>2, <4>2
    <3>. QED  BY <3>4, <3>5, <3>6
  <2> HIDE DEF H
  <2>3. 0 \in Int /\ L - 1 \in Int /\ \A n \in 0 .. L - 1 - 1 : n \in H => n + 1 \in H
    BY <1>1, <2>2
  <2>. QED  BY <2>1, <2>3, Climb
<1>7. PICK m \in 0 .. L - 1 : m = L - 1 /\ m + 1 = L
  BY <1>1
<1>8. PICK k : Held(p, at, u[m], m, k)
  BY <1>6, <1>7
<1>9. /\ u[L] = Resolved(p, u[m], m) /\ u[m] \in States
      /\ Latest(p, m, k) /\ (m > Ending(p, k) => p[m] = "/")
      /\ u[m].next <= Ending(p, k) /\ (m >= Ending(p, k) => u[m].out = Written(at[k]))
  <2>1. u[m + 1] = Resolved(p, u[m], m) /\ u[m] \in States
    BY <1>5
  <2>. QED  BY <1>7, <1>8, <2>1 DEF Held
<1>10. k = K /\ at[k] = Walk(p) /\ Walk(p) \in Routes /\ Written(Walk(p)) \in Paths
  <2>1. k = K
    BY <1>7, <1>9, AllBegun
  <2>2. at[K] \in Routes
    BY <1>4, <1>3
  <2>. QED  BY <1>3, <2>1, <2>2, WrittenIs
<1>11. /\ m \in Nat /\ Ending(p, k) \in Nat /\ Ending(p, k) <= L
       /\ p[m + 1] # "/" => m < Ending(p, k)
       /\ p[m + 1] = "/" => Ending(p, k) <= m
  BY <1>9, Whereabouts
<1>12. CASE p[L] = "/"
  <2>1. u[m].next \in Int
    BY <1>9 DEF States
  <2>2. u[m].next <= m /\ u[m].out = Written(Walk(p))
    BY <1>7, <1>9, <1>10, <1>11, <1>12, <2>1
  <2>3. u[L].out = Append(Written(Walk(p)), "/")
    BY <1>7, <1>9, <1>12, <2>2, TurnIs
  <2>4. /\ Append(Written(Walk(p)), "/") = Written(Walk(p)) \o <<"/">>
        /\ Append(Written(Walk(p)), "/") # <<>>
    BY <1>10, PlainsAre, AppendIsConcat, AppendProperties DEF Paths
  <2>. QED  BY <1>2, <1>12, <2>3, <2>4
<1>13. CASE p[L] # "/"
  <2>1. p[m + 1] # "/" /\ m + 1 >= Ending(p, k)
    BY <1>7, <1>11, <1>13
  <2>2. Held(p, at, Resolved(p, u[m], m), m + 1, k)
    BY <1>4, <1>8, <1>9, <2>1, InsideHeld
  <2>3. u[L].out = Written(Walk(p))
    BY <1>9, <1>10, <2>1, <2>2 DEF Held
  <2>4. CASE Walk(p) = <<>>
    <3>1. Written(Walk(p)) = <<>>
      BY <2>4, WrittenIs
    <3>2. <<>> \o <<"/">> = <<"/">>
      OBVIOUS
    <3>. QED  BY <1>2, <2>3, <2>4, <3>1, <3>2, SlashOnly
  <2>5. CASE Walk(p) # <<>>
    <3>1. Written(Walk(p)) # <<>>
      BY <1>10, <2>5, NothingWritten
    <3>2. Written(Walk(p)) \o <<>> = Written(Walk(p))
      BY <1>10, ConcatEmptySeq DEF Paths
    <3>. QED  BY <1>2, <1>13, <2>3, <2>5, <3>1, <3>2
  <2>. QED  BY <2>4, <2>5
<1>. QED  BY <1>12, <1>13

(* On Unix, resolving a path character by character leads where walking    *)
(* its components one by one does, whatever the path, once it has been put *)
(* behind the current directory.                                           *)
THEOREM ComponentsResolved == Spec => []ResolvesComponents
<1>1. PathType => ResolvesComponents
  <2>1. SUFFICES ASSUME PathType, ~ Windows
                 PROVE  LET p == Cwd \o <<"/">> \o path
                            q == IF IsRooted(path) THEN path ELSE p
                            open == q[Len(q)] = "/" \/ Walk(q) = <<>>
                        IN  FullPath(path, None, Cwd)
                              = Written(Walk(q)) \o (IF open THEN <<"/">> ELSE <<>>)
    BY DEF ResolvesComponents
  <2> DEFINE p == Cwd \o <<"/">> \o path
             q == IF IsRooted(path) THEN path ELSE p
  <2>2. path \in Paths /\ Cwd \in Paths /\ <<"/">> \in Paths
    <3>1. platform \in Platforms
      BY <2>1 DEF PathType
    <3>. QED  BY <2>1, <3>1, Given, PlainsAre DEF PathType, Paths
  <2>3. FullPath(path, None, Cwd) = Resolve(q)
    <3>1. Based(path, None) = path
      BY DEF Based
    <3>2. DirSep = "/"
      BY <2>1, SlashOnly
    <3>. QED  BY <3>1, <3>2 DEF FullPath
  <2>4. CASE IsRooted(path)
    <3>1. path # <<>> /\ path[1] = "/"
      <4>1. ~ HasDrive(path)
        BY <2>1 DEF HasDrive
      <4>2. path # <<>> /\ Sep(path[1])
        BY <2>2, <2>4, <4>1, RootedIs
      <4>. QED  BY <2>1, <4>2, SlashOnly
    <3>2. q = path
      BY <2>4
    <3> HIDE DEF q
    <3>. QED  BY <2>1, <2>2, <2>3, <3>1, <3>2, ResolveWalks DEF q
  <2>5. CASE ~ IsRooted(path)
    <3> DEFINE d == Cwd \o <<"/">>
    <3>1. d \in Paths /\ d # <<>> /\ Len(d) >= 1 /\ d[1] = "/"
      <4>1. /\ d \in Paths /\ Len(d) = Len(Cwd) + Len(<<"/">>)
            /\ \A i \in 1 .. Len(Cwd) : d[i] = Cwd[i]
            /\ \A i \in 1 .. Len(<<"/">>) : d[Len(Cwd) + i] = <<"/">>[i]
        BY <2>2, PathsJoined
      <4>2. Len(<<"/">>) = 1 /\ <<"/">>[1] = "/"
        OBVIOUS
      <4>3. Len(Cwd) \in Nat /\ (Cwd # <<>> => Len(Cwd) # 0)
        BY <2>2, EmptySeq DEF Paths
      <4> HIDE DEF d
      <4>4. Len(d) >= 1
        BY <4>1, <4>2, <4>3
      <4>5. CASE Cwd = <<>>
        <5>1. Len(Cwd) = 0
          BY <4>5
        <5>. QED  BY <4>1, <4>2, <4>4, <5>1
      <4>6. CASE Cwd # <<>>
        <5>1. Cwd[1] = "/" /\ 1 \in 1 .. Len(Cwd)
          BY <4>3, <4>6, CwdAssumption
        <5>. QED  BY <4>1, <4>4, <5>1
      <4>. QED  BY <4>5, <4>6
    <3> HIDE DEF d
    <3>2. /\ d \o path \in Paths /\ Len(d \o path) = Len(d) + Len(path)
          /\ \A i \in 1 .. Len(d) : (d \o path)[i] = d[i]
      BY <2>2, <3>1, PathsJoined
    <3>3. d \o path # <<>> /\ (d \o path)[1] = "/"
      <4>1. Len(d) \in Nat /\ Len(path) \in Nat /\ 1 \in 1 .. Len(d)
        BY <2>2, <3>1 DEF Paths
      <4>2. Len(d \o path) # 0
        BY <3>1, <3>2, <4>1
      <4>. QED  BY <3>1, <3>2, <4>1, <4>2
    <3>4. q = d \o path
      BY <2>5 DEF d
    <3> HIDE DEF q
    <3>5. q \in Paths /\ q # <<>> /\ q[1] = "/"
      BY <3>2, <3>3, <3>4
    <3>. QED  BY <2>1, <2>3, <3>5, ResolveWalks DEF q
  <2>. QED  BY <2>4, <2>5
<1>. QED  BY <1>1, PathsOnly, PTL
=============================================================================
