-------------------------------- MODULE Path --------------------------------
(***************************************************************************)
(* std.path: what the functions on paths compute, on Unix and on Windows.  *)
(* A path is a sequence of characters; offsets into it are the code's, the *)
(* first character being at 0.  "UNC" stands for its three characters, no  *)
(* strict part of which the code looks at.                                 *)
(***************************************************************************)
EXTENDS Integers, Sequences, FiniteSets, FiniteSetsExt, SequencesExt

CONSTANTS
  Characters,
  Letters,   \* the characters that have no meaning in a path
  Lower,     \* character -> the character strncasecmp takes it for
  None       \* nil

ASSUME CharactersAssumption ==
  Letters \cup {"/", "\\", ".", "junk"} \subseteq Characters

VARIABLE platform   \* what the library was built for

Windows == platform = "windows"

At(p, i)   == p[i + 1]
Upto(p, n) == SubSeq(p, 1, n)
From(p, n) == SubSeq(p, n + 1, Len(p))

LastOf(S, none)  == IF S = {} THEN none ELSE Max(S)
FirstOf(S, none) == IF S = {} THEN none ELSE Min(S)

(* The numbers in S in order; the k-th of them has k - 1 before it.        *)
Nth(S, k) == CHOOSE x \in {y \in S : Cardinality({z \in S : z < y}) = k - 1} : TRUE

InOrder(S) == [k \in 1 .. Cardinality(S) |-> Nth(S, k)]

---------------------------------------------------------------------------
(* What the functions that check their argument refuse.                    *)
IsValidPath(p) == "NUL" \notin ToSet(p) /\ (Windows => "|" \notin ToSet(p))

---------------------------------------------------------------------------
(* The layout of a path.                                                   *)
DirSep == IF Windows THEN "\\" ELSE "/"

IsDirsep(c, verbatim) == c = DirSep \/ (Windows /\ ~ verbatim /\ c = "/")

(* The separators of p at or after n, and the first of them.               *)
Seps(p, n, verbatim)    == {i \in n .. Len(p) - 1 : IsDirsep(At(p, i), verbatim)}
FirstSep(p, n, verbatim) == FirstOf(Seps(p, n, verbatim), Len(p))

IsVerbatim(p) == Windows /\ IsPrefix(<<"\\", "\\", "?", "\\">>, p)
IsDevice(p)   == Windows /\ IsPrefix(<<"\\", "\\", ".", "\\">>, p)
IsUnc(p)      == Windows /\ IsPrefix(<<"\\", "\\">>, p)
HasUncName(p) == Len(p) >= 6 /\ p[5] = "UNC" /\ p[6] = "\\"
HasDrive(p)   == Windows /\ Len(p) > 1 /\ p[1] \in Letters /\ p[2] = ":"

(* Past the server and the share, before the separator that ends them.     *)
UncRoot(p, n, verbatim) ==
  LET server == FirstSep(p, n, verbatim)
  IN  FirstSep(p, Min({server + 1, Len(p)}), verbatim)

RootLength(p) ==
  IF p = <<>> THEN 0
  ELSE IF HasDrive(p) THEN
    IF Len(p) > 2 /\ IsDirsep(p[3], FALSE) THEN 3 ELSE 2
  ELSE IF IsVerbatim(p) \/ IsDevice(p) THEN
    IF HasUncName(p) THEN UncRoot(p, 6, IsVerbatim(p))
    ELSE Min({FirstSep(p, 4, IsVerbatim(p)) + 1, Len(p)})
  ELSE IF IsUnc(p) THEN UncRoot(p, 2, FALSE)
  ELSE IF IsDirsep(p[1], FALSE) THEN 1 ELSE 0

IsRooted(p) == RootLength(p) > 0

(* The root is never looked at for the last separator, nor the file name's *)
(* first two characters for the last period.                               *)
(* Mutant: the root is looked at too.                                      *)
FileOffsetInRoot(p, root, verbatim) == 1 + LastOf(Seps(p, 0, verbatim), root - 1)

FileOffset(p, root, verbatim) ==
  1 + LastOf({i \in Seps(p, 0, verbatim) : i > root}, root - 1)

DirLength(p, root, file, verbatim) ==
  LET kept == {i \in root .. file - 1 : ~ IsDirsep(At(p, i), verbatim)}
  IN  1 + LastOf(kept, root - 1)

ExtOffset(p, file) ==
  1 + LastOf({i \in file + 2 .. Len(p) - 1 : At(p, i) = "."}, -1)

SplitPath(p) ==
  LET verbatim == IsVerbatim(p)
      root == RootLength(p)
      file == FileOffset(p, root, verbatim)
  IN  [verbatim |-> verbatim, root |-> root, file |-> file,
       dir |-> DirLength(p, root, file, verbatim), ext |-> ExtOffset(p, file)]

---------------------------------------------------------------------------
(* The parts of a path.                                                    *)
Extension(p) ==
  LET ext == SplitPath(p).ext IN IF ext \in {0, Len(p)} THEN None ELSE From(p, ext)

Root(p) ==
  IF p = <<>> THEN p
  ELSE IF IsRooted(p) THEN Upto(p, RootLength(p)) ELSE None

Parent(p) ==
  LET c == SplitPath(p)
  IN  IF c.root = Len(p) \/ c.dir = 0 THEN None ELSE Upto(p, c.dir)

FileName(p) ==
  LET file == SplitPath(p).file IN IF file = Len(p) THEN None ELSE From(p, file)

Split(p) ==
  LET c == SplitPath(p)
  IN  <<IF c.dir > 0 THEN Upto(p, c.dir) ELSE None, FileName(p)>>

(* The length is not the stem's: what lies behind the string is read when  *)
(* it is too large ("junk" here for a byte found there).                   *)
StemLength(p) ==
  LET ext == SplitPath(p).ext IN Len(p) - ext + (IF ext = 0 THEN 0 ELSE 1)

FileStem(p) ==
  LET c == SplitPath(p)
      behind == [i \in DOMAIN p |-> "junk"]
  IN  IF c.file = Len(p) THEN None
      ELSE IF c.file = 0 /\ c.ext = Len(p) THEN p
      ELSE SubSeq(p \o behind, c.file + 1, c.file + StemLength(p))

---------------------------------------------------------------------------
(* A path with one of its parts replaced.                                  *)
(* Mutant: a separator is added whether there is one or not.               *)
SlashAlways(p, verbatim) == Append(p, DirSep)

Slash(p, verbatim) == IF IsDirsep(p[Len(p)], verbatim) THEN p ELSE Append(p, DirSep)

SetExtension(p, ext) ==
  LET c == SplitPath(p)
      stem == IF c.ext = 0 THEN p ELSE Upto(p, c.ext - 1)
  IN  IF p = <<>> \/ c.file = Len(p) THEN p
      ELSE IF ext = <<>> THEN stem ELSE stem \o <<".">> \o ext

SetRoot(p, root) ==
  LET n == RootLength(p)
  IN  IF n = Len(p) THEN root
      ELSE IF n = 0 THEN p ELSE root \o <<DirSep>> \o From(p, n)

SetParent(p, parent) ==
  LET file == SplitPath(p).file
  IN  IF file = Len(p) THEN parent
      ELSE IF parent = <<>> THEN From(p, file)
      ELSE Slash(parent, IsVerbatim(parent)) \o From(p, file)

SetFileName(p, name) ==
  LET c == SplitPath(p)
      dir == Upto(p, c.file)
  IN  IF c.file = 0 THEN name
      ELSE IF name = <<>> THEN dir ELSE Slash(dir, c.verbatim) \o name

(* The period goes with the old stem.                                      *)
SetFileStem(p, stem) ==
  LET c == SplitPath(p)
  IN  IF c.file = 0 THEN stem
      ELSE Slash(Upto(p, c.file), c.verbatim) \o stem \o From(p, c.ext)

TrimEndingSeparator(p) ==
  IF p = <<>> \/ Len(p) = RootLength(p)
     \/ ~ IsDirsep(p[Len(p)], SplitPath(p).verbatim)
  THEN p ELSE Front(p)

(* The parts from the last rooted one on, or from the first verbatim one.  *)
Combine(parts) ==
  LET Used == {i \in DOMAIN parts : parts[i] # <<>>}
      Rooted == {i \in Used : IsRooted(parts[i])}
      Verbatim == {i \in Rooted : SplitPath(parts[i]).verbatim}
      first == FirstOf(Verbatim, LastOf(Rooted, 1))
      Piece(i) == IF i \notin Used \/ i < first THEN <<>>
                  ELSE IF i = Max(Used) THEN parts[i]
                  ELSE Slash(parts[i], SplitPath(parts[i]).verbatim)
  IN  FlattenSeq([i \in DOMAIN parts |-> Piece(i)])

(* random_file_name: any letter for every "X".                             *)
RandomNames(template) ==
  {name \in [DOMAIN template -> Letters \cup ToSet(template)] :
     \A i \in DOMAIN template :
       IF template[i] = "X" THEN name[i] \in Letters ELSE name[i] = template[i]}

---------------------------------------------------------------------------
(* Normal forms.                                                           *)
(* Windows looks at the right number of characters, from the wrong one on. *)
LookedAt(p) == IF Windows THEN Upto(p, Len(p) - RootLength(p)) ELSE p

AfterSep(p, i) == i > 1 /\ IsDirsep(p[i - 1], FALSE)

IsNormalized(p) ==
  LET q == LookedAt(p)
  IN  \/ SplitPath(p).verbatim
      \/ \A i \in DOMAIN q : /\ q[i] = "/" => ~ Windows
                             /\ q[i] = DirSep => ~ AfterSep(q, i)

(* Every run of separators made one.                                       *)
Native(c) == IF IsDirsep(c, FALSE) THEN DirSep ELSE c

(* Mutant: skip_sep is never cleared.                                      *)
CollapsedOnce(p) ==
  LET Kept(i) == IsDirsep(p[i], FALSE) =>
                 \A j \in 1 .. i - 1 : ~ IsDirsep(p[j], FALSE)
      places == InOrder({i \in DOMAIN p : Kept(i)})
  IN  [k \in DOMAIN places |-> Native(p[places[k]])]

Collapsed(p) ==
  LET Kept(i) == IsDirsep(p[i], FALSE) => ~ AfterSep(p, i)
      places == InOrder({i \in DOMAIN p : Kept(i)})
  IN  [k \in DOMAIN places |-> Native(p[places[k]])]

(* On Windows the first separator may be followed by a second.             *)
Normalize(p) ==
  IF IsNormalized(p) THEN p
  ELSE IF Windows /\ IsDirsep(p[1], FALSE)
       THEN <<DirSep>> \o Collapsed(Tail(p)) ELSE Collapsed(p)

IsFullyQualified(p) ==
  IF ~ Windows THEN IsRooted(p)
  ELSE /\ Len(p) >= 2
       /\ IF HasDrive(p) THEN Len(p) > 2 /\ IsDirsep(p[3], FALSE)
          ELSE p[1] = "/" \/ (p[1] = "\\" /\ p[2] \in {"\\", "?"})

(* A rooted Unix path with ".", ".." and empty components resolved: out is *)
(* what was written, next the first character not dealt with.              *)
(* Mutant: the separator before the component stays.                       *)
RewoundShort(out) ==
  Upto(out, 1 + LastOf({i \in 1 .. Len(out) - 1 : At(out, i) = DirSep}, 0))

Rewound(out) == Upto(out, LastOf({i \in 1 .. Len(out) - 1 : At(out, i) = DirSep}, 0))

(* The character at i is dealt with.                                       *)
Resolved(p, t, i) ==
  LET Is(j, c) == j < Len(p) /\ At(p, j) = c
      Ends(j)  == j = Len(p) \/ Is(j, DirSep)
      starts == Is(i, DirSep) /\ i + 1 < Len(p)
      dot  == starts /\ Is(i + 1, ".") /\ Ends(i + 2)
      dots == starts /\ Is(i + 1, ".") /\ Is(i + 2, ".") /\ Ends(i + 3)
  IN  IF i < t.next \/ (starts /\ Is(i + 1, DirSep)) THEN t
      ELSE IF dot THEN [t EXCEPT !.next = i + 2]
      ELSE IF dots THEN [out |-> Rewound(t.out), next |-> i + 3]
      ELSE [t EXCEPT !.out = Append(@, At(p, i))]

Resolve(p) ==
  LET upto[n \in 0 .. Len(p)] ==
        IF n = 0 THEN [out |-> <<>>, next |-> 0] ELSE Resolved(p, upto[n - 1], n - 1)
      done == upto[Len(p)].out
  IN  IF done = <<>> THEN <<DirSep>> ELSE done

(* full_path on Unix, cwd being what getcwd says.                          *)
Based(p, base) ==
  IF IsRooted(p) \/ base = None THEN p
  ELSE IF p = <<>> THEN base ELSE base \o <<DirSep>> \o p

FullPath(p, base, cwd) ==
  LET q == Based(p, base)
  IN  Resolve(IF IsRooted(q) THEN q ELSE cwd \o <<DirSep>> \o q)

---------------------------------------------------------------------------
(* The components, from the front and from the back.                       *)
Compare(p, q) == Len(p) = Len(q) /\ \A i \in DOMAIN p : Lower[p[i]] = Lower[q[i]]

(* path_tokenizer_new.                                                     *)
Trimmed(p, verbatim) ==
  LET In == {i \in DOMAIN p : ~ IsDirsep(p[i], verbatim)}
  IN  IF In = {} THEN <<>> ELSE SubSeq(p, Min(In), Max(In))

Tokenizer(p) ==
  [verbatim |-> SplitPath(p).verbatim,
   left |-> Trimmed(From(p, RootLength(p)), SplitPath(p).verbatim)]

(* Where a component of t.left begins, and where that one ends.            *)
Starts(t) == {i \in 0 .. Len(t.left) - 1 :
                /\ ~ IsDirsep(At(t.left, i), t.verbatim)
                /\ i = 0 \/ IsDirsep(At(t.left, i - 1), t.verbatim)}
EndOf(t, i) == FirstSep(t.left, i, t.verbatim)
Token(t, i) == SubSeq(t.left, i + 1, EndOf(t, i))
IsDot(t, i) == Token(t, i) = <<".">> /\ ~ t.verbatim

(* Both answer the component, <<>> at the end, and the tokenizer after it. *)
(* Mutant: a "." is passed over at the end as well.                        *)
TokenNextNoDot(t) ==
  LET Real == {i \in Starts(t) : ~ IsDot(t, i)}
  IN  IF Real = {} THEN [token |-> <<>>, rest |-> [t EXCEPT !.left = <<>>]]
      ELSE [token |-> Token(t, Min(Real)),
            rest |-> [t EXCEPT !.left = From(@, EndOf(t, Min(Real)))]]

TokenNext(t) ==
  LET Real == {i \in Starts(t) : IsDot(t, i) => EndOf(t, i) = Len(t.left)}
  IN  IF Real = {} THEN [token |-> <<>>, rest |-> [t EXCEPT !.left = <<>>]]
      ELSE [token |-> Token(t, Min(Real)),
            rest |-> [t EXCEPT !.left = From(@, EndOf(t, Min(Real)))]]

TokenNextBack(t) ==
  LET Real == {i \in Starts(t) : IsDot(t, i) => i = 0}
  IN  IF Real = {} THEN [token |-> <<>>, rest |-> [t EXCEPT !.left = <<>>]]
      ELSE [token |-> Token(t, Max(Real)),
            rest |-> [t EXCEPT !.left = Upto(@, Max(Real))]]
=============================================================================
