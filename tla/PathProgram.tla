----------------------------- MODULE PathProgram -----------------------------
(***************************************************************************)
(* A program that works on one path with std.path: it takes a part of it,  *)
(* replaces one, joins it to others, resolves or normalizes it, and asks   *)
(* whether it starts or ends with another path.  The answer to the last    *)
(* takes a loop, one step a turn.                                          *)
(***************************************************************************)
EXTENDS Path

CONSTANTS
  Inputs,      \* platform -> the paths the program starts from
  Others,      \* platform -> the paths it joins or compares with
  Names,       \* file names, stems and extensions
  Templates,   \* for random_file_name
  Cwd,         \* the current directory
  MaxLen       \* bound: the length of a path

Platforms == {"unix", "windows"}

ASSUME PathAssumption ==
  /\ \A w \in Platforms : Inputs[w] \cup Others[w] \subseteq Seq(Characters)
  /\ Names \cup Templates \subseteq Seq(Characters) /\ Cwd \in Seq(Characters)
  /\ None \notin Seq(Characters)
(* getcwd answers with a path from the root.                               *)
ASSUME CwdAssumption == Cwd # <<>> => Cwd[1] = "/"
(* Names are what a program writes into a path as one component.           *)
ASSUME NamesAssumption ==
  \A n \in Names : n # <<>> /\ ToSet(n) \cap {"/", "\\", ":"} = {}

VARIABLES
  path,     \* the path
  match,    \* the comparison being made, None if there is none
  answer    \* what the last one said, None before and after a change of path

vars == <<platform, path, match, answer>>

Init ==
  /\ platform \in Platforms
  /\ path \in Inputs[platform]
  /\ match = None /\ answer = None

Becomes(p) ==
  /\ match = None /\ p # None /\ Len(p) <= MaxLen
  /\ path' = p /\ answer' = None /\ UNCHANGED <<platform, match>>

TakePart ==
  \/ Becomes(Extension(path)) \/ Becomes(Root(path)) \/ Becomes(Parent(path))
  \/ Becomes(FileName(path)) \/ Becomes(FileStem(path))
  \/ \E k \in 1 .. 2 : Becomes(Split(path)[k])

ReplacePart ==
  \/ \E n \in Names \cup {<<>>} : \/ Becomes(SetExtension(path, n))
                                  \/ Becomes(SetFileName(path, n))
                                  \/ Becomes(SetFileStem(path, n))
  \/ \E q \in Others[platform] :
       \/ Becomes(SetParent(path, q))
       \/ IsValidPath(path) /\ IsValidPath(q) /\ Becomes(SetRoot(path, q))

Join == \E q \in Others[platform] : \/ Becomes(Combine(<<path, q>>))
                                    \/ Becomes(Combine(<<q, path, q>>))

(* On Windows every path but a verbatim one is left to the host.           *)
TakeFullPath ==
  /\ IsValidPath(path)
  /\ IF Windows THEN IsVerbatim(path) /\ Becomes(path)
     ELSE \E base \in {q \in Others[platform] : IsFullyQualified(q)} \cup {None} :
            Becomes(FullPath(path, base, Cwd))

TakeNormal == Becomes(Normalize(path)) \/ Becomes(TrimEndingSeparator(path))

MakeName == \E template \in {t \in Templates : "X" \in ToSet(t)} :
              \E n \in RandomNames(template) : Becomes(n)

---------------------------------------------------------------------------
Says(asked, q, says) == answer' = [asked |-> asked, of |-> q, says |-> says]

Compared(asked, q) ==
  /\ match' = [asked |-> asked, of |-> q, mine |-> Tokenizer(path), other |-> Tokenizer(q)]
  /\ answer' = None

SameRoots(q) == Compare(Upto(path, RootLength(path)), Upto(q, RootLength(q)))

StartsWith(q) ==
  /\ match = None
  /\ IF path = <<>> \/ q = <<>>
       THEN Says("starts", q, Len(path) = Len(q)) /\ UNCHANGED match
     ELSE IF SameRoots(q) THEN Compared("starts", q)
     ELSE Says("starts", q, FALSE) /\ UNCHANGED match
  /\ UNCHANGED <<platform, path>>

EndsWith(q) ==
  /\ match = None
  /\ IF path = <<>> \/ q = <<>>
       THEN Says("ends", q, q = <<>>) /\ UNCHANGED match
     ELSE IF SameRoots(q) THEN Compared("ends", q)
     ELSE Says("ends", q, FALSE) /\ UNCHANGED match
  /\ UNCHANGED <<platform, path>>

Answered(says) == Says(match.asked, match.of, says) /\ match' = None

(* One turn with the components m and o, the tokenizers gone on.           *)
(* Mutant: the tokenizers stay where they are.                             *)
TurnInPlace(m, o) == Compare(m.token, o.token) /\ UNCHANGED <<match, answer>>

Turn(m, o) ==
  /\ Compare(m.token, o.token)
  /\ match' = [match EXCEPT !.mine = m.rest, !.other = o.rest]
  /\ UNCHANGED answer

TurnStarts ==
  /\ match # None /\ match.asked = "starts"
  /\ LET m == TokenNext(match.mine)
         o == TokenNext(match.other)
     IN  IF m.token = <<>> \/ o.token = <<>> THEN Answered(m.token = o.token)
         ELSE Turn(m, o) \/ (~ Compare(m.token, o.token) /\ Answered(FALSE))
  /\ UNCHANGED <<platform, path>>

(* When both are at their end the loop goes on with nothing changed.       *)
TurnEnds ==
  /\ match # None /\ match.asked = "ends"
  /\ LET m == TokenNextBack(match.mine)
         o == TokenNextBack(match.other)
     IN  IF m.token = <<>> /\ o.token = <<>> THEN Turn(m, o)
         ELSE IF m.token = <<>> \/ o.token = <<>> THEN Answered(o.token = <<>>)
         ELSE Turn(m, o) \/ (~ Compare(m.token, o.token) /\ Answered(FALSE))
  /\ UNCHANGED <<platform, path>>

Next ==
  \/ TakePart \/ ReplacePart \/ Join \/ TakeFullPath \/ TakeNormal \/ MakeName
  \/ \E q \in Others[platform] : StartsWith(q) \/ EndsWith(q)
  \/ TurnStarts \/ TurnEnds

(* A call runs to its end.                                                 *)
Fairness == WF_vars(TurnStarts \/ TurnEnds)

Spec == Init /\ [][Next]_vars /\ Fairness
---------------------------------------------------------------------------
Settled == match = None /\ answer = None

(* The offsets pathL_split_path computes are in order, only separators lie *)
(* between the directory and the file name, none in the file name but for  *)
(* the one that may come after the root, and the extension begins after a  *)
(* period in the file name.                                                *)
Ordered(p, c) ==
  /\ 0 <= c.root /\ c.root <= c.dir /\ c.dir <= c.file /\ c.file <= Len(p)
  /\ \A i \in c.dir .. c.file - 1 : IsDirsep(At(p, i), c.verbatim)
  /\ \A i \in c.file .. Len(p) - 1 : IsDirsep(At(p, i), c.verbatim) => i = c.root
  /\ c.ext # 0 => c.file + 2 < c.ext /\ c.ext <= Len(p) /\ At(p, c.ext - 1) = "."

SplitOrdered == Settled /\ path # <<>> => Ordered(path, SplitPath(path))

(* What is put into a path is found there: the file name, and the          *)
(* extension of a name of two characters or more, if there is no period in *)
(* it; and the parent and the file name make the path again.  Not on a     *)
(* share or a device, whose root ends before its separator, nor on a drive *)
(* without one ("c:a").                                                    *)
Tidy(p) == \A i \in DOMAIN p : IsDirsep(p[i], FALSE) =>
             p[i] = DirSep /\ (i > 1 => ~ IsDirsep(p[i - 1], FALSE))

DriveRelative(p) == HasDrive(p) /\ RootLength(p) = 2

PartsReadBack == Settled =>
  /\ \A n \in Names : ~ IsUnc(path) => FileName(SetFileName(path, n)) = n
  /\ \A n \in Names :
       LET p == SetExtension(path, n)
       IN  /\ p # path /\ Len(path) - SplitPath(path).file > 1
           /\ "." \notin ToSet(n)
           => Extension(p) = n
  /\ ~ IsUnc(path) /\ ~ DriveRelative(path) /\ Tidy(path)
       => LET parts == Split(path)
          IN  None \notin ToSet(parts) /\ ~ IsRooted(parts[2]) =>
                SetParent(parts[2], parts[1]) = path /\ Combine(parts) = path

(* On Unix full_path does what resolving the components one by one does: a *)
(* "." stays, a ".." goes up and stops at the root; a last separator is    *)
(* kept.                                                                   *)
Components(p) ==
  LET t == [left |-> p, verbatim |-> FALSE]
      places == InOrder(Starts(t))
  IN  [k \in DOMAIN places |-> Token(t, places[k])]

Gone(at, c) ==
  IF c = <<".">> \/ (c = <<".", ".">> /\ at = <<>>) THEN at
  ELSE IF c = <<".", ".">> THEN Front(at) ELSE Append(at, c)

Walk(p) ==
  LET cs == Components(p)
      at[n \in 0 .. Len(cs)] == IF n = 0 THEN <<>> ELSE Gone(at[n - 1], cs[n])
  IN  at[Len(cs)]

Written(at) == FlattenSeq([k \in DOMAIN at |-> <<"/">> \o at[k]])

ResolvesComponents ==
  Settled /\ ~ Windows =>
    LET p == Cwd \o <<"/">> \o path
        q == IF IsRooted(path) THEN path ELSE p
        open == q[Len(q)] = "/" \/ Walk(q) = <<>>
    IN  FullPath(path, None, Cwd) = Written(Walk(q)) \o (IF open THEN <<"/">> ELSE <<>>)

(* Normalizing twice is normalizing once, and does not change whether the  *)
(* path is rooted.  On Unix, and on Windows for a path without a root, the *)
(* components stay and one separator is between two of them; of a path     *)
(* with a root the Windows is_normalized looks at the wrong characters,    *)
(* and may leave it as it is.                                              *)
NormalizesOnce == Settled =>
  LET p == Normalize(path)
  IN  /\ Normalize(p) = p /\ IsRooted(p) = IsRooted(path)
      /\ ~ (Windows /\ IsRooted(path)) => /\ Components(p) = Components(path)
                                          /\ Tidy(p)

(* What starts_with and ends_with say, in terms of all the components at   *)
(* once.  starts_with says so only of a prefix, as its doc has it, and of  *)
(* every path with the same components; nothing is said here of a shorter  *)
(* prefix, for which the doc promises TRUE and the code says FALSE.        *)
(* ends_with says whether the last components are those of the suffix.     *)
Kept(t, asked) ==
  LET Real == {i \in Starts(t) : IsDot(t, i) => IF asked = "starts" THEN EndOf(t, i) = Len(t.left)
                                                ELSE i = 0}
      places == InOrder(Real)
  IN  [k \in DOMAIN places |-> Token(t, places[k])]

Alike(s, t) == Len(s) = Len(t) /\ \A k \in DOMAIN s : Compare(s[k], t[k])

AnswersRight ==
  answer # None /\ path # <<>> /\ answer.of # <<>> =>
    LET mine == Kept(Tokenizer(path), answer.asked)
        other == Kept(Tokenizer(answer.of), answer.asked)
        head == SubSeq(mine, 1, Len(other))
        tail == SubSeq(mine, Len(mine) - Len(other) + 1, Len(mine))
        fits == SameRoots(answer.of) /\ Len(mine) >= Len(other)
    IN  IF answer.asked = "starts"
          THEN /\ answer.says => fits /\ Alike(head, other)
               /\ fits /\ Alike(mine, other) => answer.says
        ELSE answer.says = (fits /\ Alike(tail, other))

(* Every comparison comes to its end, but that of ends_with for two paths  *)
(* of the same components.                                                 *)
SameComponents ==
  Alike(Kept(Tokenizer(path), "ends"), Kept(Tokenizer(match.of), "ends"))

MostComparisonsEnd ==
  (match # None /\ (match.asked = "ends" => ~ SameComponents)) ~> (match = None)

(* The doc of ends_with: it returns whether "the path ends with the        *)
(* specified suffix" (path.c:773).                                         *)
EveryComparisonEnds == (match # None) ~> (match = None)
=============================================================================
