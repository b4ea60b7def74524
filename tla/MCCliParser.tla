---------------------------- MODULE MCCliParser ----------------------------
(***************************************************************************)
(* Applications and command lines on which TLC checks CliParser.           *)
(***************************************************************************)
EXTENDS CliParser, TLC

CONSTANTS v1, v2, bad, true, false, dashed, message, MaxArgs, MaxFlatArgs

MCValues == {v1, v2, bad, true, false, dashed, message}
Good     == {v1, v2}

(* An option of one good value that may appear once; the flags of the      *)
(* applications below differ from it in a few fields.                      *)
Plain(long, short) ==
  [long |-> long, short |-> short, type |-> "single", requires_arg |-> TRUE,
   min_count |-> 0, max_count |-> 1, default |-> Nil, accepts |-> Good,
   validate |-> FALSE, action |-> FALSE]

Positional(name, min, max) ==
  [Plain(name, Nil) EXCEPT !.min_count = min, !.max_count = max,
                           !.accepts = Good \cup {dashed, message}]

(* root -n NUM.. -f -l LIST.. -g, with the commands child and flat:        *)
(*   child -r REQ [-d DEF] -n NUM.. --flg LIST.. req                       *)
(*   flat -p PAIR.. -b BOOL.. -m MAP.. -c CNT fst.. [snd]                  *)
(* child's -n shares a field with root's, its argument with its own -r,    *)
(* and its list --flg with root's flag, whose value no list can join.      *)
TreeFlag ==
  "num" :> [Plain("num", "n") EXCEPT !.max_count = 2]
  @@ "flg" :> [Plain("flg", "f") EXCEPT !.requires_arg = FALSE]
  @@ "lst" :> [Plain("lst", "l") EXCEPT !.type = "list"]
  @@ "glb" :> [Plain("glb", "g") EXCEPT !.requires_arg = FALSE,
                 !.max_count = Unbound, !.validate = TRUE, !.action = TRUE]
  @@ "req" :> [Plain("req", "r") EXCEPT !.min_count = 1]
  @@ "def" :> [Plain("def", "d") EXCEPT !.min_count = 1, !.default = v2,
                 !.validate = TRUE]
  @@ "sub" :> [Plain("num", "n") EXCEPT !.max_count = 2]
  @@ "mix" :> [Plain("flg", Nil) EXCEPT !.type = "list"]
  @@ "one" :> Positional("req", 1, 1)
  @@ "pair" :> [Plain("pair", "p") EXCEPT !.type = "tuple", !.max_count = 2]
  @@ "boo" :> [Plain("boo", "b") EXCEPT !.accepts = {true, false}, !.max_count = 2]
  @@ "map" :> [Plain("map", "m") EXCEPT !.type = "map", !.accepts = {v1, v2, true}]
  @@ "cnt" :> Plain("cnt", "c")
  @@ "fst" :> Positional("fst", 1, 2)
  @@ "snd" :> Positional("snd", 0, 1)

TreeArguments == {"one", "fst", "snd"}
TreeOptions   == DOMAIN TreeFlag \ TreeArguments
TreeNames     == DOMAIN TreeFlag \cup
  {"n", "f", "l", "g", "r", "d", "p", "b", "m", "c", "child", "kid", "flat", "text",
   "nosuch", "no-such"}

Three == {"root", "child", "flat"}
PerThree(r, c, f) == "root" :> r @@ "child" :> c @@ "flat" :> f

TreeLocals   == PerThree(<<"num", "flg", "lst">>, <<"req", "def", "sub", "mix">>,
                         <<"pair", "boo", "map", "cnt">>)
TreeGlobals  == PerThree(<<"glb">>, <<>>, <<>>)
TreeArgs     == PerThree(<<>>, <<"one">>, <<"fst", "snd">>)
TreeCommands == PerThree(<<"child", "flat">>, <<>>, <<>>)
TreeCalled   == PerThree({}, {"child", "kid"}, {"flat"})
Hyphens      == {"no-such"}

(* What the callbacks do: that of -g sets the field of -f, or that of a    *)
(* flag of another command; the others leave the context alone.            *)
TreeWrites ==
  [f \in DOMAIN TreeFlag |->
     IF f = "glb" THEN {"flg" :> Scalar(v1), "cnt" :> Scalar(v2)} ELSE {}]

Tok(form, name, val) == [form |-> form, name |-> name, val |-> val]
Word(name, val)      == Tok("word", name, val)
DashDash             == Tok("--", "nosuch", dashed)

TreeTokens ==
  {Tok("--L", "num", v1), Tok("--L=V", "num", v1), Tok("-SV", "n", bad),
   Tok("-S", "f", v1), Tok("--L=V", "flg", v2),
   Tok("--L:V", "lst", v2), Tok("-S", "g", v1),
   Tok("--L=V:W", "num", v1), Tok("--L=V:W", "no-such", v1),
   Word("kid", v1), Word("text", v2), DashDash,
   Tok("--L=V", "req", v2), Tok("-S", "d", v1)}

UpTo(S, n) == UNION {[1 .. k -> S] : k \in 0 .. n}

FlatTokens ==
  {Tok("-SV", "c", v1), Tok("-SV", "b", false), Tok("--L:V", "map", v1),
   Tok("-SV", "m", v2), Tok("-SV", "m", true), Tok("-SV", "p", v1),
   Word("text", v1), Word("text", bad), DashDash}

MapTokens ==
  {Tok("--L:V", "map", v1), Tok("-SV", "m", v2), Tok("-SV", "m", true), Word("text", v1)}

ArgumentTokens == {Tok("-SV", "c", v1), Word("text", v1), DashDash}

(* Lines for root and child; and after flat, pairs of all its tokens, what *)
(* a map gathers, and longer lines of what its arguments see.              *)
FlatLines == UpTo(FlatTokens, 2) \cup UpTo(MapTokens, 3) \cup UpTo(ArgumentTokens, MaxFlatArgs)

TreeLines == UpTo(TreeTokens, MaxArgs) \cup {<<Word("flat", v1)>> \o l : l \in FlatLines}

Two == {"root", "child"}
PerCommand(r, c) == "root" :> r @@ "child" :> c

(* root --req R; child --num NUM --max MAX one.. declares what the         *)
(* statements of the documentation are about.                              *)
QuirkFlag ==
  "num" :> [Plain("num", "n") EXCEPT !.default = v2]
  @@ "max" :> Plain("max", Nil)
  @@ "req" :> [Plain("req", "r") EXCEPT !.min_count = 1]
  @@ "one" :> Positional("one", 0, Unbound)

QuirkOptions == {"num", "max", "req"}
QuirkArguments == {"one"}
QuirkNames   == QuirkOptions \cup {"n", "f", "r", "one", "child", "kid", "text"}
QuirkLocals  == PerCommand(<<"req">>, <<"num", "max">>)
QuirkGlobals == PerCommand(<<>>, <<>>)
QuirkArgs    == PerCommand(<<>>, <<"one">>)
QuirkCommands == PerCommand(<<"child">>, <<>>)
QuirkCalled  == PerCommand({}, {"child", "kid"})
QuirkWrites  == [f \in DOMAIN QuirkFlag |-> {}]

QuirkLines ==
  UpTo({Word("child", v1), Word("text", v1), Tok("--L=V", "req", v1),
        Tok("--L=V", "num", v1), Tok("--L=V", "max", v1)}, MaxArgs)

MCKeyOf == [v \in MCValues |-> IF v = v2 THEN "n" ELSE "f"]
=============================================================================
