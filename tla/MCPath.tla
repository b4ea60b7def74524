------------------------------ MODULE MCPath ------------------------------
(* On Unix every path of up to MaxInput characters over "/", "." and two   *)
(* letters that differ in case; on Windows every kind of root before every *)
(* short string over both separators, "." and a letter.                    *)
EXTENDS PathProgram

CONSTANTS MaxInput, MaxBody

Strings(S, n) == UNION {[1 .. k -> S] : k \in 0 .. n}

Roots ==
  {<<>>, <<"a", ":">>, <<"\\", "\\">>, <<"\\", "\\", "?", "\\">>,
   <<"\\", "\\", ".", "\\">>, <<"\\", "\\", "?", "\\", "UNC", "\\">>,
   <<"\\", "\\", ".", "\\", "UNC", "\\">>}

MCInputs ==
  [p \in {"unix", "windows"} |->
     IF p = "unix" THEN Strings({"/", ".", "a"}, MaxInput) \cup {<<"a", "NUL">>}
     ELSE {r \o s : r \in Roots, s \in Strings({"\\", "/", ".", "a"}, MaxBody)}
          \cup {<<"a", "|">>}]

MCOthers ==
  [p \in {"unix", "windows"} |->
     IF p = "unix" THEN {<<>>, <<"/">>, <<"/", "A">>, <<"a", "/">>, <<"a", "/", "a">>,
                         <<".", "/", "a">>, <<"/", "a", "/", ".", ".">>}
     ELSE {<<>>, <<"a", ":", "/">>, <<"A", "/", ".">>, <<"\\", "a">>,
           <<"\\", "\\", "a", "\\", "a", "/", "A">>,
           <<"\\", "\\", "?", "\\", "a", "\\", "a">>}]

MCNames == {<<"a">>, <<".", "a">>}
MCTemplates == {<<".", "X">>}
MCCharacters == {"/", "\\", ".", ":", "?", "|", "a", "A", "X", "UNC", "NUL", "junk"}
MCLower == [c \in MCCharacters |-> IF c = "A" THEN "a" ELSE c]
MCCwd == <<"/", "a", "/", "A">>
=============================================================================
