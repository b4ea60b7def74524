----------------------------- MODULE MCChecks -----------------------------
(* Functions of up to two parameters with up to one vararg behind them,    *)
(* called with nil, a string, a number, a table with a __type, a file and  *)
(* a light userdata; descriptors of every shape, alone and one behind the  *)
(* other.                                                                  *)
EXTENDS Checks

V(type, specific, text) == [type |-> type, specific |-> specific, text |-> text]
Nil == V("nil", "nil", "")
One == V("string", "string", "one")
Number3 == V("number", "integer", "")
Foo  == V("table", "foo", "")
File == V("userdata", "FILE*", "")
Light == V("lightuserdata", "userdata", "")

MCValues == {Nil, One, Number3, Foo, File}

F(locals, varargs, method) == [locals |-> locals, varargs |-> varargs, method |-> method]

MCFrames ==
  {F(<<v, w>>, <<>>, FALSE) : v, w \in MCValues}
  \cup {F(<<v>>, <<w>>, FALSE) : v \in {Nil, Foo}, w \in MCValues}
  \cup {F(<<>>, <<v>>, FALSE) : v \in MCValues}
  \cup {F(<<>>, <<>>, FALSE)}
  \cup {F(<<v>>, <<>>, TRUE) : v \in MCValues \cup {Light}}

D(colon, opt, alts) == [colon |-> colon, opt |-> opt, alts |-> alts]
Own   == D(FALSE, FALSE, <<"table", "own", "number">>)
Many  == D(FALSE, TRUE, <<"integer", "string", "foo">>)
Input == D(FALSE, FALSE, <<"file", "any">>)
Mode  == D(TRUE, TRUE, <<"one", "two">>)
What  == D(FALSE, FALSE, <<"one">>)
Quest == D(FALSE, TRUE, <<>>)
Empty == D(FALSE, FALSE, <<>>)

MCDescriptors == {Own, Many, Mode, What, Quest, Empty}

S(descs, more, rest) == [descs |-> descs, more |-> more, rest |-> rest]

MCSignatures ==
  {S(<<Own>>, "no", None), S(<<Input, Own>>, "no", None), S(<<Quest, Mode>>, "no", None),
   S(<<>>, "*", Input), S(<<>>, "+", Many), S(<<Own>>, "*", Own), S(<<Many>>, "+", Input),
   S(<<>>, "+", Empty), S(<<Input>>, "*", Quest), S(<<Empty>>, "no", None)}
=============================================================================
