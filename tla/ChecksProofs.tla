---------------------------- MODULE ChecksProofs ----------------------------
(***************************************************************************)
(* Proofs about Checks, for any descriptors, functions and registered      *)
(* checks: what a call accepts met its descriptor, check_types passes no   *)
(* argument over, and what is refused was nothing that was asked for.      *)
(***************************************************************************)
EXTENDS Checks, SequenceTheorems, TLAPS

Fields == {"what", "frame", "descs", "more", "rest", "first", "arg", "step", "alt",
           "outcome", "blamed", "checked", "said", "kept"}
Steps    == {"next", "match", "asking", "said", "done"}
Outcomes == {"none", "ok", "bad_argument", "invalid_index", "raised", "empty_descriptor",
             "invalid_descriptor"}
Says     == SUBSET (Custom \X BOOLEAN)
Accepted == [value : Values, desc : Shapes, said : Says]

(* A call at any moment.                                                   *)
Shape ==
  /\ DOMAIN call = Fields
  /\ call.what \in {"types", "type", "option", "arg"} /\ call.frame \in Frames
  /\ call.descs \in Seq(Shapes) /\ call.more \in {"no", "*", "+"}
  /\ call.what # "arg" /\ (call.what = "types" => call.more # "no") => call.rest \in Shapes
  /\ call.first \in Nat \ {0} /\ call.arg \in Nat \ {0} /\ call.alt \in Nat \ {0}
  /\ call.step \in Steps /\ call.outcome \in Outcomes
  /\ (call.outcome # "none") <=> (call.step = "done")
  /\ call.said \in Says /\ call.kept \subseteq Custom
  /\ call.checked \in Seq(Accepted) /\ (call.what = "arg" => call.checked = <<>>)
  /\ call.what # "arg" => call.kept \subseteq Registered
  /\ call.step \in {"next", "match", "said"} => call.what # "arg"

(* x is what the call c should have accepted as its i-th argument.         *)
Right(x, i, c, given) ==
  /\ Meets(x.value, x.desc, x.desc.colon \/ c.what = "option", x.said)
  /\ c.what = "types" =>
       /\ i <= Len(given) /\ x.value = given[i]
       /\ x.desc = IF i <= Len(c.descs) THEN c.descs[i] ELSE c.rest

(* Every argument before this one was accepted, and rightly.               *)
Passed ==
  /\ Len(call.checked) = call.arg - call.first
  /\ \A i \in 1 .. Len(call.checked) : Right(call.checked[i], i, call, Given)
  /\ call.what = "types" =>
       /\ call.first = 1 /\ call.arg <= Len(Given) + 1
       /\ call.more = "no" => call.arg <= Len(call.descs) + 1

(* The argument whose alternatives are being tried.                        *)
Asked == Present /\ (Eating => call.more # "no" \/ call.what # "types")

(* The names that get_specific_type has for the basic types.               *)
PlainNamed(v) == v.type \in Basic \cup {"nil"} => v.specific = v.type

(* The value is not decided by this alternative, nor is it what it names,  *)
(* but for "table" and a table of another name.                            *)
Missed(v, name) ==
  /\ v.type \notin Basic
  /\ (v.type = "table" /\ name = "table" => v.specific = "table") => ~ IsA(v, name)

(* None of the alternatives before this one is what the value is, and      *)
(* those that are the names of checks that have stayed were asked.         *)
NotYet ==
  /\ \A name : <<name, TRUE>> \notin call.said
  /\ \A i \in 1 .. Len(Desc.alts) : i < call.alt =>
       /\ Missed(Value, Desc.alts[i])
       /\ Desc.alts[i] \in call.kept
            /\ ~ IsFileAsked(Value, Desc.alts[i]) => <<Desc.alts[i], FALSE>> \in call.said

NotThis == Missed(Value, Tried)

AtAlternatives ==
  /\ Asked /\ ~ Options /\ Desc.alts # <<>> /\ ~ (Desc.opt /\ Value.type = "nil")
  /\ call.step = "match" => call.alt <= Len(Desc.alts) + 1
  /\ call.step = "asking" => call.alt <= Len(Desc.alts) /\ NotThis /\ Tried \in Custom
  /\ call.step # "said" => NotYet
  /\ call.step = "said" => \E i \in 1 .. Len(Desc.alts) : <<Desc.alts[i], TRUE>> \in call.said

Trial == call.what # "arg" /\ call.step \in {"match", "asking", "said"}

Fresh == call.step = "next" => call.said = {} /\ call.alt = 1

CallInv ==
  /\ Shape /\ Fresh
  /\ call.what # "arg" => Passed
  /\ Trial => AtAlternatives

(* The inductive invariant of the three theorems.                          *)
ChecksInv ==
  /\ checkers = None \/ checkers \subseteq Custom
  /\ call # None => CallInv /\ EveryArgumentChecked /\ RefusedRightly

---------------------------------------------------------------------------
(* The argument and its descriptor.                                        *)
LEMMA GivenValues ==
  ASSUME Shape
  PROVE  /\ Locals \in Seq(Values) /\ Given \in Seq(Values)
         /\ Len(Given) = Len(Locals) + Len(call.frame.varargs)
         /\ Len(Locals) \in Nat /\ Len(Given) \in Nat /\ Len(Locals) <= Len(Given)
         /\ Len(call.descs) \in Nat
<1>1. Locals \in Seq(Values) /\ call.frame.varargs \in Seq(Values)
  BY ChecksAssumption DEF Shape, Locals
<1>2. /\ Given \in Seq(Values)
      /\ Len(Given) = Len(Locals) + Len(call.frame.varargs)
  BY <1>1, ConcatProperties DEF Given
<1>3. Len(Locals) \in Nat /\ Len(call.frame.varargs) \in Nat
  BY <1>1
<1>4. Len(call.descs) \in Nat
  <2>1. call.descs \in Seq(Shapes)
    BY DEF Shape
  <2>. QED  BY <2>1
<1>. QED  BY <1>1, <1>2, <1>3, <1>4

LEMMA ValueThere ==
  ASSUME Shape, Present
  PROVE  /\ call.arg \in 1 .. Len(Given) /\ Value \in Values
         /\ PlainNamed(Value)
<1>1. call.arg \in 1 .. Len(Given)
  <2>1. call.arg \in Nat \ {0}
    BY DEF Shape
  <2>. QED  BY <2>1, GivenValues DEF Present
<1>2. Value \in Values
  BY <1>1, GivenValues DEF Value
<1>3. Value \in ToSet(Given)
  BY <1>1, GivenValues DEF Value, ToSet
<1>. QED  BY <1>1, <1>2, <1>3, ChecksAssumption DEF Shape, Given, Locals, PlainNamed, Basic

LEMMA DescThere ==
  ASSUME Shape, call.what # "arg", Eating => call.more # "no" \/ call.what # "types"
  PROVE  Desc \in Shapes
<1>1. CASE Eating
  BY <1>1 DEF Desc, Shape
<1>2. CASE ~ Eating
  <2>1. call.descs \in Seq(Shapes)
    BY DEF Shape
  <2>2. Len(call.descs) \in Nat
    BY GivenValues
  <2>3. call.arg \in 1 .. Len(call.descs)
    <3>1. call.arg \in Nat \ {0} /\ call.arg <= Len(call.descs)
      BY <1>2, <2>2 DEF Shape, Eating
    <3>. QED  BY <2>2, <3>1
  <2>4. call.descs[call.arg] \in Shapes
    BY <2>1, <2>3, ElementOfSeq
  <2>. QED  BY <1>2, <2>4 DEF Desc
<1>. QED  BY <1>1, <1>2

LEMMA InvImplies == ChecksInv => TypeOK /\ AcceptedMatch
<1> SUFFICES ASSUME ChecksInv PROVE TypeOK /\ AcceptedMatch
  OBVIOUS
<1>1. TypeOK
  <2>1. SUFFICES ASSUME call # None, CallInv
                 PROVE  TypeOK
    BY DEF ChecksInv, TypeOK
  <2>2. call.step \in {"match", "said"} => Present /\ call.what # "arg"
    BY <2>1 DEF CallInv, Shape, Trial, AtAlternatives, Asked
  <2>3. call.step = "match" => call.alt \in 1 .. Len(Desc.alts) + 1
    <3>1. SUFFICES ASSUME call.step = "match" PROVE call.alt \in 1 .. Len(Desc.alts) + 1
      OBVIOUS
    <3>2. AtAlternatives /\ Shape /\ call.what # "arg"
      BY <2>1, <3>1 DEF CallInv, Shape, Trial
    <3>3. Desc.alts \in Seq(STRING)
      BY <3>2, DescThere DEF AtAlternatives, Asked, Shapes
    <3>4. Len(Desc.alts) \in Nat /\ call.alt \in Nat \ {0}
      BY <3>2, <3>3 DEF Shape
    <3>. QED  BY <3>1, <3>2, <3>4 DEF AtAlternatives
  <2>4. /\ call.what \in {"types", "type", "option", "arg"} /\ call.frame \in Frames
        /\ call.more \in {"no", "*", "+"} /\ call.arg >= 1
        /\ call.step \in {"next", "match", "asking", "said", "done"}
        /\ (call.outcome # "none") <=> (call.step = "done")
    BY <2>1 DEF CallInv, Shape, Steps
  <2>5. /\ call.outcome \in {"none", "ok", "bad_argument", "invalid_index", "raised",
                              "empty_descriptor", "invalid_descriptor"}
        /\ call.said \subseteq Custom \X BOOLEAN /\ call.kept \subseteq Custom
    BY <2>1 DEF CallInv, Shape, Outcomes, Says
  <2>. QED  BY <2>1, <2>2, <2>3, <2>4, <2>5 DEF TypeOK, ChecksInv
<1>2. AcceptedMatch
  <2>1. SUFFICES ASSUME call # None, NEW c \in ToSet(call.checked)
                 PROVE  Meets(c.value, c.desc, c.desc.colon \/ call.what = "option", c.said)
    BY DEF AcceptedMatch
  <2>2. CallInv
    BY <2>1 DEF ChecksInv
  <2>3. PICK i \in 1 .. Len(call.checked) : c = call.checked[i]
    BY <2>1, <2>2 DEF CallInv, Shape, ToSet
  <2>4. call.what # "arg"
    BY <2>2, <2>3 DEF CallInv, Shape
  <2>. QED  BY <2>2, <2>3, <2>4 DEF CallInv, Passed, Right
<1>. QED  BY <1>1, <1>2

---------------------------------------------------------------------------
(* A step that stays with the argument.                                    *)
Still ==
  /\ DOMAIN call' = Fields
  /\ call'.what = call.what /\ call'.frame = call.frame /\ call'.descs = call.descs
  /\ call'.more = call.more /\ call'.rest = call.rest /\ call'.first = call.first
  /\ call'.arg = call.arg /\ call'.checked = call.checked

LEMMA SameArgument ==
  ASSUME Still
  PROVE  /\ Locals' = Locals /\ Given' = Given /\ Eating' = Eating /\ Desc' = Desc
         /\ Present' = Present /\ Value' = Value /\ Options' = Options
<1>1. Locals' = Locals /\ Given' = Given
  BY DEF Still, Locals, Given
<1>2. Eating' = Eating
  BY DEF Still, Eating
<1>3. Desc' = Desc
  BY <1>2 DEF Still, Desc
<1>4. Present' = Present
  BY <1>1, <1>2 DEF Still, Present
<1>5. Value' = Value
  BY <1>1 DEF Still, Value
<1>6. Options' = Options
  BY <1>3 DEF Still, Options
<1>. QED  BY <1>1, <1>2, <1>3, <1>4, <1>5, <1>6

LEMMA PassedStill ==
  ASSUME Still, Passed
  PROVE  Passed'
<1>1. \A i \in 1 .. Len(call.checked) : Right(call'.checked[i], i, call', Given')
  BY SameArgument DEF Still, Passed, Right
<1>. QED  BY <1>1, SameArgument DEF Still, Passed

(* What keeps a call a call.                                               *)
LEMMA ShapeStill ==
  ASSUME Still, Shape, UNCHANGED checkers,
         call'.alt \in Nat \ {0}, call'.step \in Steps, call'.outcome \in Outcomes,
         (call'.outcome # "none") <=> (call'.step = "done"),
         call'.said \in Says, call'.kept = call.kept,
         call'.step \in {"next", "match", "said"} => call.what # "arg"
  PROVE  Shape'
<1>1. Registered' = Registered
  BY DEF Registered
<1>. QED  BY <1>1 DEF Still, Shape

(* The body of RefusedRightly.                                             *)
Refusable ==
  Present =>
    /\ ~ MeetsOneOf(Value, Desc, Options, call.said, Counted(Value, Desc))
    /\ ~ Options /\ Value.type \notin Basic =>
         \A name \in ToSet(Desc.alts) \cap call.kept :
           ~ IsFileAsked(Value, name) => <<name, FALSE>> \in call.said

(* The end of a call.                                                      *)
LEMMA InvEnd ==
  ASSUME ChecksInv, call # None, Still, UNCHANGED checkers,
         call'.alt = call.alt, call'.said = call.said, call'.kept = call.kept,
         call'.step = "done", call'.outcome \in Outcomes \ {"none"},
         call'.outcome = "ok" /\ call.what = "types" =>
           /\ Len(call.checked) = IF call.more = "no" THEN Len(call.descs) ELSE Len(Given)
           /\ call.more = "+" => Len(call.checked) > Len(call.descs),
         call'.outcome = "bad_argument" /\ call.what # "arg" =>
           call'.blamed = Number(call.arg, call.frame) /\ Refusable
  PROVE  ChecksInv'
<1>1. CallInv
  BY DEF ChecksInv
<1>2. Shape'
  BY <1>1, ShapeStill DEF CallInv, Shape, Steps
<1>3. call.what # "arg" => Passed /\ Passed'
  BY <1>1, PassedStill DEF CallInv
<1>4. CallInv'
  BY <1>2, <1>3 DEF CallInv, Fresh, Trial, Still
<1>5. EveryArgumentChecked'
  BY <1>3, SameArgument DEF EveryArgumentChecked, Still, Passed, Right
<1>6. RefusedRightly'
  BY <1>3, SameArgument DEF RefusedRightly, Refusable, Still, Passed, Number
<1>. QED  BY <1>4, <1>5, <1>6 DEF ChecksInv

(* The trial of the alternatives goes on.                                  *)
LEMMA InvTrial ==
  ASSUME ChecksInv, call # None, call.what # "arg", Still, UNCHANGED checkers,
         call'.outcome = "none", call'.alt \in Nat \ {0}, call'.said \in Says,
         call'.kept = call.kept, call'.step \in {"match", "asking", "said"}, AtAlternatives'
  PROVE  ChecksInv'
<1>1. CallInv
  BY DEF ChecksInv
<1>2. Shape'
  BY <1>1, ShapeStill DEF CallInv, Steps, Outcomes
<1>3. Passed'
  BY <1>1, PassedStill DEF CallInv
<1>4. CallInv'
  BY <1>2, <1>3 DEF CallInv, Fresh, Trial
<1>5. EveryArgumentChecked' /\ RefusedRightly'
  BY DEF EveryArgumentChecked, RefusedRightly
<1>. QED  BY <1>4, <1>5 DEF ChecksInv

(* The argument is accepted: it is the next one after those that were.     *)
LEMMA InvAccept ==
  ASSUME ChecksInv, call # None, call.what # "arg", call.step # "done", Accept, Asked,
         Eating => call.more # "no" \/ call.what # "types",
         Meets(Value, Desc, Options, call.said)
  PROVE  ChecksInv'
<1> DEFINE x == [value |-> Value, desc |-> Desc, said |-> call.said]
<1>1. CallInv /\ Shape /\ Passed /\ call.outcome = "none"
  BY DEF ChecksInv, CallInv, Shape
<1>2. /\ DOMAIN call' = Fields
      /\ call'.what = call.what /\ call'.frame = call.frame /\ call'.descs = call.descs
      /\ call'.more = call.more /\ call'.rest = call.rest /\ call'.first = call.first
      /\ call'.arg = call.arg + 1 /\ call'.kept = call.kept /\ call'.outcome = call.outcome
      /\ call'.step = "next" /\ call'.said = {} /\ call'.alt = 1
      /\ call'.checked = Append(call.checked, x) /\ UNCHANGED checkers
  BY <1>1 DEF Accept, Shape, Fields
<1>3. Desc \in Shapes /\ Value \in Values /\ call.arg \in 1 .. Len(Given)
  BY <1>1, DescThere, ValueThere DEF Asked
<1>4. x \in Accepted
  BY <1>1, <1>3 DEF Accepted, Shape
<1>5. call.checked \in Seq(Accepted) /\ call.arg \in Nat \ {0} /\ call.first \in Nat \ {0}
  BY <1>1 DEF Shape
<1> HIDE DEF x
<1>6. /\ call'.checked \in Seq(Accepted) /\ Len(call'.checked) = Len(call.checked) + 1
      /\ \A i \in 1 .. Len(call.checked) : call'.checked[i] = call.checked[i]
      /\ call'.checked[Len(call.checked) + 1] = x
      /\ Len(call.checked) \in Nat
  BY <1>2, <1>4, <1>5
<1>7. Shape'
  <2>1. Registered' = Registered
    BY <1>2 DEF Registered
  <2>2. call'.arg \in Nat \ {0} /\ call'.said \in Says /\ call'.alt \in Nat \ {0}
    BY <1>2, <1>5 DEF Says
  <2>. QED  BY <1>1, <1>2, <1>6, <2>1, <2>2 DEF Shape, Steps
<1>8. Given' = Given
  BY <1>2 DEF Given, Locals
<1>9. Passed'
  <2>1. \A i \in 1 .. Len(call.checked) : Right(call'.checked[i], i, call', Given')
    BY <1>1, <1>2, <1>6, <1>8 DEF Passed, Right
  <2>2. call.what = "types" => Len(call.checked) + 1 = call.arg
    BY <1>1, <1>5 DEF Passed
  <2>3. x.value = Value /\ x.desc = Desc /\ x.said = call.said
    BY DEF x
  <2>4. Right(x, Len(call.checked) + 1, call', Given')
    <3>1. Meets(x.value, x.desc, x.desc.colon \/ call.what = "option", x.said)
      BY <2>3 DEF Options
    <3>2. call.what = "types" =>
            x.value = Given[call.arg] /\ call.arg <= Len(Given)
            /\ x.desc = IF call.arg <= Len(call.descs) THEN call.descs[call.arg] ELSE call.rest
      BY <1>1, <1>3, <1>5, <2>3, GivenValues DEF Value, Desc, Eating
    <3>. QED  BY <1>2, <1>8, <2>2, <3>1, <3>2 DEF Right
  <2>5. \A i \in 1 .. Len(call'.checked) : Right(call'.checked[i], i, call', Given')
    BY <1>6, <2>1, <2>4
  <2>6. Len(call'.checked) = call'.arg - call'.first
    BY <1>1, <1>2, <1>5, <1>6 DEF Passed
  <2>7. call.what = "types" =>
          /\ call'.first = 1 /\ call'.arg <= Len(Given) + 1
          /\ call.more = "no" => call'.arg <= Len(call.descs) + 1
    BY <1>1, <1>2, <1>3, <1>5, GivenValues DEF Passed, Eating
  <2>. QED  BY <1>2, <1>8, <2>5, <2>6, <2>7 DEF Passed
<1>10. CallInv'
  BY <1>2, <1>7, <1>9 DEF CallInv, Fresh, Trial
<1>11. EveryArgumentChecked' /\ RefusedRightly'
  BY <1>1, <1>2 DEF EveryArgumentChecked, RefusedRightly
<1>. QED  BY <1>2, <1>10, <1>11 DEF ChecksInv

---------------------------------------------------------------------------
(* The calls.                                                              *)
LEMMA InvBegin ==
  ASSUME ChecksInv, NEW what \in {"types", "type", "option"}, NEW frame \in Frames,
         NEW descs \in Seq(Shapes), NEW more \in {"no", "*", "+"}, NEW rest,
         (what = "types" => more # "no") => rest \in Shapes,
         NEW arg \in Nat \ {0}, what = "types" => arg = 1,
         Begin(what, frame, descs, more, rest, arg)
  PROVE  ChecksInv'
<1>1. /\ DOMAIN call' = Fields /\ call'.what = what /\ call'.frame = frame
      /\ call'.descs = descs /\ call'.more = more /\ call'.rest = rest
      /\ call'.first = arg /\ call'.arg = arg /\ call'.step = "next" /\ call'.alt = 1
      /\ call'.outcome = "none" /\ call'.checked = <<>> /\ call'.said = {}
      /\ call'.kept = Registered /\ UNCHANGED checkers
  BY DEF Begin, Fields
<1>2. Registered \subseteq Custom /\ Registered' = Registered
  BY <1>1 DEF ChecksInv, Registered
<1>3. Shape'
  <2>1. <<>> \in Seq(Accepted)
    OBVIOUS
  <2>. QED  BY <1>1, <1>2, <2>1 DEF Shape, Steps, Outcomes, Says
<1>4. Passed'
  <2>1. Len(Given') \in Nat /\ Len(descs) \in Nat
    <3>1. frame.locals \in Seq(Values) /\ frame.varargs \in Seq(Values)
      BY ChecksAssumption
    <3>2. Given' = frame.locals \o frame.varargs
      BY <1>1 DEF Given, Locals
    <3>3. Given' \in Seq(Values)
      BY <3>1, <3>2, ConcatProperties
    <3>. QED  BY <3>3
  <2>2. Len(call'.checked) = 0
    BY <1>1
  <2>. QED  BY <1>1, <2>1, <2>2 DEF Passed
<1>5. CallInv'
  BY <1>1, <1>3, <1>4 DEF CallInv, Fresh, Trial
<1>6. EveryArgumentChecked' /\ RefusedRightly'
  BY <1>1 DEF EveryArgumentChecked, RefusedRightly
<1>. QED  BY <1>1, <1>5, <1>6 DEF ChecksInv

LEMMA InvCheck ==
  ASSUME ChecksInv, CheckTypes \/ CheckType \/ CheckOption
  PROVE  ChecksInv'
<1>1. ASSUME NEW f \in Frames, NEW s \in Signatures, Begin("types", f, s.descs, s.more, s.rest, 1)
      PROVE  ChecksInv'
  <2>1. /\ s.descs \in Seq(Shapes) /\ s.more \in {"no", "*", "+"}
        /\ s.more # "no" => s.rest \in Shapes
    BY ChecksAssumption
  <2>. QED  BY <1>1, <2>1, InvBegin
<1>2. ASSUME NEW f \in Frames, NEW d \in Descriptors, NEW arg \in Places,
             NEW what \in {"type", "option"}, Begin(what, f, [i \in 1 .. arg |-> d], "no", d, arg)
      PROVE  ChecksInv'
  <2>1. d \in Shapes /\ arg \in Nat \ {0}
    BY ChecksAssumption
  <2>2. [i \in 1 .. arg |-> d] \in Seq(Shapes)
    BY <2>1
  <2>. QED  BY <1>2, <2>1, <2>2, InvBegin
<1>. QED  BY <1>1, <1>2 DEF CheckTypes, CheckType, CheckOption

LEMMA InvAsks ==
  ASSUME ChecksInv, CheckArg \/ ArgError
  PROVE  ChecksInv'
<1>1. PICK f \in Frames, arg \in Places, step \in {"done", "asking"}, o \in Outcomes :
        Asks(f, arg, step, o) /\ (o = "none" <=> step = "asking")
  BY DEF CheckArg, ArgError, Outcomes
<1>2. /\ DOMAIN call' = Fields /\ call'.what = "arg" /\ call'.frame = f
      /\ call'.descs = <<>> /\ call'.more = "no"
      /\ call'.first = arg /\ call'.arg = arg /\ call'.step = step /\ call'.alt = 1
      /\ call'.outcome = o /\ call'.checked = <<>> /\ call'.said = {}
      /\ call'.kept = {} /\ UNCHANGED checkers
  BY <1>1 DEF Asks, Fields
<1>3. arg \in Nat \ {0} /\ <<>> \in Seq(Accepted) /\ <<>> \in Seq(Shapes)
  BY ChecksAssumption
<1>4. Shape'
  BY <1>1, <1>2, <1>3 DEF Shape, Steps, Says
<1>5. CallInv'
  BY <1>1, <1>2, <1>4 DEF CallInv, Fresh, Trial
<1>6. EveryArgumentChecked' /\ RefusedRightly'
  BY <1>2 DEF EveryArgumentChecked, RefusedRightly
<1>. QED  BY <1>2, <1>5, <1>6 DEF ChecksInv

---------------------------------------------------------------------------
(* The steps of a call.                                                    *)
LEMMA InvEnds ==
  ASSUME ChecksInv, call # None, NEW o \in Outcomes \ {"none", "bad_argument"}, Ends(o),
         o = "ok" /\ call.what = "types" =>
           /\ Len(call.checked) = IF call.more = "no" THEN Len(call.descs) ELSE Len(Given)
           /\ call.more = "+" => Len(call.checked) > Len(call.descs)
  PROVE  ChecksInv'
<1>1. DOMAIN call = Fields
  BY DEF ChecksInv, CallInv, Shape
<1>2. /\ Still /\ call'.alt = call.alt /\ call'.said = call.said /\ call'.kept = call.kept
      /\ call'.step = "done" /\ call'.outcome = o /\ UNCHANGED checkers
  BY <1>1 DEF Ends, Still, Fields
<1>. QED  BY <1>2, InvEnd

LEMMA InvBlame ==
  ASSUME ChecksInv, call # None, Blame(call.arg), call.what # "arg" => Refusable
  PROVE  ChecksInv'
<1>1. DOMAIN call = Fields
  BY DEF ChecksInv, CallInv, Shape
<1>2. /\ Still /\ call'.alt = call.alt /\ call'.said = call.said /\ call'.kept = call.kept
      /\ call'.step = "done" /\ call'.outcome = "bad_argument" /\ UNCHANGED checkers
      /\ call'.blamed = Number(call.arg, call.frame)
  BY <1>1 DEF Blame, Still, Fields
<1>. QED  BY <1>2, InvEnd DEF Outcomes

(* No argument is left, or the one asked for is not there.                 *)
LEMMA InvNoMore ==
  ASSUME ChecksInv, NoMore
  PROVE  ChecksInv'
<1>1. call # None /\ CallInv /\ Shape /\ call.step = "next" /\ call.what \in {"types", "type", "option", "arg"}
  BY DEF ChecksInv, CallInv, Shape, NoMore, Doing
<1>2. /\ call.arg \in Nat \ {0} /\ call.first \in Nat \ {0} /\ Len(call.checked) \in Nat
      /\ Len(Given) \in Nat /\ Len(call.descs) \in Nat
  <2>1. call.checked \in Seq(Accepted)
    BY <1>1 DEF Shape
  <2>. QED  BY <1>1, <2>1, GivenValues DEF Shape
<1>3. ~ Present => Refusable
  BY DEF Refusable
<1>4. ASSUME Ends("ok"), Finished \/ (Eating /\ (call.more = "no" \/
               (~ Present /\ (call.more = "*" \/ call.arg > Len(call.descs) + 1))))
      PROVE  ChecksInv'
  <2>1. SUFFICES ASSUME call.what = "types"
                 PROVE  /\ Len(call.checked) = IF call.more = "no" THEN Len(call.descs) ELSE Len(Given)
                        /\ call.more = "+" => Len(call.checked) > Len(call.descs)
    BY <1>1, <1>4, InvEnds DEF Outcomes
  <2>2. Passed /\ ~ Finished
    BY <1>1, <2>1 DEF CallInv, Finished
  <2>3. Len(call.checked) = call.arg - 1 /\ call.arg <= Len(Given) + 1
        /\ (call.more = "no" => call.arg <= Len(call.descs) + 1)
    BY <2>1, <2>2 DEF Passed
  <2>4. Eating /\ call.arg > Len(call.descs)
    BY <1>4, <2>2 DEF Eating
  <2>5. CASE call.more = "no"
    BY <1>2, <2>3, <2>4, <2>5
  <2>6. CASE call.more # "no"
    <3>1. call.arg > Len(Given)
      BY <1>2, <1>4, <2>2, <2>4, <2>6 DEF Present
    <3>. QED  BY <1>2, <1>4, <2>2, <2>3, <2>4, <2>6, <3>1
  <2>. QED  BY <2>5, <2>6
<1>5. CASE Blame(call.arg) /\ ~ Present
  BY <1>1, <1>3, <1>5, InvBlame
<1>6. CASE Ends("invalid_index")
  BY <1>1, <1>6, InvEnds DEF Outcomes
<1>. QED  BY <1>4, <1>5, <1>6 DEF NoMore

LEMMA InvNothingAsked ==
  ASSUME ChecksInv, NothingAsked
  PROVE  ChecksInv'
BY InvEnds DEF NothingAsked, Looking, Doing, Outcomes

LEMMA InvLook ==
  ASSUME ChecksInv, Look
  PROVE  ChecksInv'
<1>1. /\ call # None /\ CallInv /\ Shape /\ call.step = "next" /\ call.said = {} /\ call.alt = 1
      /\ Present /\ (Eating => call.more # "no")
  BY DEF ChecksInv, CallInv, Fresh, Look, Looking, Doing
<1>2. Asked
  BY <1>1 DEF Asked
<1>3. call.what # "arg" /\ Desc \in Shapes /\ Value \in Values
  BY <1>1, <1>2, DescThere, ValueThere DEF Asked, Shape
<1>4. ASSUME Accept, Desc.alts = <<>> \/ (Desc.opt /\ Value.type = "nil")
                      \/ (Options /\ Value.type = "string" /\ Value.text \in ToSet(Desc.alts))
      PROVE  ChecksInv'
  <2>1. Meets(Value, Desc, Options, call.said)
    BY <1>4 DEF Meets, MeetsOneOf
  <2>. QED  BY <1>1, <1>2, <1>3, <1>4, <2>1, InvAccept
<1>5. ASSUME Ends("invalid_descriptor") PROVE ChecksInv'
  BY <1>1, <1>5, InvEnds DEF Outcomes
<1>6. ASSUME ~ Options, Desc.alts # <<>>, ~ (Desc.opt /\ Value.type = "nil"),
             call' = [call EXCEPT !.step = "match"], UNCHANGED checkers
      PROVE  ChecksInv'
  <2>1. /\ Still /\ call'.alt = 1 /\ call'.said = {} /\ call'.kept = call.kept
        /\ call'.step = "match" /\ call'.outcome = "none"
    BY <1>1, <1>6 DEF Still, Shape, Fields
  <2>2. 1 <= Len(Desc.alts) + 1
    <3>1. Desc.alts \in Seq(STRING)
      BY <1>3 DEF Shapes
    <3>. QED  BY <3>1
  <2>3. NotYet'
    BY <2>1, SameArgument DEF NotYet
  <2>4. Asked'
    BY <1>2, <2>1, SameArgument DEF Asked, Still
  <2>5. AtAlternatives'
    BY <1>6, <2>1, <2>2, <2>3, <2>4, SameArgument DEF AtAlternatives
  <2>. QED  BY <1>1, <1>3, <1>6, <2>1, <2>5, InvTrial DEF Says
<1>7. ASSUME Blame(call.arg), Options, Desc.alts # <<>>, ~ (Desc.opt /\ Value.type = "nil"),
             ~ (Value.type = "string" /\ Value.text \in ToSet(Desc.alts))
      PROVE  ChecksInv'
  <2>1. Refusable
    BY <1>7 DEF Refusable, MeetsOneOf
  <2>. QED  BY <1>1, <1>7, <2>1, InvBlame
<1>. QED  BY <1>4, <1>5, <1>6, <1>7 DEF Look

(* What is known while the alternatives are tried.                         *)
LEMMA InTrial ==
  ASSUME ChecksInv, call # None, Trial
  PROVE  /\ Shape /\ AtAlternatives /\ Asked /\ call.outcome = "none" /\ Desc \in Shapes
         /\ Value \in Values /\ PlainNamed(Value)
         /\ DOMAIN Desc.alts = 1 .. Len(Desc.alts) /\ Len(Desc.alts) \in Nat
         /\ call.alt \in Nat \ {0} /\ call.said \in Says
<1>1. Shape /\ AtAlternatives /\ call.what # "arg" /\ call.step # "done"
  BY DEF ChecksInv, CallInv, Trial
<1>2. Desc \in Shapes /\ Value \in Values /\ PlainNamed(Value)
  BY <1>1, DescThere, ValueThere DEF AtAlternatives, Asked
<1>3. Desc.alts \in Seq(STRING)
  BY <1>2 DEF Shapes
<1>4. DOMAIN Desc.alts = 1 .. Len(Desc.alts) /\ Len(Desc.alts) \in Nat
  BY <1>3
<1>5. call.outcome = "none" /\ call.alt \in Nat \ {0} /\ call.said \in Says
  BY <1>1 DEF Shape
<1>. QED  BY <1>1, <1>2, <1>4, <1>5 DEF AtAlternatives

(* The value is one of the alternatives.                                   *)
LEMMA InvAccepted ==
  ASSUME ChecksInv, call # None, Trial, Accept,
         NEW i \in 1 .. Len(Desc.alts),
         IsA(Value, Desc.alts[i]) \/ <<Desc.alts[i], TRUE>> \in call.said
  PROVE  ChecksInv'
<1>1. Desc.alts[i] \in ToSet(Desc.alts)
  BY InTrial DEF ToSet
<1>2. Meets(Value, Desc, Options, call.said)
  BY <1>1, InTrial DEF Meets, MeetsOneOf, AtAlternatives
<1>. QED  BY <1>2, InTrial, InvAccept DEF Trial, Asked

(* What the two comparisons with the name of a type leave.                 *)
LEMMA NotOfType ==
  ASSUME NEW v \in Values, NEW name, PlainNamed(v),
         ~ FastMatches(v, name), ~ FastRefuses(v, name), ~ Named(v, name)
  PROVE  Missed(v, name)
<1>1. v.type \in Types
  BY DEF Values
<1>. QED
  BY <1>1 DEF Types, FastMatches, FastRefuses, Named, IsFileAsked, Basic, Missed, IsA, PlainNamed

(* The first alternative of a basic type is not it.                        *)
LEMMA NotBasic ==
  ASSUME NEW v, NEW name, PlainNamed(v), FastRefuses(v, name)
  PROVE  ~ IsA(v, name) /\ v.type \in Basic
BY DEF FastRefuses, FastMatches, IsA, PlainNamed, Basic

LEMMA InvTryFast ==
  ASSUME ChecksInv, TryFast
  PROVE  ChecksInv'
<1>1. call # None /\ call.step = "match" /\ call.alt <= Len(Desc.alts)
  BY DEF TryFast, Trying, Doing
<1>2. Trial /\ Shape /\ call.what # "arg"
  BY <1>1 DEF Trial, ChecksInv, CallInv, Shape
<1>3. call.alt \in 1 .. Len(Desc.alts)
  BY <1>1, <1>2, InTrial
<1>4. ASSUME FastMatches(Value, Tried), Accept
      PROVE  ChecksInv'
  <2>1. IsA(Value, Tried)
    BY <1>4 DEF FastMatches, IsA, Basic
  <2>. QED  BY <1>1, <1>2, <1>3, <1>4, <2>1, InvAccepted DEF Tried
<1>5. ASSUME FastRefuses(Value, Tried), Blame(call.arg)
      PROVE  ChecksInv'
  <2>1. ~ IsA(Value, Tried) /\ Value.type \in Basic
    BY <1>1, <1>2, <1>5, InTrial, NotBasic
  <2>2. AtAlternatives /\ NotYet
    BY <1>1, <1>2, InTrial DEF AtAlternatives
  <2>3. call.alt = 1
    <3>1. 1 \in 1 .. Len(Desc.alts) /\ (call.alt # 1 => 1 < call.alt)
      BY <1>3
    <3>. QED  BY <2>1, <2>2, <3>1 DEF NotYet, Missed
  <2>4. Counted(Value, Desc) \subseteq {Tried}
    BY <2>1, <2>3 DEF Counted, Tried
  <2>5. ~ MeetsOneOf(Value, Desc, Options, call.said, Counted(Value, Desc))
    BY <2>1, <2>2, <2>4 DEF MeetsOneOf, AtAlternatives, NotYet
  <2>6. Refusable
    BY <2>1, <2>5 DEF Refusable
  <2>. QED  BY <1>1, <1>5, <2>6, InvBlame
<1>. QED  BY <1>4, <1>5 DEF TryFast

(* The alternatives that were passed over, and the one that now is.        *)
LEMMA OneMore ==
  ASSUME ChecksInv, call # None, Trial, call.step # "said", NotThis,
         Still, call'.alt = call.alt + 1, call'.kept = call.kept,
         call.said \subseteq call'.said,
         \A name : <<name, TRUE>> \notin call'.said,
         Tried \in call.kept /\ ~ IsFileAsked(Value, Tried) => <<Tried, FALSE>> \in call'.said
  PROVE  NotYet'
<1>1. NotYet /\ call.alt \in Nat \ {0}
  BY InTrial DEF AtAlternatives
<1>2. SUFFICES ASSUME NEW i \in 1 .. Len(Desc.alts), i < call.alt + 1
               PROVE  /\ Missed(Value, Desc.alts[i])
                      /\ Desc.alts[i] \in call.kept
                           /\ ~ IsFileAsked(Value, Desc.alts[i])
                             => <<Desc.alts[i], FALSE>> \in call'.said
  BY SameArgument DEF NotYet
<1>3. CASE i < call.alt
  BY <1>1, <1>3 DEF NotYet
<1>4. CASE i = call.alt
  BY <1>4 DEF NotThis, Tried
<1>. QED  BY <1>1, <1>2, <1>3, <1>4

LEMMA InvTryOwn ==
  ASSUME ChecksInv, TryOwn
  PROVE  ChecksInv'
<1>1. call # None /\ call.step = "match" /\ call.alt <= Len(Desc.alts)
  BY DEF TryOwn, Trying, Doing
<1>2. Trial /\ Shape /\ call.what # "arg"
  BY <1>1 DEF Trial, ChecksInv, CallInv, Shape
<1>3. call.alt \in 1 .. Len(Desc.alts) /\ AtAlternatives /\ NotYet
  BY <1>1, <1>2, InTrial DEF AtAlternatives
<1>4. ASSUME Named(Value, Tried), Accept
      PROVE  ChecksInv'
  <2>1. IsA(Value, Tried)
    BY <1>4 DEF Named, IsFileAsked, IsA
  <2>. QED  BY <1>1, <1>2, <1>3, <1>4, <2>1, InvAccepted DEF Tried
<1>5. ASSUME ~ Named(Value, Tried)
      PROVE  NotThis
  <2>1. Value \in Values /\ PlainNamed(Value)
    BY <1>1, <1>2, InTrial
  <2>2. ~ FastMatches(Value, Tried) /\ ~ FastRefuses(Value, Tried)
    BY DEF TryOwn
  <2>. QED  BY <1>5, <2>1, <2>2, NotOfType DEF NotThis
<1>6. ASSUME ~ Named(Value, Tried), Tried \in Registered,
             call' = [call EXCEPT !.step = "asking"], UNCHANGED checkers
      PROVE  ChecksInv'
  <2>1. /\ Still /\ call'.alt = call.alt /\ call'.said = call.said
        /\ call'.kept = call.kept /\ call'.step = "asking" /\ call'.outcome = "none"
    BY <1>1, <1>2, <1>6, InTrial DEF Still, Shape, Fields
  <2>2. Tried' = Tried /\ NotThis'
    BY <1>5, <1>6, <2>1, SameArgument DEF NotThis, Tried
  <2>3. NotYet'
    BY <1>3, <2>1, SameArgument DEF NotYet
  <2>4. Tried \in Custom
    BY <1>6 DEF ChecksInv, Registered
  <2>5. Asked'
    BY <1>3, <2>1, SameArgument DEF AtAlternatives, Asked, Still
  <2>6. AtAlternatives'
    BY <1>1, <1>3, <2>1, <2>2, <2>3, <2>4, <2>5, SameArgument DEF AtAlternatives
  <2>7. call'.alt \in Nat \ {0} /\ call'.said \in Says
    BY <1>1, <1>2, <2>1, InTrial
  <2>. QED  BY <1>1, <1>2, <1>6, <2>1, <2>6, <2>7, InvTrial
<1>7. ASSUME ~ Named(Value, Tried), IsFileAsked(Value, Tried) \/ Tried \notin Registered,
             NextAlternative
      PROVE  ChecksInv'
  <2>1. /\ Still /\ call'.alt = call.alt + 1 /\ call'.said = call.said
        /\ call'.kept = call.kept /\ call'.step = "match" /\ call'.outcome = "none"
        /\ UNCHANGED checkers
    BY <1>1, <1>2, <1>7, InTrial DEF Still, Shape, Fields, NextAlternative
  <2>2. call.kept \subseteq Registered
    BY <1>2 DEF Shape
  <2>3. NotYet'
    BY <1>1, <1>2, <1>3, <1>5, <1>7, <2>1, <2>2, OneMore DEF NotYet
  <2>4. Asked'
    BY <1>3, <2>1, SameArgument DEF AtAlternatives, Asked, Still
  <2>5. call'.alt <= Len(Desc.alts) + 1 /\ call'.alt \in Nat \ {0}
    BY <1>3, <2>1
  <2>6. AtAlternatives'
    BY <1>3, <2>1, <2>3, <2>4, <2>5, SameArgument DEF AtAlternatives
  <2>7. call'.said \in Says
    BY <1>1, <1>2, <2>1, InTrial
  <2>. QED  BY <1>1, <1>2, <2>1, <2>5, <2>6, <2>7, InvTrial
<1>. QED  BY <1>4, <1>6, <1>7 DEF TryOwn

LEMMA InvNoneLeft ==
  ASSUME ChecksInv, NoneLeft
  PROVE  ChecksInv'
<1>1. /\ call # None /\ call.step = "match" /\ call.alt > Len(Desc.alts)
      /\ Blame(call.arg) /\ Trial
  BY DEF NoneLeft, Doing, Trial, ChecksInv, CallInv, Shape
<1>2. AtAlternatives /\ NotYet /\ DOMAIN Desc.alts = 1 .. Len(Desc.alts)
      /\ Len(Desc.alts) \in Nat /\ call.alt \in Nat \ {0}
  BY <1>1, InTrial DEF AtAlternatives
<1>3. ASSUME NEW name \in ToSet(Desc.alts)
      PROVE  /\ Missed(Value, name)
             /\ name \in call.kept /\ ~ IsFileAsked(Value, name)
                  => <<name, FALSE>> \in call.said
  <2>1. PICK i \in 1 .. Len(Desc.alts) : name = Desc.alts[i]
    BY <1>2, <1>3 DEF ToSet
  <2>2. i < call.alt
    BY <1>1, <1>2
  <2>. QED  BY <1>2, <2>1, <2>2 DEF NotYet
<1>4. ~ MeetsOneOf(Value, Desc, Options, call.said, Counted(Value, Desc))
  BY <1>2, <1>3 DEF MeetsOneOf, Counted, Missed, AtAlternatives, NotYet
<1>5. Refusable
  BY <1>3, <1>4 DEF Refusable
<1>. QED  BY <1>1, <1>5, InvBlame

LEMMA InvCheckerSays ==
  ASSUME ChecksInv, NEW yes \in BOOLEAN, CheckerSays(yes)
  PROVE  ChecksInv'
<1>1. call # None /\ call.step = "asking" /\ Shape
  BY DEF CheckerSays, Doing, ChecksInv, CallInv
<1>2. ASSUME call.what = "arg" PROVE ChecksInv'
  <2>1. Ends("ok") \/ Blame(call.arg)
    BY <1>2 DEF CheckerSays
  <2>2. ASSUME Ends("ok") PROVE ChecksInv'
    BY <1>1, <1>2, <2>2, InvEnds DEF Outcomes
  <2>3. ASSUME Blame(call.arg) PROVE ChecksInv'
    BY <1>1, <1>2, <2>3, InvBlame
  <2>. QED  BY <2>1, <2>2, <2>3
<1>3. ASSUME call.what # "arg" PROVE ChecksInv'
  <2>1. Trial
    BY <1>1, <1>3 DEF Trial
  <2>2. AtAlternatives /\ NotYet /\ NotThis /\ Tried \in Custom
        /\ call.alt \in 1 .. Len(Desc.alts) /\ Len(Desc.alts) \in Nat
    BY <1>1, <2>1, InTrial DEF AtAlternatives
  <2>3. /\ Still /\ call'.said = call.said \cup {<<Tried, yes>>}
        /\ call'.kept = call.kept /\ call'.outcome = "none" /\ UNCHANGED checkers
        /\ call'.step = (IF yes THEN "said" ELSE "match")
        /\ call'.alt = IF yes THEN call.alt ELSE call.alt + 1
    BY <1>1, <1>3, <2>1, InTrial DEF Still, Shape, Fields, CheckerSays
  <2>4. call'.said \in Says
    BY <1>1, <2>1, <2>2, <2>3, InTrial DEF Says
  <2>5. Asked'
    BY <2>2, <2>3, SameArgument DEF AtAlternatives, Asked, Still
  <2>6. call'.alt \in Nat \ {0}
    BY <2>2, <2>3
  <2>7. CASE yes
    <3>1. <<Desc.alts[call.alt], TRUE>> \in call'.said
      BY <2>3, <2>7 DEF Tried
    <3>2. \E i \in 1 .. Len(Desc'.alts) : <<Desc'.alts[i], TRUE>> \in call'.said
      BY <2>2, <2>3, <3>1, SameArgument
    <3>3. /\ ~ Options' /\ Desc'.alts # <<>> /\ ~ (Desc'.opt /\ Value'.type = "nil")
          /\ call'.step = "said"
      BY <2>2, <2>3, <2>7, SameArgument DEF AtAlternatives
    <3>4. AtAlternatives'
      BY <2>5, <3>2, <3>3 DEF AtAlternatives
    <3>. QED  BY <1>1, <1>3, <2>3, <2>4, <2>6, <2>7, <3>4, InvTrial
  <2>8. CASE ~ yes
    <3>1. \A name : <<name, TRUE>> \notin call'.said
      BY <2>2, <2>3, <2>8 DEF NotYet
    <3>2. NotYet'
      BY <1>1, <2>1, <2>2, <2>3, <2>8, <3>1, OneMore
    <3>3. call'.alt <= Len(Desc.alts) + 1
      BY <2>2, <2>3, <2>8
    <3>4. AtAlternatives'
      BY <2>2, <2>3, <2>5, <2>8, <3>2, <3>3, SameArgument DEF AtAlternatives
    <3>. QED  BY <1>1, <1>3, <2>3, <2>4, <2>6, <2>8, <3>4, InvTrial
  <2>. QED  BY <2>7, <2>8
<1>. QED  BY <1>2, <1>3

LEMMA InvAnswered ==
  ASSUME ChecksInv, CheckerSaid \/ CheckerRaises
  PROVE  ChecksInv'
<1>1. ASSUME CheckerSaid PROVE ChecksInv'
  <2>1. call # None /\ call.step = "said" /\ Accept /\ Trial
    BY <1>1 DEF CheckerSaid, Doing, Trial, ChecksInv, CallInv, Shape
  <2>2. PICK i \in 1 .. Len(Desc.alts) : <<Desc.alts[i], TRUE>> \in call.said
    BY <2>1, InTrial DEF AtAlternatives
  <2>. QED  BY <2>1, <2>2, InvAccepted
<1>2. ASSUME CheckerRaises PROVE ChecksInv'
  BY <1>2, InvEnds DEF CheckerRaises, Doing, Outcomes
<1>. QED  BY <1>1, <1>2

---------------------------------------------------------------------------
(* A step that leaves the call as it is.                                   *)
LEMMA SameCall ==
  ASSUME UNCHANGED call, Still, EveryArgumentChecked, RefusedRightly
  PROVE  EveryArgumentChecked' /\ RefusedRightly'
<1>1. EveryArgumentChecked'
  BY SameArgument DEF EveryArgumentChecked
<1>2. RefusedRightly'
  BY SameArgument DEF RefusedRightly
<1>. QED  BY <1>1, <1>2

(* The program registers and unregisters, perhaps while a check is asked.  *)
LEMMA InvRegister ==
  ASSUME ChecksInv, NEW name \in Custom, RegisterType(name)
  PROVE  ChecksInv'
<1>1. checkers' \subseteq Custom /\ UNCHANGED call /\ Registered \subseteq Registered'
  <2>1. Registered \subseteq Custom
    BY DEF ChecksInv, Registered
  <2>2. checkers' = Registered \cup {name} /\ UNCHANGED call
    BY DEF RegisterType
  <2>3. checkers' \subseteq Custom
    BY <2>1, <2>2
  <2>4. checkers' # None
    BY <2>3, ChecksAssumption
  <2>. QED  BY <2>2, <2>3, <2>4 DEF Registered
<1>2. CASE call = None
  BY <1>1, <1>2 DEF ChecksInv
<1>3. CASE call # None
  <2>1. CallInv /\ Still /\ Shape
    BY <1>1, <1>3 DEF ChecksInv, CallInv, Shape, Still
  <2>2. Shape'
    BY <1>1, <2>1 DEF Shape
  <2>3. Passed => Passed'
    BY <2>1, PassedStill
  <2>4. AtAlternatives => AtAlternatives'
    BY <1>1, <2>1, SameArgument DEF AtAlternatives, Asked, NotYet, NotThis, Tried
  <2>5. CallInv'
    BY <1>1, <2>1, <2>2, <2>3, <2>4 DEF CallInv, Fresh, Trial
  <2>6. EveryArgumentChecked' /\ RefusedRightly'
    BY <1>1, <1>3, <2>1, SameCall DEF ChecksInv
  <2>. QED  BY <1>1, <2>5, <2>6 DEF ChecksInv
<1>. QED  BY <1>2, <1>3

LEMMA InvUnregister ==
  ASSUME ChecksInv, NEW name \in Custom, UnregisterType(name)
  PROVE  ChecksInv'
<1>1. /\ checkers # None /\ checkers' = checkers \ {name} /\ checkers' \subseteq Custom
      /\ Registered' = Registered \ {name}
  <2>1. checkers # None /\ checkers' = checkers \ {name} /\ checkers \subseteq Custom
    BY DEF ChecksInv, UnregisterType
  <2>2. checkers' \subseteq Custom
    BY <2>1
  <2>3. checkers' # None
    BY <2>2, ChecksAssumption
  <2>. QED  BY <2>1, <2>2, <2>3 DEF Registered
<1>2. CASE call = None
  BY <1>1, <1>2 DEF ChecksInv, UnregisterType
<1>3. CASE call # None
  <2>1. CallInv /\ Shape /\ call.step = "asking" /\ call.outcome = "none"
    BY <1>3 DEF ChecksInv, CallInv, Shape, UnregisterType, Outside, Doing
  <2>2. /\ Still /\ call'.alt = call.alt /\ call'.said = call.said
        /\ call'.kept = call.kept \ {name} /\ call'.step = "asking"
        /\ call'.outcome = "none"
    BY <1>3, <2>1 DEF UnregisterType, Still, Shape, Fields
  <2>3. call.what # "arg" => call'.kept \subseteq Registered'
    BY <1>1, <2>1, <2>2 DEF Shape, Registered
  <2>4. Shape'
    <3>1. /\ call'.descs \in Seq(Shapes) /\ call'.checked \in Seq(Accepted)
          /\ call'.first \in Nat \ {0} /\ call'.arg \in Nat \ {0} /\ call'.alt \in Nat \ {0}
          /\ call'.said \in Says /\ call'.kept \subseteq Custom /\ call'.frame \in Frames
      BY <2>1, <2>2 DEF Shape, Still
    <3>2. /\ call'.what \in {"types", "type", "option", "arg"} /\ call'.more \in {"no", "*", "+"}
          /\ call'.what # "arg" /\ (call'.what = "types" => call'.more # "no")
               => call'.rest \in Shapes
          /\ (call'.what = "arg" => call'.checked = <<>>)
          /\ call'.step \in Steps /\ call'.outcome \in Outcomes
      BY <2>1, <2>2 DEF Shape, Still, Steps, Outcomes
    <3>. QED  BY <2>2, <2>3, <3>1, <3>2 DEF Shape, Still
  <2>5. Passed => Passed'
    BY <2>2, PassedStill
  <2>6. AtAlternatives => AtAlternatives'
    <3>1. NotYet => NotYet'
      BY <2>2, SameArgument DEF NotYet
    <3>2. Tried' = Tried /\ (NotThis => NotThis') /\ (Asked => Asked')
      BY <2>2, SameArgument DEF NotThis, Tried, Asked, Still
    <3>. QED  BY <2>1, <2>2, <3>1, <3>2, SameArgument DEF AtAlternatives
  <2>7. CallInv'
    BY <2>1, <2>2, <2>4, <2>5, <2>6 DEF CallInv, Fresh, Trial, Still
  <2>8. EveryArgumentChecked' /\ RefusedRightly'
    BY <2>2 DEF EveryArgumentChecked, RefusedRightly
  <2>. QED  BY <1>1, <2>7, <2>8 DEF ChecksInv
<1>. QED  BY <1>2, <1>3

LEMMA InvReturn ==
  ASSUME ChecksInv, Return
  PROVE  ChecksInv'
BY DEF ChecksInv, Return

LEMMA InvSame ==
  ASSUME ChecksInv, UNCHANGED vars
  PROVE  ChecksInv'
<1>1. UNCHANGED call /\ UNCHANGED checkers
  BY DEF vars
<1>2. CASE call = None
  BY <1>1, <1>2 DEF ChecksInv
<1>3. CASE call # None
  <2>1. CallInv /\ Still /\ Shape
    BY <1>1, <1>3 DEF ChecksInv, CallInv, Shape, Still
  <2>2. Shape' /\ (Passed => Passed')
    BY <1>1, <2>1, PassedStill DEF Shape, Registered
  <2>3. AtAlternatives => AtAlternatives'
    BY <1>1, <2>1, SameArgument DEF AtAlternatives, Asked, NotYet, NotThis, Tried
  <2>4. CallInv'
    BY <1>1, <2>1, <2>2, <2>3 DEF CallInv, Fresh, Trial
  <2>5. EveryArgumentChecked' /\ RefusedRightly'
    BY <1>1, <1>3, <2>1, SameCall DEF ChecksInv
  <2>. QED  BY <1>1, <2>4, <2>5 DEF ChecksInv
<1>. QED  BY <1>2, <1>3

LEMMA ChecksInductive ==
  ASSUME ChecksInv, [Next]_vars
  PROVE  ChecksInv'
<1>1. CASE CheckTypes \/ CheckType \/ CheckOption
  BY <1>1, InvCheck
<1>2. CASE CheckArg \/ ArgError
  BY <1>2, InvAsks
<1>3. CASE Checking
  BY <1>3, InvNoMore, InvNothingAsked, InvLook, InvTryFast, InvTryOwn, InvNoneLeft,
     InvAnswered, InvReturn DEF Checking
<1>4. CASE Answers
  BY <1>4, InvCheckerSays, InvAnswered DEF Answers
<1>5. CASE \E name \in Custom : RegisterType(name) \/ UnregisterType(name)
  BY <1>5, InvRegister, InvUnregister
<1>6. CASE UNCHANGED vars
  BY <1>6, InvSame
<1>. QED  BY <1>1, <1>2, <1>3, <1>4, <1>5, <1>6 DEF Next

LEMMA ChecksInvariant == Spec => []ChecksInv
<1>1. Init => ChecksInv
  BY DEF Init, ChecksInv
<1>2. ChecksInv /\ [Next]_vars => ChecksInv'
  BY ChecksInductive
<1>. QED  BY <1>1, <1>2, PTL DEF Spec

---------------------------------------------------------------------------
(* check_types, check_type, check_option and check_arg always are where    *)
(* their type says, with the alternative tried inside the descriptor.      *)
THEOREM CallsWellFormed == Spec => []TypeOK
<1>1. ChecksInv => TypeOK
  BY InvImplies
<1>. QED  BY <1>1, ChecksInvariant, PTL

(* A call that ends well has accepted only values that met their           *)
(* descriptors, whatever checks are registered and whatever they do.       *)
THEOREM AcceptsMatching == Spec => []AcceptedMatch
<1>1. ChecksInv => AcceptedMatch
  BY InvImplies
<1>. QED  BY <1>1, ChecksInvariant, PTL

(* check_types that ends well has passed no argument over, for any number  *)
(* of parameters, varargs and descriptors.                                 *)
THEOREM NoneOverlooked == Spec => []EveryArgumentChecked
<1>1. ChecksInv => EveryArgumentChecked
  BY DEF ChecksInv, EveryArgumentChecked
<1>. QED  BY <1>1, ChecksInvariant, PTL

(* The argument an error blames, by its number, is one that no alternative *)
(* of its descriptor named, but for the two places type_match stops early. *)
THEOREM BlamesRightly == Spec => []RefusedRightly
<1>1. ChecksInv => RefusedRightly
  BY DEF ChecksInv, RefusedRightly
<1>. QED  BY <1>1, ChecksInvariant, PTL
=============================================================================
