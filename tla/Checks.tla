------------------------------- MODULE Checks -------------------------------
(***************************************************************************)
(* std.checks: a function has its arguments checked against descriptors,   *)
(* by check_types one after the other, or one by check_type, check_option  *)
(* or check_arg.  A descriptor's alternative may stand for a check the     *)
(* program registered; that check is the program's own code, called in the *)
(* middle, and may register and unregister others or raise.                *)
(*                                                                         *)
(* A value is [type, specific, text]: what lua_type and get_specific_type  *)
(* say of it, and a string's text.  A descriptor is [colon, opt, alts]: is *)
(* there a ":", is there a "?", and the alternatives between the bars.     *)
(***************************************************************************)
EXTENDS Integers, Sequences, FiniteSets, SequencesExt

CONSTANTS
  Descriptors,  \* what check_type and check_option are asked for
  Signatures,   \* what check_types is asked for: [descs, more, rest]
  Frames,       \* the calling functions: [locals, varargs, method]
  Places,       \* the argument positions asked for
  Custom,       \* the names checks are registered for
  None

Types  == {"nil", "boolean", "number", "string", "function", "thread", "table", "userdata",
           "lightuserdata"}
Values == [type : Types, specific : STRING, text : STRING]
Shapes == [colon : BOOLEAN, opt : BOOLEAN, alts : Seq(STRING)]

ASSUME ChecksAssumption ==
  /\ Descriptors \subseteq Shapes
  /\ \A s \in Signatures :
       /\ s \in [descs : Seq(Shapes), more : {"no", "*", "+"}, rest : Shapes \cup {None}]
       /\ s.more # "no" => s.rest \in Shapes
  /\ Frames \subseteq [locals : Seq(Values), varargs : Seq(Values), method : BOOLEAN]
  /\ \A f \in Frames : \A v \in ToSet(f.locals \o f.varargs) :
       v.type \in {"nil", "boolean", "string", "function", "thread"} => v.specific = v.type
  /\ Places \subseteq Nat \ {0} /\ Custom \subseteq STRING
  /\ \A names \in SUBSET Custom : names # None

VARIABLES
  checkers,  \* the registered names; None until the first is registered
  call       \* the call being made, None between two calls

vars == <<checkers, call>>

Init == checkers = None /\ call = None

Registered == IF checkers = None THEN {} ELSE checkers

(* The call is at argument arg, trying alternative alt; it ends with an    *)
(* outcome and the argument blamed.  As history: checked, what was         *)
(* accepted and by which registered checks; said, which of them said yes   *)
(* or no to this argument; kept, those no one has unregistered since the   *)
(* call began.                                                             *)
Begin(what, frame, descs, more, rest, arg) ==
  /\ call = None
  /\ call' = [what |-> what, frame |-> frame, descs |-> descs, more |-> more,
              rest |-> rest, first |-> arg, arg |-> arg, step |-> "next",
              alt |-> 1, outcome |-> "none", blamed |-> 0,
              checked |-> <<>>, said |-> {}, kept |-> Registered]
  /\ UNCHANGED checkers

CheckTypes ==
  \E f \in Frames, s \in Signatures : Begin("types", f, s.descs, s.more, s.rest, 1)

CheckType ==
  \E f \in Frames, d \in Descriptors, arg \in Places :
    Begin("type", f, [i \in 1 .. arg |-> d], "no", d, arg)

CheckOption ==
  \E f \in Frames, d \in Descriptors, arg \in Places :
    ~ d.colon /\ Begin("option", f, [i \in 1 .. arg |-> d], "no", d, arg)

Doing(step) == call # None /\ call.step = step

Ends(outcome) ==
  call' = [call EXCEPT !.step = "done", !.outcome = outcome] /\ UNCHANGED checkers

(* errorL_argerror: self is not counted.                                   *)
Number(arg, frame) == IF frame.method THEN arg - 1 ELSE arg

Blame(arg) ==
  /\ call' = [call EXCEPT !.step = "done", !.outcome = "bad_argument",
                !.blamed = Number(arg, call.frame)]
  /\ UNCHANGED checkers

---------------------------------------------------------------------------
(* The argument to look at: a local of the calling function while there    *)
(* are locals, then, for what the last descriptor matches, a vararg.       *)
Locals  == call.frame.locals
Given   == Locals \o call.frame.varargs
Eating  == call.arg > Len(call.descs)
Desc    == IF Eating THEN call.rest ELSE call.descs[call.arg]
Present == call.arg <= Len(IF Eating THEN Given ELSE Locals)
Value   == Given[call.arg]

(* check_type and check_option look at one argument.                       *)
Finished == call.what # "types" /\ call.arg > call.first

Options == Desc.colon \/ call.what = "option"

(* The descriptor has no character, or only the "*" or "+".                *)
Blank == Desc.alts = <<>> /\ ~ Desc.opt /\ ~ Desc.colon

(* The argument is accepted; the next one.                                 *)
Accept ==
  /\ call' = [call EXCEPT !.arg = @ + 1, !.step = "next",
                !.checked = Append(@, [value |-> Value, desc |-> Desc, said |-> call.said]),
                !.said = {}, !.alt = 1]
  /\ UNCHANGED checkers

(* Mutant: the arguments behind the last parameter are not looked at.      *)
NoMoreParametersOnly ==
  /\ Doing("next")
  /\ \/ Finished /\ Ends("ok")
     \/ ~ Finished /\ Eating /\ call.more = "no" /\ Ends("ok")
     \/ /\ Eating /\ call.more # "no" /\ ~ Blank /\ call.arg > Len(Locals)
        /\ IF call.more = "*" \/ call.arg > Len(call.descs) + 1
             THEN Ends("ok") ELSE Blame(call.arg)
     \/ /\ ~ Finished /\ ~ Eating /\ ~ Blank /\ ~ Present
        /\ IF call.what = "types" THEN Blame(call.arg) ELSE Ends("invalid_index")

NoMore ==
  /\ Doing("next")
  /\ \/ Finished /\ Ends("ok")
     \/ ~ Finished /\ Eating /\ call.more = "no" /\ Ends("ok")
     \/ /\ Eating /\ call.more # "no" /\ ~ Blank /\ ~ Present
        /\ IF call.more = "*" \/ call.arg > Len(call.descs) + 1
             THEN Ends("ok") ELSE Blame(call.arg)
     \/ /\ ~ Finished /\ ~ Eating /\ ~ Blank /\ ~ Present
        /\ IF call.what = "types" THEN Blame(call.arg) ELSE Ends("invalid_index")

Looking == Doing("next") /\ ~ Finished /\ (Eating => call.more # "no")

NothingAsked == Looking /\ Blank /\ Ends("empty_descriptor")

(* type_check_one up to the alternatives, and options_check_one.  To have  *)
(* no alternative is an error to check_type and check_option; check_types  *)
(* does not look at what it is told and goes on.                           *)
Look ==
  /\ Looking /\ ~ Blank /\ Present
  /\ IF Desc.opt /\ Value.type = "nil" THEN Accept
     ELSE IF Desc.alts = <<>>
       THEN IF call.what = "types" THEN Accept ELSE Ends("invalid_descriptor")
     ELSE IF ~ Options
       THEN call' = [call EXCEPT !.step = "match"] /\ UNCHANGED checkers
     ELSE IF Value.type = "string" /\ Value.text \in ToSet(Desc.alts) THEN Accept
     ELSE Blame(call.arg)

---------------------------------------------------------------------------
(* The alternatives of a type, type_match.                                 *)
Basic == {"boolean", "string", "function", "thread"}

FastMatches(v, name) ==
  \/ name = "any" /\ v.type # "nil"
  \/ name = v.type /\ v.type \in Basic \cup {"number", "userdata"}
  \/ name = "userdata" /\ v.type = "lightuserdata"

(* Mutant: the first alternative decides for userdata too.                 *)
FastRefusesMore(v, name) == v.type \in Basic \cup {"userdata"} /\ ~ FastMatches(v, name)

FastRefuses(v, name) == v.type \in Basic /\ ~ FastMatches(v, name)

IsFileAsked(v, name) == v.type = "userdata" /\ name = "file"

Named(v, name) ==
  name = v.specific \/ (IsFileAsked(v, name) /\ v.specific = "FILE*")

(* Mutant: the end of the alternative is not stepped over.                 *)
NextAlternativeSame == call' = call /\ UNCHANGED checkers

(* Mutant: the alternative behind the next bar is passed over as well.     *)
NextAlternativeSkips == call' = [call EXCEPT !.alt = @ + 2] /\ UNCHANGED checkers

NextAlternative == call' = [call EXCEPT !.alt = @ + 1] /\ UNCHANGED checkers

Tried == Desc.alts[call.alt]

Trying == Doing("match") /\ call.alt <= Len(Desc.alts)

TryFast ==
  /\ Trying
  /\ \/ FastMatches(Value, Tried) /\ Accept
     \/ FastRefuses(Value, Tried) /\ Blame(call.arg)

(* Mutant: that there is a check for the name is enough.                   *)
TryOwnUnasked ==
  /\ Trying /\ ~ FastMatches(Value, Tried) /\ ~ FastRefuses(Value, Tried)
  /\ IF Named(Value, Tried) \/ Tried \in Registered THEN Accept ELSE NextAlternative

TryOwn ==
  /\ Trying /\ ~ FastMatches(Value, Tried) /\ ~ FastRefuses(Value, Tried)
  /\ IF Named(Value, Tried) THEN Accept
     ELSE IF ~ IsFileAsked(Value, Tried) /\ Tried \in Registered
       THEN call' = [call EXCEPT !.step = "asking"] /\ UNCHANGED checkers
     ELSE NextAlternative

NoneLeft == Doing("match") /\ call.alt > Len(Desc.alts) /\ Blame(call.arg)

---------------------------------------------------------------------------
(* check_arg: the condition given, or what the function given says of the  *)
(* argument.                                                               *)
Asks(f, arg, step, outcome) ==
  /\ call = None
  /\ call' = [what |-> "arg", frame |-> f, descs |-> <<>>, more |-> "no", rest |-> None,
              first |-> arg, arg |-> arg, step |-> step, alt |-> 1,
              outcome |-> outcome, checked |-> <<>>, said |-> {}, kept |-> {},
              blamed |-> IF outcome = "bad_argument" THEN Number(arg, f) ELSE 0]
  /\ UNCHANGED checkers

CheckArg ==
  \E f \in Frames, arg \in Places :
    \/ \E cond \in {"ok", "bad_argument"} : Asks(f, arg, "done", cond)
    \/ arg <= Len(f.locals) /\ Asks(f, arg, "asking", "none")
    \/ arg > Len(f.locals) /\ Asks(f, arg, "done", "invalid_index")

ArgError ==
  \E f \in Frames, arg \in Places : Asks(f, arg, "done", "bad_argument")

(* The program's function answers, or raises.                              *)
CheckerSays(yes) ==
  /\ Doing("asking")
  /\ IF call.what = "arg" THEN IF yes THEN Ends("ok") ELSE Blame(call.arg)
     ELSE /\ call' = [call EXCEPT !.said = @ \cup {<<Tried, yes>>},
                       !.step = IF yes THEN "said" ELSE "match",
                       !.alt = IF yes THEN @ ELSE @ + 1]
          /\ UNCHANGED checkers

CheckerSaid == Doing("said") /\ Accept

CheckerRaises == Doing("asking") /\ Ends("raised")

Return == Doing("done") /\ call' = None /\ UNCHANGED checkers

(* The program, between two calls or in a check of its own.                *)
Outside == call = None \/ Doing("asking")

RegisterType(name) ==
  Outside /\ checkers' = Registered \cup {name} /\ UNCHANGED call

UnregisterType(name) ==
  /\ Outside /\ checkers # None
  /\ checkers' = checkers \ {name}
  /\ call' = IF call = None THEN None ELSE [call EXCEPT !.kept = @ \ {name}]

Checking ==
  NoMore \/ NothingAsked \/ Look \/ TryFast \/ TryOwn \/ NoneLeft \/ CheckerSaid \/ Return

Answers == CheckerRaises \/ \E yes \in BOOLEAN : CheckerSays(yes)

Next ==
  \/ CheckTypes \/ CheckType \/ CheckOption \/ CheckArg \/ ArgError
  \/ Checking \/ Answers
  \/ \E name \in Custom : RegisterType(name) \/ UnregisterType(name)

(* A call runs to its end, and so does a check of the program's.           *)
Fairness == WF_vars(Checking) /\ WF_vars(Answers)

Spec == Init /\ [][Next]_vars /\ Fairness

---------------------------------------------------------------------------
(* A call and the registered checks are of these kinds.                    *)
TypeOK ==
  /\ checkers = None \/ checkers \subseteq Custom
  /\ call = None \/
       /\ call.what \in {"types", "type", "option", "arg"} /\ call.frame \in Frames
       /\ call.more \in {"no", "*", "+"} /\ call.arg >= 1
       /\ call.step \in {"next", "match", "asking", "said", "done"}
       /\ call.outcome \in {"none", "ok", "bad_argument", "invalid_index", "raised",
                            "empty_descriptor", "invalid_descriptor"}
       /\ (call.outcome # "none") <=> (call.step = "done")
       /\ call.said \subseteq Custom \X BOOLEAN /\ call.kept \subseteq Custom
       /\ call.step \in {"match", "said"} => Present /\ call.what # "arg"
       /\ call.step = "match" => call.alt \in 1 .. Len(Desc.alts) + 1

(* What checks.c's documentation says an alternative is: the name of a     *)
(* primitive type, any, file, integer or float, or what a __type or a      *)
(* __name says.                                                            *)
IsA(v, name) ==
  \/ name = "any" /\ v.type # "nil"
  \/ name = v.specific \/ (name = v.type /\ name # "lightuserdata")
  \/ name = "userdata" /\ v.type = "lightuserdata"
  \/ name = "file" /\ v.type = "userdata" /\ v.specific = "FILE*"

(* A value is what the descriptor asks for when one alternative says so, or *)
(* a registered check did; none is needed for a descriptor that asks       *)
(* nothing, which check_types does not mind.                               *)
MeetsOneOf(v, d, options, said, names) ==
  \/ d.alts = <<>>
  \/ d.opt /\ v.type = "nil"
  \/ options /\ v.type = "string" /\ v.text \in ToSet(d.alts)
  \/ ~ options /\ \E name \in names : IsA(v, name) \/ <<name, TRUE>> \in said

Meets(v, d, options, said) == MeetsOneOf(v, d, options, said, ToSet(d.alts))

(* A call ends well only when everything it accepted met its descriptor,   *)
(* whatever was registered and unregistered on the way.                    *)
AcceptedMatch ==
  call # None /\ call.outcome = "ok" =>
    \A c \in ToSet(call.checked) :
      Meets(c.value, c.desc, c.desc.colon \/ call.what = "option", c.said)

(* check_types that ends well has looked at every argument it has a        *)
(* descriptor for, each with its own and in order, and with a "*" or a "+" *)
(* at every one the function was given, parameters and varargs.            *)
EveryArgumentChecked ==
  call # None /\ call.what = "types" /\ call.outcome = "ok" =>
    /\ Len(call.checked) = IF call.more = "no" THEN Len(call.descs) ELSE Len(Given)
    /\ call.more = "+" => Len(call.checked) > Len(call.descs)
    /\ \A i \in 1 .. Len(call.checked) :
         /\ call.checked[i].value = Given[i]
         /\ call.checked[i].desc =
              IF i <= Len(call.descs) THEN call.descs[i] ELSE call.rest

(* The alternatives of a type that count: of a boolean, a string, a        *)
(* function or a thread, the first one alone (see EveryAlternativeCounts); *)
(* and "table" does not count for a table whose __type says another name.  *)
Counted(v, d) ==
  {name \in ToSet(d.alts) :
     /\ v.type \in Basic => name = d.alts[1]
     /\ v.type = "table" /\ name = "table" => v.specific = "table"}

(* An argument is blamed under its own number, when everything before it   *)
(* was accepted and it is not there, or is none of the options, or is      *)
(* nothing that an alternative that counts names; and a check for one of   *)
(* the names, registered before the call and left alone since, was asked   *)
(* and said no, unless the first alternative decided.                      *)
RefusedRightly ==
  call # None /\ call.what # "arg" /\ call.outcome = "bad_argument" =>
    /\ call.blamed = (IF call.frame.method THEN call.arg - 1 ELSE call.arg)
    /\ Len(call.checked) = call.arg - call.first
    /\ Present =>
         /\ ~ MeetsOneOf(Value, Desc, Options, call.said, Counted(Value, Desc))
         /\ ~ Options /\ Value.type \notin Basic =>
              \A name \in ToSet(Desc.alts) \cap call.kept :
                ~ IsFileAsked(Value, name) => <<name, FALSE>> \in call.said

(* A call ends, whatever the checks it asks register and unregister.       *)
CallsEnd == call # None ~> call = None

(* checks.c:417: multiple values can be accepted, concatenated with a bar. *)
EveryAlternativeCounts ==
  call # None /\ call.outcome = "bad_argument" /\ call.what # "arg" /\ Present =>
    ~ Meets(Value, Desc, Options, call.said)
=============================================================================
