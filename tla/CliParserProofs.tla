-------------------------- MODULE CliParserProofs --------------------------
(***************************************************************************)
(* Theorems about CliParser: for every application and every command line. *)
(***************************************************************************)
EXTENDS CliParser, FiniteSetTheorems, SequenceTheorems, TLAPS

---------------------------------------------------------------------------
(* The operators the actions are built from.                               *)

(* array.find returns an element of the array, or nil.                     *)
LEMMA FirstOfType ==
  ASSUME NEW T, NEW seq \in Seq(T), NEW hits \in SUBSET DOMAIN seq
  PROVE  FirstOf(seq, hits) \in T \cup {Nil}
BY DEF FirstOf

LEMMA FlagType ==
  ASSUME NEW f \in Flags
  PROVE  /\ flag[f] \in FlagTable
         /\ flag[f].requires_arg \in BOOLEAN
         /\ flag[f].min_count \in Nat
         /\ flag[f].max_count \in Nat \cup {Unbound}
         /\ flag[f].default \in Values \cup {Nil}
         /\ flag[f].accepts \in SUBSET Values
BY AppAssumption DEF FlagTable

LEMMA ArgsType ==
  ASSUME TypeOK
  PROVE  args \in Seq(Tokens) /\ Len(args) \in Nat /\ Positions = DOMAIN args
<1>1. args \in Seq(Tokens)
  BY DEF TypeOK
<1>2. QED
  BY <1>1 DEF Positions

LEMMA TokenType ==
  ASSUME TypeOK, NEW p \in Positions \cup {Message}
  PROVE  Token(p).val \in Values /\ Text(p) \in Values
<1>1. args \in Seq(Tokens) /\ Positions = DOMAIN args
  BY ArgsType
<1>2. \A i \in Positions : args[i].val \in Values
  <2>1. \A i \in Positions : args[i] \in Tokens
    BY <1>1
  <2>2. \A t \in Tokens : t.val \in Values
    BY DEF Tokens
  <2>3. QED
    BY <2>1, <2>2
<1>3. MessageText \in Values /\ OptionText \in Values
  BY ValueAssumption
<1>4. Token(p).val \in Values
  BY <1>2, <1>3 DEF Token
<1>5. QED
  BY <1>3, <1>4 DEF Text

LEMMA LexedType ==
  ASSUME NEW tok, tok.val \in Values
  PROVE  Lexed(tok).value \in Values \cup {Nil}
BY DEF Lexed

LEMMA NextType ==
  ASSUME TypeOK, NEW i \in 0 .. Len(args)
  PROVE  /\ NextArg(i) \in Positions \cup {Done}
         /\ NextRead(i) \in 0 .. Len(args)
         /\ NextArg(i) # Done => NextRead(i) \in Positions
<1>1. Len(args) \in Nat
  BY ArgsType
<1>2. QED
  BY <1>1 DEF Positions, NextArg, NextRead, Done

LEMMA FoundType ==
  ASSUME TypeOK, NEW name
  PROVE  FindByName(name) \in Options \cup {Nil}
<1>1. options[cmd] \in Seq(Options) /\ global_options \in Seq(Options)
  BY AppAssumption DEF TypeOK
<1>2. options[cmd] \o global_options \in Seq(Options)
  BY <1>1
<1>3. \A seq \in Seq(Options) : FindOption(seq, name) \in Options \cup {Nil}
  BY FirstOfType DEF FindOption
<1>4. QED
  BY <1>2, <1>3 DEF FindByName

LEMMA MarkedType ==
  ASSUME TypeOK, NEW p \in Positions \cup {Message}, NEW role \in Roles,
         NEW f \in Flags \cup {Nil}
  PROVE  Marked(p, role, f) \in [Positions -> [role : Roles, flag : Flags \cup {Nil}]]
BY DEF TypeOK, Marked

(* apply keeps the context well-typed, whatever the callbacks do.           *)
LEMMA FieldType ==
  ASSUME NEW f \in Flags
  PROVE  Field(f) \in Fields
BY DEF Fields

LEMMA StoreType ==
  ASSUME NEW type \in ReaderTypes, NEW old \in CtxValues, NEW v \in Values
  PROVE  Store(type, old, v) \in CtxValues
<1>1. FirstValue(type, v) \in CtxValues
  BY DEF FirstValue, CtxValues, Items, Scalar, Table, ReaderTypes
<1>2. v \in Items /\ old.items \in Seq(Items) /\ old.keyed \in SUBSET Values
  BY DEF Items, CtxValues
<1>3. SetKey(old.keyed, v) \in SUBSET Values
  BY <1>2 DEF SetKey
<1>4. \A s \in Seq(Items), k \in SUBSET Values : Table(s, k) \in CtxValues
  BY DEF Table, CtxValues
<1>5. Append(old.items, v) \in Seq(Items)
  BY <1>2
<1>6. QED
  BY <1>1, <1>2, <1>3, <1>4, <1>5 DEF Store

(* What the callbacks of a flag leave behind is a context.                 *)
LEMMA AfterType ==
  ASSUME TypeOK, NEW f \in Flags, NEW c \in After(f)
  PROVE  c \in [Fields -> CtxValues]
<1>1. ctx \in [Fields -> CtxValues]
  BY DEF TypeOK
<1>2. CASE c = ctx
  BY <1>1, <1>2
<1>3. CASE c # ctx
  <2>1. PICK w \in writes[f] : c = Written(w)
    BY <1>3 DEF After
  <2>2. DOMAIN w \subseteq Fields /\ \A x \in DOMAIN w : w[x] \in CtxValues
    BY <2>1, WritesAssumption
  <2>3. \A x \in Fields : (IF x \in DOMAIN w THEN w[x] ELSE ctx[x]) \in CtxValues
    BY <1>1, <2>2
  <2>4. QED
    BY <2>1, <2>3 DEF Written
<1>4. QED
  BY <1>2, <1>3

LEMMA ValueType ==
  ASSUME NEW f \in Flags, NEW text \in Values \cup {Nil}, Readable(f, text)
  PROVE  Value(f, text) \in Values
BY FlagType, ValueAssumption DEF Readable, Value

(* The outcomes of apply, by the error returned.                           *)
LEMMA OutcomeIs ==
  ASSUME NEW f, NEW text, NEW out \in Outcomes(f, text)
  PROVE  \/ ~Readable(f, text) /\ out = Outcome("invalid value", ctx)
         \/ /\ Readable(f, text)
            /\ \E c \in After(f) :
                 \/ out = Applied(f, text, c)
                 \/ HasCallback(f) /\ out \in {Outcome("callback", c), Outcome("raised", c)}
<1>1. CASE ~Readable(f, text)
  <2>1. out \in {Outcome("invalid value", ctx)}
    BY <1>1, Zenon DEF Outcomes
  <2>2. QED
    BY <1>1, <2>1
<1>2. CASE Readable(f, text)
  <2>1. PICK c \in After(f) : out \in {Applied(f, text, c)} \cup {Outcome(e, c) : e \in Errors(f)}
    BY <1>2 DEF Outcomes
  <2>2. QED
    BY <1>2, <2>1 DEF Errors
<1>3. QED
  BY <1>1, <1>2

LEMMA OutcomeType ==
  ASSUME TypeOK, NEW f \in Flags, NEW text \in Values \cup {Nil},
         NEW out \in Outcomes(f, text)
  PROVE  /\ out.ctx \in [Fields -> CtxValues]
         /\ out.err \in {"none", "invalid value", "callback", "raised"}
<1> DEFINE Errs == {"none", "invalid value", "callback", "raised"}
<1>1. ctx \in [Fields -> CtxValues]
  BY DEF TypeOK
<1>2. \A e \in Errs, c \in [Fields -> CtxValues] :
        /\ Outcome(e, c).ctx \in [Fields -> CtxValues]
        /\ Outcome(e, c).err \in Errs
  BY DEF Outcome
<1>3. ASSUME Readable(f, text), NEW c \in [Fields -> CtxValues]
      PROVE  Stored(f, text, c) \in [Fields -> CtxValues]
  <2>1. Store(flag[f].type, c[Field(f)], Value(f, text)) \in CtxValues
    BY <1>3, ValueType, StoreType, FieldType, AppAssumption DEF FlagTable
  <2>2. QED
    BY <1>3, <2>1, FieldType DEF Stored
<1>4. ASSUME Readable(f, text), NEW c \in [Fields -> CtxValues]
      PROVE  \E e \in Errs, d \in [Fields -> CtxValues] : Applied(f, text, c) = Outcome(e, d)
  BY <1>3, <1>4 DEF Applied
<1>5. \E e \in Errs, d \in [Fields -> CtxValues] : out = Outcome(e, d)
  <2>1. CASE ~Readable(f, text)
    <3>1. out = Outcome("invalid value", ctx)
      BY <2>1, OutcomeIs
    <3>2. QED
      BY <1>1, <3>1
  <2>2. CASE Readable(f, text)
    <3>1. PICK c \in After(f) :
            \/ out = Applied(f, text, c)
            \/ HasCallback(f) /\ out \in {Outcome("callback", c), Outcome("raised", c)}
      BY <2>2, OutcomeIs, Zenon
    <3>2. c \in [Fields -> CtxValues]
      BY AfterType
    <3>3. QED
      BY <1>4, <2>2, <3>1, <3>2
  <2>3. QED
    BY <2>1, <2>2
<1>6. QED
  BY <1>2, <1>5

LEMMA ApplyOptionIs == ApplyOption <=> OptionAccepted /\ ApplyTo(Found)
BY DEF ApplyOption

LEMMA CountedType ==
  ASSUME TypeOK, NEW f \in Flags
  PROVE  Counted(f) \in [Flags -> Nat]
<1>1. occurrences \in [Flags -> Nat]
  BY DEF TypeOK
<1>2. [occurrences EXCEPT ![f] = @ + 1] \in [Flags -> Nat]
  BY <1>1
<1>3. QED
  BY <1>1, <1>2 DEF Counted

---------------------------------------------------------------------------
(* Type correctness.                                                       *)

LEMMA InitTypeOK == Init => TypeOK
<1> SUFFICES ASSUME Init PROVE TypeOK
  OBVIOUS
<1>1. args \in Seq(Tokens)
  BY ArgsAssumption DEF Init
<1>2. Len(args) \in Nat
  BY <1>1
<1>3. ctx \in [Fields -> CtxValues]
  BY DEF Init, Absent, CtxValues
<1>4. fate \in [Positions -> [role : Roles, flag : Flags \cup {Nil}]]
  BY DEF Init, Positions, Roles
<1>5. QED
  BY <1>1, <1>2, <1>3, <1>4, AppAssumption DEF Init, TypeOK, Done

(* The steps of the loops that hand tokens out.                            *)
LEMMA ReadingTypeOK ==
  ASSUME TypeOK, Visit \/ EndOfArgs \/ Separator \/ Eat \/ StartEating
  PROVE  TypeOK'
<1>1. /\ NextArg(arg_index) \in Positions \cup {Done}
      /\ NextRead(arg_index) \in 0 .. Len(args)
  BY NextType DEF TypeOK
<1>2. arg # Done => arg \in Positions \cup {Message}
  BY DEF TypeOK
<1>3. arg # Done => \A role \in Roles :
        Marked(arg, role, Nil) \in [Positions -> [role : Roles, flag : Flags \cup {Nil}]]
  BY <1>2, MarkedType
<1>4. CASE Visit
  <2> cmd \in Commands /\ global_options \in Seq(Options)
    BY DEF TypeOK
  <2> globals[cmd] \in Seq(Options) /\ arguments[cmd] \in Seq(Arguments)
    BY AppAssumption
  <2>1. global_options \o globals[cmd] \in Seq(Options)
    OBVIOUS
  <2>2. <<>> \in Seq(Positions \cup {Message})
    OBVIOUS
  <2>3. QED
    BY <1>1, <1>4, <2>1, <2>2 DEF TypeOK, Visit, Positions
<1>5. CASE EndOfArgs
  <2>1. phase' \in {"visit", "loop", "eat", "arguments", "check", "done"}
    BY <1>5 DEF EndOfArgs
  <2>2. next' \in Nat \ {0}
    BY <1>5 DEF EndOfArgs
  <2>3. UNCHANGED <<args, arg_index, cmd, global_options, local_arguments,
                    positional, occurrences, ctx, unparsed, arg, err, fate>>
    BY <1>5 DEF EndOfArgs
  <2>4. QED
    BY <2>1, <2>2, <2>3 DEF TypeOK, Positions
<1>6. CASE Separator
  <2>1. fate' \in [Positions -> [role : Roles, flag : Flags \cup {Nil}]]
    BY <1>3, <1>6 DEF Separator, InLoop, Roles
  <2>2. QED
    BY <1>1, <1>6, <2>1 DEF TypeOK, Separator, Positions
<1>7. CASE Eat
  <2>1. positional' \in Seq(Positions \cup {Message})
    <3>1. positional \in Seq(Positions \cup {Message})
      BY DEF TypeOK
    <3>2. Append(positional, arg) \in Seq(Positions \cup {Message})
      BY <1>2, <1>7, <3>1 DEF Eat
    <3>3. QED
      BY <1>7, <3>1, <3>2 DEF Eat
  <2>2. fate' \in [Positions -> [role : Roles, flag : Flags \cup {Nil}]]
    BY <1>3, <1>7 DEF TypeOK, Eat, Roles
  <2>3. QED
    BY <1>1, <1>7, <2>1, <2>2 DEF TypeOK, Eat, Positions
<1>8. CASE StartEating
  BY <1>8 DEF TypeOK, StartEating, Positions
<1>9. QED
  BY <1>4, <1>5, <1>6, <1>7, <1>8

LEMMA FailType ==
  ASSUME NEW e, Fail(e),
         e \in {"unknown option", "invalid argument", "missing value", "invalid value",
                "callback", "raised", "unknown command", "missing required"}
  PROVE  /\ phase' \in {"visit", "loop", "eat", "arguments", "check", "done"}
         /\ err' \in {"none", "unknown option", "invalid argument", "missing value",
                     "invalid value", "callback", "raised", "unknown command", "missing required"}
BY DEF Fail

(* The ways handle_option ends.                                            *)
LEMMA OptionTypeOK ==
  ASSUME TypeOK, RejectOption \/ AppearedTooManyTimes \/ MissingValue \/ ApplyOption
  PROVE  TypeOK'
<1> DEFINE FateType == [Positions -> [role : Roles, flag : Flags \cup {Nil}]]
<1>1. arg \in Positions \cup {Message} /\ arg_index \in 0 .. Len(args)
  BY ApplyOptionIs DEF TypeOK, RejectOption, AppearedTooManyTimes, MissingValue, ApplyTo,
         OptionAccepted, AtOption, InLoop
<1>2. Found \in Options \cup {Nil}
  BY FoundType DEF Found
<1>3. Sought.value \in Values \cup {Nil}
  BY <1>1, TokenType, LexedType DEF Sought
<1>4. Found # Nil => Found \in Flags
  BY <1>2 DEF Flags
<1>5. Found # Nil => \A role \in {"option", "refused"} : Marked(arg, role, Found) \in FateType
  BY <1>1, <1>4, MarkedType DEF Roles
<1>6. CASE RejectOption
  <2>1. PICK e \in {"unknown option", "invalid argument"} : Fail(e)
    BY <1>6 DEF RejectOption
  <2>2. UNCHANGED <<args, arg_index, cmd, global_options, local_arguments,
                    positional, occurrences, ctx, unparsed, arg, next, fate>>
    BY <1>6 DEF RejectOption
  <2>3. QED
    BY <2>1, <2>2, FailType DEF TypeOK, Positions
<1>7. CASE AppearedTooManyTimes
  <2>1. fate' \in FateType /\ arg' = Message
    BY <1>5, <1>7 DEF AppearedTooManyTimes, OptionAccepted
  <2>2. UNCHANGED <<args, arg_index, cmd, global_options, local_arguments,
                    positional, occurrences, ctx, unparsed, phase, next, err>>
    BY <1>7 DEF AppearedTooManyTimes
  <2>3. QED
    BY <2>1, <2>2 DEF TypeOK, Positions
<1>8. CASE MissingValue
  <2>1. fate' \in FateType
    BY <1>5, <1>8 DEF MissingValue, OptionAccepted
  <2>2. occurrences' \in [Flags -> Nat]
    BY <1>4, <1>8, CountedType DEF MissingValue, OptionAccepted
  <2>3. Fail("missing value")
    BY <1>8 DEF MissingValue
  <2>4. UNCHANGED <<args, arg_index, cmd, global_options, local_arguments,
                    positional, ctx, unparsed, arg, next>>
    BY <1>8 DEF MissingValue
  <2>5. QED
    BY <2>1, <2>2, <2>3, <2>4, FailType DEF TypeOK, Positions
<1>9. CASE ApplyOption
  <2> DEFINE i    == IF TakesNextToken(Found) THEN NextRead(arg_index) ELSE arg_index
             text == IF TakesNextToken(Found) THEN Text(NextArg(arg_index)) ELSE Sought.value
  <2>1. Found \in Flags
    BY <1>4, <1>9, ApplyOptionIs DEF ApplyTo, OptionAccepted
  <2>2. i \in 0 .. Len(args) /\ (TakesNextToken(Found) => i \in Positions)
    BY <1>1, <1>9, NextType, ApplyOptionIs DEF ApplyTo
  <2>3. text \in Values \cup {Nil}
    <3>1. CASE TakesNextToken(Found)
      <4>1. NextArg(arg_index) \in Positions
        BY <1>1, <1>9, <3>1, NextType, ApplyOptionIs DEF ApplyTo
      <4>2. QED
        BY <3>1, <4>1, TokenType
    <3>2. CASE ~TakesNextToken(Found)
      BY <1>3, <3>2
    <3>3. QED
      BY <3>1, <3>2
  <2>4. occurrences' \in [Flags -> Nat]
    BY <1>9, <2>1, CountedType, ApplyOptionIs DEF ApplyTo
  <2>5. fate' \in FateType
    <3>1. Marked(arg, "option", Found) \in FateType
      BY <1>5, <1>9, ApplyOptionIs DEF ApplyTo, OptionAccepted
    <3>2. [role |-> "value", flag |-> Found] \in [role : Roles, flag : Flags \cup {Nil}]
      BY <2>1 DEF Roles
    <3>3. fate' = IF TakesNextToken(Found)
                    THEN [Marked(arg, "option", Found) EXCEPT
                            ![i] = [role |-> "value", flag |-> Found]]
                    ELSE Marked(arg, "option", Found)
      BY <1>9, ApplyOptionIs DEF ApplyTo
    <3>4. QED
      BY <3>1, <3>2, <3>3
  <2>6. PICK out \in Outcomes(Found, text) :
          /\ ctx' = out.ctx
          /\ IF out.err # "none"
               THEN Fail(out.err) /\ arg_index' = i /\ UNCHANGED arg
               ELSE /\ arg' = NextArg(i)
                    /\ arg_index' = NextRead(i)
                    /\ UNCHANGED <<phase, err>>
    BY <1>9, ApplyOptionIs DEF ApplyTo
  <2>7. /\ out.ctx \in [Fields -> CtxValues]
        /\ out.err \in {"none", "invalid value", "callback", "raised"}
    BY <2>1, <2>3, OutcomeType
  <2>8. /\ arg_index' \in 0 .. Len(args)
        /\ arg' \in Positions \cup {Done, Message}
        /\ phase' \in {"visit", "loop", "eat", "arguments", "check", "done"}
        /\ err' \in {"none", "unknown option", "invalid argument", "missing value",
                     "invalid value", "callback", "raised", "unknown command", "missing required"}
    <3>1. CASE out.err # "none"
      BY <1>1, <2>2, <2>6, <2>7, <3>1, FailType
    <3>2. CASE out.err = "none"
      <4>1. NextArg(i) \in Positions \cup {Done} /\ NextRead(i) \in 0 .. Len(args)
        BY <2>2, NextType
      <4>2. QED
        BY <2>6, <3>2, <4>1 DEF TypeOK
    <3>3. QED
      BY <3>1, <3>2
  <2>9. UNCHANGED <<args, cmd, global_options, local_arguments, positional, unparsed, next>>
    BY <1>9, ApplyOptionIs DEF ApplyTo
  <2>10. QED
    BY <2>4, <2>5, <2>6, <2>7, <2>8, <2>9 DEF TypeOK, Positions
<1>10. QED
  BY <1>6, <1>7, <1>8, <1>9

(* A word that selects a command, or none that there is.                   *)
LEMMA CommandTypeOK ==
  ASSUME TypeOK, EnterCommand \/ UnknownCommand
  PROVE  TypeOK'
<1>1. CASE EnterCommand
  <2>1. arg \in Positions \cup {Message}
    BY <1>1 DEF TypeOK, EnterCommand, AtWord, InLoop
  <2>2. fate' \in [Positions -> [role : Roles, flag : Flags \cup {Nil}]]
    BY <1>1, <2>1, MarkedType DEF EnterCommand, Roles
  <2>3. cmd' \in Commands
    <3>1. commands[cmd] \in Seq(Commands)
      BY AppAssumption DEF TypeOK
    <3>2. FindCommand(Token(arg).name) \in Commands \cup {Nil}
      BY <3>1, FirstOfType DEF FindCommand
    <3>3. QED
      BY <1>1, <3>2 DEF EnterCommand
  <2>4. phase' = "visit"
    BY <1>1 DEF EnterCommand
  <2>5. UNCHANGED <<args, arg_index, global_options, local_arguments, positional,
                    occurrences, ctx, unparsed, arg, next, err>>
    BY <1>1 DEF EnterCommand
  <2>6. QED
    BY <2>2, <2>3, <2>4, <2>5 DEF TypeOK, Positions
<1>2. CASE UnknownCommand
  <2>1. Fail("unknown command")
    BY <1>2 DEF UnknownCommand
  <2>2. UNCHANGED <<args, arg_index, cmd, global_options, local_arguments,
                    positional, occurrences, ctx, unparsed, arg, next, fate>>
    BY <1>2 DEF UnknownCommand
  <2>3. QED
    BY <2>1, <2>2, FailType DEF TypeOK, Positions
<1>3. QED
  BY <1>1, <1>2

(* The loop over the positional tokens.                                    *)
LEMMA ArgumentTypeOK ==
  ASSUME TypeOK, HandleArgument \/ LeaveUnparsed \/ EndOfArguments
  PROVE  TypeOK'
<1>1. local_arguments \in Seq(Arguments) /\ next \in Nat \ {0}
  BY DEF TypeOK
<1>2. AtArgument => positional[next] \in Positions \cup {Message}
  <2>1. positional \in Seq(Positions \cup {Message})
    BY DEF TypeOK
  <2>2. QED
    BY <2>1 DEF AtArgument
<1>3. CASE HandleArgument
  <2> DEFINE a == Head(local_arguments)
             p == positional[next]
  <2>1. a \in Arguments /\ a \in Flags /\ Tail(local_arguments) \in Seq(Arguments)
    BY <1>1, <1>3 DEF HandleArgument, Flags
  <2>2. p \in Positions \cup {Message}
    BY <1>2, <1>3 DEF HandleArgument
  <2>3. occurrences' \in [Flags -> Nat]
    BY <1>3, <2>1, CountedType DEF HandleArgument
  <2>4. local_arguments' \in Seq(Arguments)
    BY <1>1, <1>3, <2>1 DEF HandleArgument
  <2>5. fate' \in [Positions -> [role : Roles, flag : Flags \cup {Nil}]]
    BY <1>3, <2>1, <2>2, MarkedType DEF HandleArgument, Roles
  <2>6. PICK out \in Outcomes(a, Text(p)) :
          /\ ctx' = out.ctx
          /\ IF out.err # "none"
               THEN Fail(out.err) /\ UNCHANGED next
               ELSE next' = next + 1 /\ UNCHANGED <<phase, err>>
    BY <1>3 DEF HandleArgument
  <2>7. /\ out.ctx \in [Fields -> CtxValues]
        /\ out.err \in {"none", "invalid value", "callback", "raised"}
    <3>1. Text(p) \in Values \cup {Nil}
      BY <2>2, TokenType
    <3>2. QED
      BY <2>1, <3>1, OutcomeType
  <2>8. /\ next' \in Nat \ {0}
        /\ phase' \in {"visit", "loop", "eat", "arguments", "check", "done"}
        /\ err' \in {"none", "unknown option", "invalid argument", "missing value",
                     "invalid value", "callback", "raised", "unknown command", "missing required"}
    <3>1. CASE out.err # "none"
      BY <1>1, <2>6, <2>7, <3>1, FailType
    <3>2. CASE out.err = "none"
      <4>1. next' = next + 1 /\ phase' = phase /\ err' = err
        BY <2>6, <3>2
      <4>2. next' \in Nat \ {0}
        BY <1>1, <4>1
      <4>3. QED
        BY <4>1, <4>2 DEF TypeOK
    <3>3. QED
      BY <3>1, <3>2
  <2>9. UNCHANGED <<args, arg_index, cmd, global_options, positional, unparsed, arg>>
    BY <1>3 DEF HandleArgument
  <2>10. QED
    BY <2>3, <2>4, <2>5, <2>6, <2>7, <2>8, <2>9 DEF TypeOK, Positions
<1>4. CASE LeaveUnparsed
  <2>1. unparsed' \in Seq(Positions \cup {Message})
    <3>1. unparsed \in Seq(Positions \cup {Message})
      BY DEF TypeOK
    <3>2. Append(unparsed, positional[next]) \in Seq(Positions \cup {Message})
      BY <1>2, <1>4, <3>1 DEF LeaveUnparsed
    <3>3. QED
      BY <1>4, <3>2 DEF LeaveUnparsed
  <2>2. next' \in Nat \ {0}
    BY <1>1, <1>4 DEF LeaveUnparsed
  <2>3. UNCHANGED <<args, arg_index, cmd, global_options, local_arguments,
                    positional, occurrences, ctx, arg, phase, err, fate>>
    BY <1>4 DEF LeaveUnparsed
  <2>4. unparsed' \in Seq(Positions' \cup {Message})
    BY <2>1, <2>3 DEF Positions
  <2>5. QED
    BY <2>2, <2>3, <2>4 DEF TypeOK, Positions
<1>5. CASE EndOfArguments
  <2>1. /\ phase' \in {"visit", "loop", "eat", "arguments", "check", "done"}
        /\ next' \in Nat \ {0}
    BY <1>5 DEF EndOfArguments
  <2>2. UNCHANGED <<args, arg_index, cmd, global_options, local_arguments,
                    positional, occurrences, ctx, unparsed, arg, err, fate>>
    BY <1>5 DEF EndOfArguments
  <2>3. QED
    BY <2>1, <2>2 DEF TypeOK, Positions
<1>6. QED
  BY <1>3, <1>4, <1>5

(* The checks of what the command requires.                                *)
LEMMA CheckTypeOK ==
  ASSUME TypeOK, CheckPassed \/ ApplyDefault \/ MissingRequired \/ Succeed
  PROVE  TypeOK'
<1>1. next \in Nat \ {0}
  BY DEF TypeOK
<1>2. CASE CheckPassed
  <2>1. next' \in Nat \ {0}
    BY <1>1, <1>2 DEF CheckPassed
  <2>2. UNCHANGED <<args, arg_index, cmd, global_options, local_arguments, positional,
                    occurrences, ctx, unparsed, arg, phase, err, fate>>
    BY <1>2 DEF CheckPassed
  <2>3. QED
    BY <2>1, <2>2 DEF TypeOK, Positions
<1>3. CASE ApplyDefault
  <2> DEFINE f == Required[next]
  <2>1. f \in Flags
    <3>1. options[cmd] \in Seq(Flags) /\ local_arguments \in Seq(Flags)
      <4>1. options[cmd] \in Seq(Options) /\ local_arguments \in Seq(Arguments)
        BY AppAssumption DEF TypeOK
      <4>2. Options \subseteq Flags /\ Arguments \subseteq Flags
        BY DEF Flags
      <4>3. QED
        BY <4>1, <4>2
    <3>2. Required \in Seq(Flags)
      BY <3>1 DEF Required
    <3>3. QED
      BY <1>3, <3>2 DEF ApplyDefault, AtCheck
  <2>2. PICK out \in Outcomes(f, Nil) :
          /\ ctx' = out.ctx
          /\ IF out.err = "raised"
               THEN Fail("raised") /\ UNCHANGED next
               ELSE next' = next + 1 /\ UNCHANGED <<phase, err>>
    BY <1>3 DEF ApplyDefault
  <2>3. ctx' \in [Fields -> CtxValues]
    BY <2>1, <2>2, OutcomeType
  <2>4. /\ next' \in Nat \ {0}
        /\ phase' \in {"visit", "loop", "eat", "arguments", "check", "done"}
        /\ err' \in {"none", "unknown option", "invalid argument", "missing value",
                     "invalid value", "callback", "raised", "unknown command",
                     "missing required"}
    <3>1. CASE out.err = "raised"
      <4>1. Fail("raised") /\ next' = next
        BY <2>2, <3>1
      <4>2. QED
        BY <1>1, <4>1, FailType
    <3>2. CASE out.err # "raised"
      <4>1. next' = next + 1 /\ phase' = phase /\ err' = err
        BY <2>2, <3>2
      <4>2. next' \in Nat \ {0}
        BY <1>1, <4>1
      <4>3. QED
        BY <4>1, <4>2 DEF TypeOK
    <3>3. QED
      BY <3>1, <3>2
  <2>5. UNCHANGED <<args, arg_index, cmd, global_options, local_arguments, positional,
                    occurrences, unparsed, arg, fate>>
    BY <1>3 DEF ApplyDefault
  <2>6. QED
    BY <2>3, <2>4, <2>5 DEF TypeOK, Positions
<1>4. CASE MissingRequired
  <2>1. Fail("missing required")
    BY <1>4 DEF MissingRequired
  <2>2. UNCHANGED <<args, arg_index, cmd, global_options, local_arguments, positional,
                    occurrences, ctx, unparsed, arg, next, fate>>
    BY <1>4 DEF MissingRequired
  <2>3. QED
    BY <2>1, <2>2, FailType DEF TypeOK, Positions
<1>5. CASE Succeed
  <2>1. phase' = "done"
    BY <1>5 DEF Succeed
  <2>2. UNCHANGED <<args, arg_index, cmd, global_options, local_arguments, positional,
                    occurrences, ctx, unparsed, arg, next, err, fate>>
    BY <1>5 DEF Succeed
  <2>3. QED
    BY <2>1, <2>2 DEF TypeOK, Positions
<1>6. QED
  BY <1>2, <1>3, <1>4, <1>5

(* The variables of parse keep their types, for every application and      *)
(* every command line.                                                     *)
THEOREM TypeCorrect == Spec => []TypeOK
<1>1. Init => TypeOK
  BY InitTypeOK
<1>2. TypeOK /\ [Next]_vars => TypeOK'
  <2>1. ASSUME TypeOK, Next PROVE TypeOK'
    BY <2>1, ReadingTypeOK, OptionTypeOK, CommandTypeOK, ArgumentTypeOK, CheckTypeOK
       DEF Next
  <2>2. ASSUME TypeOK, UNCHANGED vars PROVE TypeOK'
    BY <2>2 DEF TypeOK, Positions, vars
  <2>3. QED
    BY <2>1, <2>2
<1>3. QED
  BY <1>1, <1>2, PTL DEF Spec

---------------------------------------------------------------------------
(* Reading in order.                                                       *)

(* Marking a token gives it a role and leaves the others alone.            *)
LEMMA MarkedRead ==
  ASSUME TypeOK, NEW p \in Positions \cup {Message}, NEW role, role # "unread",
         NEW f, args' = args, fate' = Marked(p, role, f)
  PROVE  \A i \in Positions : Read(i)' <=> Read(i) \/ i = p
<1>1. fate \in [Positions -> [role : Roles, flag : Flags \cup {Nil}]]
  BY DEF TypeOK
<1>2. CASE p = Message
  <2>1. p \notin Positions
    BY <1>2, ArgsType DEF Positions, Message
  <2>2. fate' = fate
    BY <1>2 DEF Marked
  <2>3. QED
    BY <2>1, <2>2 DEF Read
<1>3. CASE p # Message
  <2>1. fate' = [fate EXCEPT ![p] = [role |-> role, flag |-> f]]
    BY <1>3 DEF Marked
  <2>2. \A i \in Positions : fate'[i] = IF i = p THEN [role |-> role, flag |-> f] ELSE fate[i]
    BY <1>1, <2>1
  <2>3. QED
    BY <2>2 DEF Read
<1>4. QED
  BY <1>2, <1>3

(* A step that fails or that leaves the reading loops alone keeps the      *)
(* tokens with a role below arg_index.                                     *)
LEMMA FailedInOrder ==
  ASSUME LineInv, TypeOK', args' = args, arg_index' >= arg_index,
         phase' = "done", err' # "none",
         \A i \in Positions : Read(i)' => Read(i) \/ i <= arg_index'
  PROVE  LineInv'
<1>1. Positions' = Positions
  BY DEF Positions
<1>2. TypeOK /\ ReadInOrder
  BY DEF LineInv
<1>3. arg_index \in Nat /\ arg_index' \in Nat
  <2>1. Len(args) \in Nat /\ Len(args') \in Nat
    BY <1>2, ArgsType
  <2>2. arg_index \in 0 .. Len(args) /\ arg_index' \in 0 .. Len(args')
    BY <1>2 DEF TypeOK
  <2>3. QED
    BY <2>1, <2>2
<1>4. \A i \in Positions : i \in Nat
  BY <1>2, ArgsType DEF Positions
<1>5. \A i \in Positions : Read(i)' => i <= arg_index'
  BY <1>2, <1>3, <1>4 DEF ReadInOrder
<1>6. QED
  BY <1>1, <1>5 DEF LineInv, ReadInOrder, Succeeded

LEMMA InitLineInv == Init => LineInv
<1> SUFFICES ASSUME Init PROVE LineInv
  OBVIOUS
<1>1. TypeOK
  BY InitTypeOK
<1>2. phase = "visit" /\ arg_index = 0 /\ \A i \in Positions : ~Read(i)
  BY DEF Init, Read, Positions
<1>3. QED
  BY <1>1, <1>2 DEF LineInv, ReadInOrder, Succeeded

(* A token is fetched when the first j tokens, and no other, have a role.  *)
LEMMA FetchedInOrder ==
  ASSUME TypeOK, TypeOK', args' = args, NEW j \in 0 .. Len(args),
         \A i \in Positions : Read(i)' <=> i <= j,
         arg' = NextArg(j), arg_index' = NextRead(j), phase' \in {"loop", "eat"}
  PROVE  LineInv'
<1>1. Len(args) \in Nat /\ Positions = 1 .. Len(args) /\ Positions' = Positions
  BY ArgsType DEF Positions
<1>2. CASE j < Len(args)
  <2>1. arg' = j + 1 /\ arg_index' = j + 1 /\ j + 1 \in Positions
    BY <1>1, <1>2 DEF NextArg, NextRead
  <2>2. \A i \in Positions : Read(i)' => i <= arg_index'
    BY <1>1, <2>1
  <2>3. \A i \in 1 .. arg_index' : Read(i)' <=> i # arg'
    BY <1>1, <2>1
  <2>4. QED
    BY <1>1, <2>1, <2>2, <2>3 DEF LineInv, ReadInOrder, Succeeded, Done
<1>3. CASE ~(j < Len(args))
  <2>1. j = Len(args) /\ arg' = Done /\ arg_index' = Len(args)
    BY <1>1, <1>3 DEF NextArg, NextRead
  <2>2. \A i \in Positions : Read(i)' /\ i <= arg_index' /\ i # arg'
    BY <1>1, <2>1 DEF Done
  <2>3. arg' \notin Positions
    BY <1>1, <2>1 DEF Done
  <2>4. QED
    BY <1>1, <2>1, <2>2, <2>3 DEF LineInv, ReadInOrder, Succeeded
<1>4. QED
  BY <1>2, <1>3

(* While a token is in hand, it is the last one handed out.                *)
LEMMA InHand ==
  ASSUME LineInv, phase \in {"loop", "eat"}, arg # Done
  PROVE  /\ arg \in Positions \cup {Message}
         /\ \A i \in Positions : Read(i) \/ i = arg <=> i <= arg_index
<1>1. TypeOK /\ ReadInOrder
  BY DEF LineInv
<1>2. arg \in Positions \cup {Message}
  BY <1>1 DEF TypeOK
<1>3. Positions = 1 .. Len(args) /\ Len(args) \in Nat /\ arg_index \in 0 .. Len(args)
  BY <1>1, ArgsType DEF TypeOK, Positions
<1>4. /\ \A i \in Positions : Read(i) => i <= arg_index
      /\ \A i \in 1 .. arg_index : Read(i) <=> i # arg
      /\ arg \in Positions => arg = arg_index
  BY <1>1 DEF ReadInOrder
<1>5. QED
  BY <1>2, <1>3, <1>4

LEMMA ReadingLineInv ==
  ASSUME LineInv, TypeOK', Visit \/ EndOfArgs \/ Separator \/ Eat \/ StartEating
  PROVE  LineInv'
<1>1. TypeOK /\ ReadInOrder
  BY DEF LineInv
<1>2. Positions = 1 .. Len(args) /\ Len(args) \in Nat /\ arg_index \in 0 .. Len(args)
  BY <1>1, ArgsType DEF TypeOK, Positions
<1>3. CASE Visit
  <2>1. \A i \in Positions : Read(i)' <=> i <= arg_index
    BY <1>1, <1>2, <1>3 DEF Visit, LineInv, ReadInOrder, Read
  <2>2. QED
    BY <1>1, <1>2, <1>3, <2>1, FetchedInOrder DEF Visit
<1>4. CASE EndOfArgs
  <2>1. arg_index = Len(args) /\ arg = Done /\ phase \in {"loop", "eat"}
    BY <1>4 DEF EndOfArgs, LineInv
  <2>2. \A i \in Positions : Read(i)
    BY <1>1, <1>2, <2>1 DEF ReadInOrder, Done
  <2>3. /\ Positions' = Positions /\ \A i \in Positions : Read(i)'
        /\ arg_index' = arg_index /\ phase' = "arguments"
    BY <1>4, <2>2 DEF EndOfArgs, Positions, Read
  <2>4. QED
    BY <1>2, <2>1, <2>3 DEF LineInv, ReadInOrder, Succeeded
<1>5. CASE Separator \/ Eat
  <2>1. phase \in {"loop", "eat"} /\ arg # Done
    BY <1>5 DEF Separator, Eat, InLoop
  <2>2. \E role \in {"separator", "positional"} : fate' = Marked(arg, role, Nil)
    BY <1>5 DEF Separator, Eat
  <2>3. args' = args /\ phase' \in {"loop", "eat"}
        /\ arg' = NextArg(arg_index) /\ arg_index' = NextRead(arg_index)
    BY <1>5 DEF Separator, Eat
  <2>4. \A i \in Positions : Read(i)' <=> Read(i) \/ i = arg
    BY <1>1, <2>1, <2>2, <2>3, InHand, MarkedRead
  <2>5. \A i \in Positions : Read(i)' <=> i <= arg_index
    BY <2>1, <2>4, InHand
  <2>6. QED
    BY <1>1, <1>2, <2>3, <2>5, FetchedInOrder
<1>6. CASE StartEating
  BY <1>1, <1>6 DEF StartEating, AtWord, InLoop, LineInv, ReadInOrder, Read,
                    Positions, Succeeded
<1>7. QED
  BY <1>3, <1>4, <1>5, <1>6

LEMMA OptionLineInv ==
  ASSUME LineInv, TypeOK', RejectOption \/ AppearedTooManyTimes \/ MissingValue \/ ApplyOption
  PROVE  LineInv'
<1>1. TypeOK /\ ReadInOrder
  BY DEF LineInv
<1>2. Positions = 1 .. Len(args) /\ Len(args) \in Nat /\ arg_index \in 0 .. Len(args)
  BY <1>1, ArgsType DEF TypeOK, Positions
<1>3. phase = "loop" /\ arg # Done
  BY ApplyOptionIs DEF RejectOption, AppearedTooManyTimes, MissingValue, ApplyTo, OptionAccepted,
         AtOption, InLoop
<1>4. /\ arg \in Positions \cup {Message}
      /\ \A i \in Positions : Read(i) \/ i = arg <=> i <= arg_index
  BY <1>3, InHand
<1>5. ASSUME args' = args, NEW role \in {"option", "refused"}, fate' = Marked(arg, role, Found)
      PROVE  \A i \in Positions : Read(i)' <=> i <= arg_index
  BY <1>1, <1>4, <1>5, MarkedRead
<1>6. CASE RejectOption
  <2>1. phase' = "done" /\ err' # "none" /\ args' = args /\ fate' = fate /\ arg_index' = arg_index
    BY <1>6 DEF RejectOption, Fail
  <2>2. \A i \in Positions : Read(i)' => Read(i)
    BY <2>1 DEF Read
  <2>3. QED
    BY <1>2, <2>1, <2>2, FailedInOrder
<1>7. CASE AppearedTooManyTimes
  <2>1. /\ args' = args /\ fate' = Marked(arg, "refused", Found)
        /\ arg' = Message /\ arg_index' = arg_index /\ phase' = "loop"
    BY <1>3, <1>7 DEF AppearedTooManyTimes
  <2>2. \A i \in Positions : Read(i)' <=> i <= arg_index
    BY <1>5, <2>1
  <2>3. Message \notin Positions /\ Message # Done /\ Positions' = Positions
    BY <1>2, <2>1 DEF Message, Done, Positions
  <2>4. \A i \in 1 .. arg_index' : Read(i)' <=> i # arg'
    BY <1>2, <2>1, <2>2 DEF Message
  <2>5. QED
    BY <2>1, <2>2, <2>3, <2>4 DEF LineInv, ReadInOrder, Succeeded
<1>8. CASE MissingValue
  <2>1. /\ args' = args /\ fate' = Marked(arg, "option", Found)
        /\ arg_index' = arg_index /\ phase' = "done" /\ err' # "none"
    BY <1>8 DEF MissingValue, Fail
  <2>2. \A i \in Positions : Read(i)' => i <= arg_index
    BY <1>5, <2>1
  <2>3. QED
    BY <1>2, <2>1, <2>2, FailedInOrder
<1>9. CASE ApplyOption
  <2> DEFINE j == IF TakesNextToken(Found) THEN NextRead(arg_index) ELSE arg_index
  <2>1. args' = args
    BY <1>9, ApplyOptionIs DEF ApplyTo
  <2>2. TakesNextToken(Found) => j = arg_index + 1 /\ j \in Positions
    <3>1. TakesNextToken(Found) => NextArg(arg_index) # Done
      BY <1>9, ApplyOptionIs DEF ApplyTo
    <3>2. QED
      BY <1>2, <3>1 DEF NextArg, NextRead
  <2>3. j \in 0 .. Len(args) /\ j >= arg_index
    BY <1>2, <2>2
  <2>4. \A i \in Positions : Read(i)' <=> i <= j
    <3>1. CASE ~TakesNextToken(Found)
      BY <1>5, <1>9, <2>1, <3>1, ApplyOptionIs DEF ApplyTo
    <3>2. CASE TakesNextToken(Found)
      <4> DEFINE marked == Marked(arg, "option", Found)
      <4>1. marked \in [Positions -> [role : Roles, flag : Flags \cup {Nil}]]
        <5>1. Found \in Flags \cup {Nil}
          BY <1>1, FoundType DEF Found, Flags
        <5>2. QED
          BY <1>1, <1>4, <5>1, MarkedType DEF Roles
      <4>2. fate' = [marked EXCEPT ![j] = [role |-> "value", flag |-> Found]]
        BY <1>9, <3>2, ApplyOptionIs DEF ApplyTo
      <4>3. \A i \in Positions :
              fate'[i] = IF i = j THEN [role |-> "value", flag |-> Found] ELSE marked[i]
        BY <2>2, <4>1, <4>2
      <4>4. \A i \in Positions : marked[i].role # "unread" <=> Read(i) \/ i = arg
        <5>1. fate \in [Positions -> [role : Roles, flag : Flags \cup {Nil}]]
          BY <1>1 DEF TypeOK
        <5>2. arg = Message => arg \notin Positions
          BY <1>2 DEF Message
        <5>3. CASE arg = Message
          BY <5>2, <5>3 DEF Marked, Read
        <5>4. CASE arg # Message
          <6>1. marked = [fate EXCEPT ![arg] = [role |-> "option", flag |-> Found]]
            BY <5>4 DEF Marked
          <6>2. \A i \in Positions :
                  marked[i] = IF i = arg THEN [role |-> "option", flag |-> Found] ELSE fate[i]
            BY <5>1, <6>1
          <6>3. QED
            BY <6>2 DEF Read
        <5>5. QED
          BY <5>3, <5>4
      <4>5. \A i \in Positions : Read(i)' <=> i = j \/ Read(i) \/ i = arg
        BY <4>3, <4>4 DEF Read
      <4>6. \A i \in Positions : Read(i)' <=> i = arg_index + 1 \/ i <= arg_index
        BY <1>4, <2>2, <3>2, <4>5
      <4>7. QED
        BY <1>2, <2>2, <3>2, <4>6
    <3>3. QED
      BY <3>1, <3>2
  <2>5. PICK out \in Outcomes(Found, IF TakesNextToken(Found) THEN Text(NextArg(arg_index))
                                                      ELSE Sought.value) :
          IF out.err # "none"
            THEN Fail(out.err) /\ arg_index' = j /\ UNCHANGED arg
            ELSE /\ arg' = NextArg(j)
                 /\ arg_index' = NextRead(j)
                 /\ UNCHANGED <<phase, err>>
    BY <1>9, ApplyOptionIs DEF ApplyTo
  <2>6. CASE out.err # "none"
    <3>1. phase' = "done" /\ err' # "none" /\ arg_index' = j
      BY <2>5, <2>6 DEF Fail
    <3>2. QED
      BY <2>1, <2>3, <2>4, <3>1, FailedInOrder
  <2>7. CASE out.err = "none"
    <3>1. arg' = NextArg(j) /\ arg_index' = NextRead(j) /\ phase' \in {"loop", "eat"}
      BY <1>3, <2>5, <2>7
    <3>2. QED
      BY <1>1, <2>1, <2>3, <2>4, <3>1, FetchedInOrder
  <2>8. QED
    BY <2>6, <2>7
<1>10. QED
  BY <1>6, <1>7, <1>8, <1>9

LEMMA CommandLineInv ==
  ASSUME LineInv, TypeOK', EnterCommand \/ UnknownCommand
  PROVE  LineInv'
<1>1. TypeOK /\ ReadInOrder /\ phase = "loop" /\ arg # Done
  BY DEF LineInv, EnterCommand, UnknownCommand, AtWord, InLoop
<1>2. Positions = 1 .. Len(args) /\ Len(args) \in Nat /\ arg_index \in 0 .. Len(args)
  BY <1>1, ArgsType DEF TypeOK, Positions
<1>3. CASE EnterCommand
  <2>1. /\ args' = args /\ fate' = Marked(arg, "command", Nil)
        /\ arg_index' = arg_index /\ phase' = "visit"
    BY <1>3 DEF EnterCommand
  <2>2. \A i \in Positions : Read(i)' <=> i <= arg_index
    BY <1>1, <2>1, InHand, MarkedRead
  <2>3. Positions' = Positions
    BY <2>1 DEF Positions
  <2>4. QED
    BY <1>2, <2>1, <2>2, <2>3 DEF LineInv, ReadInOrder, Succeeded
<1>4. CASE UnknownCommand
  <2>1. phase' = "done" /\ err' # "none" /\ args' = args /\ fate' = fate /\ arg_index' = arg_index
    BY <1>4 DEF UnknownCommand, Fail
  <2>2. \A i \in Positions : Read(i)' => Read(i)
    BY <2>1 DEF Read
  <2>3. QED
    BY <1>2, <2>1, <2>2, FailedInOrder
<1>5. QED
  BY <1>3, <1>4

(* Once the line is used up, the tokens keep a role.                       *)
LEMMA LateLineInv ==
  ASSUME LineInv, TypeOK',
         \/ HandleArgument \/ LeaveUnparsed \/ EndOfArguments
         \/ CheckPassed \/ ApplyDefault \/ MissingRequired \/ Succeed
  PROVE  LineInv'
<1>1. TypeOK /\ ReadInOrder /\ phase \in {"arguments", "check"}
  BY DEF LineInv, HandleArgument, LeaveUnparsed, EndOfArguments, CheckPassed, ApplyDefault,
         MissingRequired, Succeed, AtArgument, AtCheck
<1>2. \A i \in Positions : Read(i) /\ i <= arg_index
  BY <1>1 DEF ReadInOrder
<1>3. args' = args /\ arg_index' = arg_index /\ Positions' = Positions
  BY DEF HandleArgument, LeaveUnparsed, EndOfArguments, CheckPassed, ApplyDefault,
         MissingRequired, Succeed, Positions
<1>4. phase' \in {"arguments", "check", "done"}
  BY <1>1 DEF HandleArgument, LeaveUnparsed, EndOfArguments, CheckPassed, ApplyDefault,
         MissingRequired, Succeed, Fail
<1>5. \A i \in Positions : Read(i)'
  <2>1. CASE HandleArgument
    <3> DEFINE a == Head(local_arguments)
               p == positional[next]
    <3>1. p \in Positions \cup {Message}
      <4>1. positional \in Seq(Positions \cup {Message})
        BY <1>1 DEF TypeOK
      <4>2. QED
        BY <2>1, <4>1 DEF HandleArgument, AtArgument
    <3>2. fate' = Marked(p, "positional", a)
      BY <2>1 DEF HandleArgument
    <3>3. QED
      BY <1>1, <1>2, <1>3, <3>1, <3>2, MarkedRead
  <2>2. CASE ~HandleArgument
    <3>1. fate' = fate
      BY <2>2 DEF LeaveUnparsed, EndOfArguments, CheckPassed, ApplyDefault,
                  MissingRequired, Succeed
    <3>2. QED
      BY <1>2, <3>1 DEF Read
  <2>3. QED
    BY <2>1, <2>2
<1>6. QED
  BY <1>2, <1>3, <1>4, <1>5 DEF LineInv, ReadInOrder, Succeeded

(* Every token of the line is read once, from left to right.               *)
THEOREM TokensReadInOrder == Spec => []ReadInOrder
<1>1. Init => LineInv
  BY InitLineInv
<1>2. LineInv /\ TypeOK' /\ [Next]_vars => LineInv'
  <2>1. ASSUME LineInv, TypeOK', Next PROVE LineInv'
    BY <2>1, ReadingLineInv, OptionLineInv, CommandLineInv, LateLineInv DEF Next
  <2>2. ASSUME LineInv, TypeOK', UNCHANGED vars PROVE LineInv'
    BY <2>2 DEF LineInv, ReadInOrder, Read, Succeeded, Positions, vars
  <2>3. QED
    BY <2>1, <2>2
<1>3. LineInv => ReadInOrder
  BY DEF LineInv
<1>4. QED
  BY <1>1, <1>2, <1>3, TypeCorrect, PTL DEF Spec

---------------------------------------------------------------------------
(* No flag is counted beyond its max_count, nor applied more often than it *)
(* is counted.                                                             *)

LEMMA TokensFinite ==
  ASSUME TypeOK, NEW f
  PROVE  IsFiniteSet(TokensOf(f)) /\ Cardinality(TokensOf(f)) \in Nat
<1>1. Positions = 1 .. Len(args) /\ Len(args) \in Int /\ 1 \in Int
  BY ArgsType DEF Positions
<1>2. IsFiniteSet(Positions)
  BY <1>1, FS_Interval
<1>3. TokensOf(f) \in SUBSET Positions
  BY DEF TokensOf
<1>4. QED
  BY <1>2, <1>3, FS_Subset, FS_CardinalityType

(* A token that is marked counts for the flag it is marked with only.      *)
LEMMA MarkedTokens ==
  ASSUME TypeOK, NEW p \in Positions \cup {Message}, NEW role \in Roles,
         NEW f \in Flags \cup {Nil}, args' = args, fate' = Marked(p, role, f), NEW g
  PROVE  /\ TokensOf(g)' \subseteq TokensOf(g) \cup {p}
         /\ g # f => TokensOf(g)' \subseteq TokensOf(g)
<1>1. fate \in [Positions -> [role : Roles, flag : Flags \cup {Nil}]] /\ Positions' = Positions
  BY DEF TypeOK, Positions
<1>2. \/ fate' = fate
      \/ fate' = [fate EXCEPT ![p] = [role |-> role, flag |-> f]]
  BY DEF Marked
<1>3. \A i \in Positions : fate'[i] = fate[i] \/ (i = p /\ fate'[i].flag = f)
  BY <1>1, <1>2
<1>4. QED
  BY <1>1, <1>3 DEF TokensOf

LEMMA CountedBound ==
  ASSUME TypeOK, NEW f \in Flags,
         \A g \in Flags : flag[g].max_count # Unbound => occurrences[g] <= flag[g].max_count
  PROVE  /\ \A g \in Flags : g # f => Counted(f)[g] = occurrences[g]
         /\ \A g \in Flags :
              flag[g].max_count # Unbound => Counted(f)[g] <= flag[g].max_count
<1>1. occurrences \in [Flags -> Nat]
  BY DEF TypeOK
<1>2. CASE Counted(f) = occurrences
  BY <1>2
<1>3. CASE Counted(f) # occurrences
  <2>1. MayOccur(f) /\ ~Repeatable(f)
    BY <1>3 DEF Counted
  <2>2. flag[f].max_count # Unbound => occurrences[f] < flag[f].max_count
    BY <2>1 DEF MayOccur
  <2>3. \A g \in Flags : Counted(f)[g] = IF g = f THEN occurrences[f] + 1 ELSE occurrences[g]
    BY <1>1, <2>1 DEF Counted
  <2>4. \A g \in Flags : flag[g].max_count \in Nat \cup {Unbound}
    BY FlagType
  <2>5. QED
    BY <1>1, <2>2, <2>3, <2>4
<1>4. QED
  BY <1>2, <1>3

LEMMA InitCountInv == Init => CountInv
<1> SUFFICES ASSUME Init PROVE CountInv
  OBVIOUS
<1>1. TypeOK
  BY InitTypeOK
<1>2. phase = "visit" /\ \A f \in Flags : occurrences[f] = 0
  BY DEF Init
<1>3. \A f \in Flags : flag[f].max_count # Unbound => occurrences[f] <= flag[f].max_count
  BY <1>2, FlagType
<1>4. \A f \in Flags : Cardinality(TokensOf(f)) = 0
  <2>1. \A i \in Positions : fate[i].flag = Nil
    BY DEF Init, Positions
  <2>2. \A f \in Flags : TokensOf(f) = {}
    BY <2>1, NilAssumption DEF TokensOf
  <2>3. QED
    BY <2>2, FS_EmptySet
<1>5. Arguments \subseteq Flags
  BY DEF Flags
<1>6. QED
  BY <1>1, <1>2, <1>3, <1>4, <1>5 DEF CountInv

(* The flags whose tokens are counted.                                     *)
Limited(f) == ~Repeatable(f) /\ (f \in Arguments => CanTake(f))

CountKept(f)  == occurrences'[f] = occurrences[f] /\ TokensOf(f)' \subseteq TokensOf(f)
CountMade(f, p) ==
  occurrences'[f] = occurrences[f] + 1 /\ TokensOf(f)' \subseteq TokensOf(f) \cup {p}

(* A flag keeps its tokens and its count, or is given one and counted.     *)
LEMMA CountsFollow ==
  ASSUME CountInv, NEW f \in Flags, Limited(f), NEW p, CountKept(f) \/ CountMade(f, p)
  PROVE  Cardinality(TokensOf(f)') <= occurrences'[f]
<1>1. TypeOK /\ Cardinality(TokensOf(f)) <= occurrences[f]
  BY DEF CountInv, Limited
<1>2. IsFiniteSet(TokensOf(f)) /\ Cardinality(TokensOf(f)) \in Nat /\ occurrences[f] \in Nat
  BY <1>1, TokensFinite DEF TypeOK
<1>3. CASE CountKept(f)
  <2>1. /\ Cardinality(TokensOf(f)') <= Cardinality(TokensOf(f))
        /\ IsFiniteSet(TokensOf(f)')
    BY <1>2, <1>3, FS_Subset DEF CountKept
  <2>2. Cardinality(TokensOf(f)') \in Nat
    BY <2>1, FS_CardinalityType
  <2>3. occurrences'[f] = occurrences[f]
    BY <1>3 DEF CountKept
  <2>. QED  BY <1>1, <1>2, <2>1, <2>2, <2>3
<1>4. CASE CountMade(f, p)
  <2>1. /\ IsFiniteSet(TokensOf(f) \cup {p})
        /\ Cardinality(TokensOf(f) \cup {p}) =
             IF p \in TokensOf(f) THEN Cardinality(TokensOf(f)) ELSE Cardinality(TokensOf(f)) + 1
    BY <1>2, FS_AddElement
  <2>2. /\ Cardinality(TokensOf(f)') <= Cardinality(TokensOf(f) \cup {p})
        /\ IsFiniteSet(TokensOf(f)')
    BY <1>4, <2>1, FS_Subset DEF CountMade
  <2>3. Cardinality(TokensOf(f)') \in Nat
    BY <2>2, FS_CardinalityType
  <2>4. occurrences'[f] = occurrences[f] + 1
    BY <1>4 DEF CountMade
  <2>. QED  BY <1>1, <1>2, <2>1, <2>2, <2>3, <2>4
<1>. QED  BY <1>3, <1>4

(* Steps that count no argument.                                           *)
LEMMA ArgumentsUncounted ==
  ASSUME CountInv, TypeOK',
         \A a \in Arguments : occurrences'[a] = occurrences[a],
         \A f \in Flags :
           flag[f].max_count # Unbound => occurrences'[f] <= flag[f].max_count,
         \A f \in Flags : Limited(f) => Cardinality(TokensOf(f)') <= occurrences'[f],
         phase' \in {"visit", "loop", "eat"} => phase \in {"visit", "loop", "eat"},
         phase' \in {"loop", "eat", "arguments"} =>
           phase \in {"loop", "eat", "arguments"} /\ local_arguments' = local_arguments
  PROVE  CountInv'
<1>1. TypeOK
  BY DEF CountInv
<1>2. \A f \in Flags :
        ~Repeatable(f) /\ (f \in Arguments => CanTake(f)) =>
          Cardinality(TokensOf(f)') <= occurrences'[f]
  BY DEF Limited
<1>3. phase' \in {"visit", "loop", "eat"} => \A a \in Arguments : occurrences'[a] = 0
  BY DEF CountInv
<1>4. ASSUME phase' \in {"loop", "eat", "arguments"}
      PROVE  /\ \A i, j \in DOMAIN local_arguments' :
                  local_arguments'[i] = local_arguments'[j] => i = j
             /\ \A i \in DOMAIN local_arguments' :
                  CanTake(local_arguments'[i]) =>
                    \/ flag[local_arguments'[i]].max_count = Unbound
                    \/ occurrences'[local_arguments'[i]] < flag[local_arguments'[i]].max_count
  <2>1. \A i \in DOMAIN local_arguments : local_arguments[i] \in Arguments
    <3>1. local_arguments \in Seq(Arguments)
      BY <1>1 DEF TypeOK
    <3>2. QED
      BY <3>1
  <2>2. QED
    BY <1>4, <2>1 DEF CountInv, HasRoom
<1>5. QED
  BY <1>2, <1>3, <1>4 DEF CountInv, CanTake, HasRoom, Repeatable

(* Steps that count nothing.                                               *)
LEMMA Uncounted ==
  ASSUME CountInv, TypeOK', occurrences' = occurrences,
         \A f \in Flags : TokensOf(f)' \subseteq TokensOf(f),
         phase' \in {"visit", "loop", "eat"} => phase \in {"visit", "loop", "eat"},
         phase' \in {"loop", "eat", "arguments"} =>
           phase \in {"loop", "eat", "arguments"} /\ local_arguments' = local_arguments
  PROVE  CountInv'
<1>1. \A f \in Flags : Limited(f) => Cardinality(TokensOf(f)') <= occurrences'[f]
  BY CountsFollow DEF CountKept
<1>2. \A f \in Flags : flag[f].max_count # Unbound => occurrences'[f] <= flag[f].max_count
  BY DEF CountInv
<1>. QED  BY <1>1, <1>2, ArgumentsUncounted

(* What the steps of handle_option do to the tokens of the options.        *)
LEMMA OptionTokens ==
  ASSUME TypeOK, AppearedTooManyTimes \/ MissingValue \/ ApplyOption, NEW g \in Flags
  PROVE  /\ TokensOf(g)' \subseteq TokensOf(g) \cup {arg}
         /\ g # Found \/ AppearedTooManyTimes => TokensOf(g)' \subseteq TokensOf(g)
<1>1. /\ args' = args /\ arg \in Positions \cup {Message}
      /\ Found # Nil
  BY ApplyOptionIs DEF TypeOK, AppearedTooManyTimes, MissingValue, ApplyTo, OptionAccepted,
     AtOption, InLoop
<1>2. Found \in Flags \cup {Nil}
  BY FoundType DEF Found, Flags
<1>3. Positions' = Positions /\ fate \in [Positions -> [role : Roles, flag : Flags \cup {Nil}]]
  BY <1>1 DEF TypeOK, Positions
<1>4. CASE AppearedTooManyTimes
  <2>1. fate' = Marked(arg, "refused", Found)
    BY <1>4 DEF AppearedTooManyTimes
  <2>2. \A i \in Positions :
          fate'[i] = fate[i] \/ fate'[i].role = "refused"
    BY <1>3, <2>1 DEF Marked
  <2>. QED  BY <1>3, <2>2 DEF TokensOf
<1>5. CASE MissingValue \/ ApplyOption
  <2> DEFINE marked == Marked(arg, "option", Found)
  <2>1. marked \in [Positions -> [role : Roles, flag : Flags \cup {Nil}]]
    BY <1>1, <1>2, MarkedType DEF Roles
  <2>2. \A i \in Positions : marked[i] = fate[i] \/ (i = arg /\ marked[i].flag = Found)
    BY <1>3 DEF Marked
  <2>3. \/ fate' = marked
        \/ \E j : fate' = [marked EXCEPT ![j] = [role |-> "value", flag |-> Found]]
    BY <1>5, ApplyOptionIs DEF MissingValue, ApplyTo
  <2>4. \A i \in Positions : fate'[i] = marked[i] \/ fate'[i].role = "value"
    BY <2>1, <2>3
  <2>5. \A i \in Positions :
          \/ fate'[i] = fate[i]
          \/ i = arg /\ fate'[i].flag = Found
          \/ fate'[i].role = "value"
    BY <2>2, <2>4
  <2> HIDE DEF marked
  <2>6. ~AppearedTooManyTimes
    BY <1>5, ApplyOptionIs DEF AppearedTooManyTimes, MissingValue, ApplyTo
  <2>. QED  BY <1>3, <2>5, <2>6 DEF TokensOf
<1>. QED  BY <1>4, <1>5

(* The steps of the reading loops mark tokens with options, or with no     *)
(* flag, and count options.                                                *)
LEMMA LoopCountInv ==
  ASSUME CountInv, TypeOK',
         \/ EndOfArgs \/ Separator \/ Eat \/ StartEating
         \/ RejectOption \/ AppearedTooManyTimes \/ MissingValue \/ ApplyOption
         \/ EnterCommand \/ UnknownCommand
  PROVE  CountInv'
<1>1. TypeOK
  BY DEF CountInv
<1>2. /\ phase \in {"loop", "eat"} /\ local_arguments' = local_arguments /\ args' = args
      /\ arg # Done => arg \in Positions \cup {Message}
  BY <1>1, ApplyOptionIs
     DEF EndOfArgs, Separator, Eat, StartEating, RejectOption, AppearedTooManyTimes,
         MissingValue, ApplyTo, EnterCommand, UnknownCommand, OptionAccepted, AtOption,
         AtWord, InLoop, TypeOK
<1>3. \A f \in Flags :
        flag[f].max_count # Unbound => occurrences[f] <= flag[f].max_count
  BY DEF CountInv
<1>4. Arguments \subseteq Flags /\ Options \subseteq Flags /\ Options \cap Arguments = {}
  BY AppAssumption DEF Flags
<1>5. CASE EndOfArgs \/ StartEating \/ RejectOption \/ UnknownCommand
  <2>1. fate' = fate /\ occurrences' = occurrences
    BY <1>5 DEF EndOfArgs, StartEating, RejectOption, UnknownCommand
  <2>2. \A f \in Flags : TokensOf(f)' \subseteq TokensOf(f)
    BY <1>2, <2>1 DEF TokensOf, Positions
  <2>3. QED
    BY <1>2, <2>1, <2>2, Uncounted
<1>6. CASE Separator \/ Eat \/ EnterCommand
  <2>1. occurrences' = occurrences /\ arg # Done
    BY <1>6 DEF Separator, Eat, EnterCommand, AtWord, InLoop
  <2>2. PICK role \in Roles : fate' = Marked(arg, role, Nil)
    BY <1>6 DEF Separator, Eat, EnterCommand, Roles
  <2>3. \A f \in Flags : f # Nil
    BY NilAssumption
  <2>4. \A f \in Flags : TokensOf(f)' \subseteq TokensOf(f)
    BY <1>1, <1>2, <2>1, <2>2, <2>3, MarkedTokens
  <2>5. QED
    BY <1>2, <2>1, <2>4, Uncounted
<1>7. CASE AppearedTooManyTimes
  <2>1. occurrences' = occurrences
    BY <1>7 DEF AppearedTooManyTimes
  <2>2. \A f \in Flags : TokensOf(f)' \subseteq TokensOf(f)
    BY <1>1, <1>7, OptionTokens
  <2>3. QED
    BY <1>2, <2>1, <2>2, Uncounted
<1>8. CASE MissingValue \/ ApplyOption
  <2>1. Found \in Options
    BY <1>1, <1>8, FoundType, ApplyOptionIs DEF MissingValue, ApplyTo, OptionAccepted, Found
  <2>2. occurrences' = Counted(Found) /\ MayOccur(Found)
    BY <1>8, ApplyOptionIs DEF MissingValue, ApplyTo
  <2>3. /\ \A g \in Flags : g # Found => occurrences'[g] = occurrences[g]
        /\ \A f \in Flags :
             flag[f].max_count # Unbound => occurrences'[f] <= flag[f].max_count
    BY <1>1, <1>3, <1>4, <2>1, <2>2, CountedBound
  <2>4. \A a \in Arguments : occurrences'[a] = occurrences[a]
    BY <1>4, <2>1, <2>3
  <2>5. ~Repeatable(Found) => occurrences'[Found] = occurrences[Found] + 1
    <3>1. occurrences \in [Flags -> Nat] /\ Found \in Flags
      BY <1>1, <1>4, <2>1 DEF TypeOK
    <3>. QED  BY <2>2, <3>1 DEF Counted
  <2>6. \A g \in Flags :
          /\ TokensOf(g)' \subseteq TokensOf(g) \cup {arg}
          /\ g # Found => TokensOf(g)' \subseteq TokensOf(g)
    BY <1>1, <1>8, OptionTokens
  <2>7. ASSUME NEW f \in Flags, Limited(f)
        PROVE  CountKept(f) \/ CountMade(f, arg)
    <3>1. CASE f = Found
      BY <2>5, <2>6, <2>7, <3>1 DEF CountMade, Limited
    <3>2. CASE f # Found
      BY <2>3, <2>6, <3>2 DEF CountKept
    <3>. QED  BY <3>1, <3>2
  <2>8. \A f \in Flags : Limited(f) => Cardinality(TokensOf(f)') <= occurrences'[f]
    BY <2>7, CountsFollow
  <2>9. QED
    BY <1>2, <2>3, <2>4, <2>8, ArgumentsUncounted
<1>9. QED
  BY <1>5, <1>6, <1>7, <1>8

(* The steps after the arguments have been handled.                        *)
LEMMA LateCountInv ==
  ASSUME CountInv, TypeOK',
         \/ LeaveUnparsed \/ EndOfArguments
         \/ CheckPassed \/ ApplyDefault \/ MissingRequired \/ Succeed
  PROVE  CountInv'
<1>1. /\ phase \in {"arguments", "check"} /\ fate' = fate /\ occurrences' = occurrences
      /\ args' = args /\ local_arguments' = local_arguments
      /\ phase' \in {"arguments", "check", "done"}
      /\ phase' = "arguments" => phase = "arguments"
  BY DEF LeaveUnparsed, EndOfArguments, CheckPassed, ApplyDefault, MissingRequired, Succeed,
         AtArgument, AtCheck, Fail
<1>2. \A f \in Flags : TokensOf(f)' \subseteq TokensOf(f)
  BY <1>1 DEF TokensOf, Positions
<1>3. QED
  BY <1>1, <1>2, Uncounted

(* The arguments of a command that is visited have not been given tokens.  *)
LEMMA VisitCountInv ==
  ASSUME CountInv, TypeOK', Visit
  PROVE  CountInv'
<1>1. /\ TypeOK /\ phase = "visit" /\ phase' = "loop" /\ args' = args /\ fate' = fate
      /\ occurrences' = occurrences /\ local_arguments' = arguments[cmd]
  BY DEF CountInv, Visit
<1>2. arguments[cmd] \in Seq(Arguments) /\ cmd \in Commands
  BY <1>1, AppAssumption DEF TypeOK
<1>3. \A a \in Arguments : occurrences[a] = 0
  BY <1>1 DEF CountInv
<1>4. \A i \in DOMAIN arguments[cmd] : arguments[cmd][i] \in Arguments
  BY <1>2
<1>5. \A i, j \in DOMAIN arguments[cmd] :
        arguments[cmd][i] = arguments[cmd][j] => i = j
  BY <1>2, DistinctAssumption
<1>6. \A i \in DOMAIN arguments[cmd] : CanTake(arguments[cmd][i]) => HasRoom(arguments[cmd][i])
  BY <1>3, <1>4 DEF CanTake, HasRoom
<1>7. \A f \in Flags : TokensOf(f)' = TokensOf(f)
  BY <1>1 DEF TokensOf, Positions
<1>8. QED
  BY <1>1, <1>3, <1>5, <1>6, <1>7 DEF CountInv, HasRoom, CanTake, Repeatable

(* The argument at the head takes a token, for which it has room, and is   *)
(* left when it is full.                                                   *)
LEMMA ArgumentCountInv ==
  ASSUME CountInv, TypeOK', HandleArgument
  PROVE  CountInv'
<1> DEFINE h == Head(local_arguments)
           p == positional[next]
<1>1. /\ TypeOK /\ phase = "arguments" /\ local_arguments # <<>> /\ args' = args
      /\ phase' \in {"arguments", "done"}
  BY DEF CountInv, HandleArgument, AtArgument, Fail
<1>2. local_arguments \in Seq(Arguments) /\ occurrences \in [Flags -> Nat]
  BY <1>1 DEF TypeOK
<1>3. /\ 1 \in DOMAIN local_arguments /\ h = local_arguments[1] /\ h \in Arguments
      /\ Tail(local_arguments) \in Seq(Arguments)
      /\ \A i \in DOMAIN Tail(local_arguments) :
           /\ i + 1 \in DOMAIN local_arguments /\ i + 1 # 1
           /\ Tail(local_arguments)[i] = local_arguments[i + 1]
  BY <1>1, <1>2
<1>4. Arguments \subseteq Flags /\ h \notin Options
  BY <1>3, AppAssumption DEF Flags
<1>5. p \in Positions \cup {Message}
  <2>1. positional \in Seq(Positions \cup {Message})
    BY <1>1 DEF TypeOK
  <2>2. QED
    BY <2>1 DEF HandleArgument, AtArgument
<1>6. /\ occurrences' = Counted(h)
      /\ local_arguments' = IF Full(h) THEN Tail(local_arguments) ELSE local_arguments
      /\ fate' = Marked(p, "positional", h)
  BY DEF HandleArgument
<1>7. /\ \A f \in Flags : flag[f].max_count # Unbound => occurrences[f] <= flag[f].max_count
      /\ \A i, j \in DOMAIN local_arguments :
           local_arguments[i] = local_arguments[j] => i = j
      /\ \A i \in DOMAIN local_arguments :
           CanTake(local_arguments[i]) => HasRoom(local_arguments[i])
  BY <1>1 DEF CountInv
<1>8. /\ \A f \in Flags : flag[f].max_count # Unbound => occurrences'[f] <= flag[f].max_count
      /\ \A g \in Flags : g # h => occurrences'[g] = occurrences[g]
  BY <1>1, <1>3, <1>4, <1>6, <1>7, CountedBound
<1>9. CanTake(h) => occurrences'[h] = occurrences[h] + 1
  <2>1. CanTake(h) => MayOccur(h)
    BY <1>3, <1>7 DEF MayOccur, HasRoom
  <2>2. ~Repeatable(h)
    BY <1>4 DEF Repeatable
  <2>3. CanTake(h) => occurrences' = [occurrences EXCEPT ![h] = @ + 1]
    BY <1>6, <2>1, <2>2 DEF Counted
  <2>4. QED
    BY <1>2, <1>3, <1>4, <2>3
<1>10. ASSUME NEW f \in Flags, Limited(f)
       PROVE  Cardinality(TokensOf(f)') <= occurrences'[f]
  <2>1. /\ TokensOf(f)' \subseteq TokensOf(f) \cup {p}
        /\ f # h => TokensOf(f)' \subseteq TokensOf(f)
    <3>1. "positional" \in Roles /\ h \in Flags \cup {Nil}
      BY <1>3, <1>4 DEF Roles
    <3>2. QED
      BY <1>1, <1>5, <1>6, <3>1, MarkedTokens
  <2>2. CASE f = h
    <3>1. CountMade(f, p)
      BY <1>3, <1>9, <1>10, <2>1, <2>2 DEF CountMade, Limited
    <3>2. QED
      BY <1>10, <3>1, CountsFollow
  <2>3. CASE f # h
    <3>1. CountKept(f)
      BY <1>8, <2>1, <2>3 DEF CountKept
    <3>2. QED
      BY <1>10, <3>1, CountsFollow
  <2>4. QED
    BY <2>2, <2>3
<1>11. \A i, j \in DOMAIN local_arguments' : local_arguments'[i] = local_arguments'[j] => i = j
  <2>1. CASE Full(h)
    <3>1. local_arguments' = Tail(local_arguments)
      BY <1>6, <2>1
    <3>2. \A i \in DOMAIN Tail(local_arguments) : i \in Nat
      BY <1>3
    <3>3. QED
      BY <1>3, <1>7, <3>1, <3>2
  <2>2. CASE ~Full(h)
    BY <1>6, <1>7, <2>2
  <2>3. QED
    BY <2>1, <2>2
<1>12. ASSUME NEW i \in DOMAIN local_arguments', CanTake(local_arguments'[i])
       PROVE  \/ flag[local_arguments'[i]].max_count = Unbound
              \/ occurrences'[local_arguments'[i]] < flag[local_arguments'[i]].max_count
  <2> DEFINE a == local_arguments'[i]
  <2>1. a # h \/ ~Full(h)
    BY <1>3, <1>6, <1>7
  <2>2. \E k \in DOMAIN local_arguments : a = local_arguments[k]
    BY <1>3, <1>6
  <2>3. a \in Arguments /\ a \in Flags /\ HasRoom(a)
    BY <1>2, <1>4, <1>7, <1>12, <2>2
  <2>4. CASE a # h
    BY <1>8, <2>3, <2>4 DEF HasRoom
  <2>5. CASE a = h
    <3>1. occurrences'[h] = occurrences[h] + 1 /\ occurrences[h] \in Nat
      BY <1>2, <1>4, <1>9, <1>12, <2>3, <2>5
    <3>2. occurrences'[h] # flag[h].max_count
      BY <1>6, <2>1, <2>5, <3>1 DEF Full
    <3>3. flag[h].max_count \in Nat \cup {Unbound}
      BY <2>3, <2>5, FlagType
    <3>4. QED
      BY <2>3, <2>5, <3>1, <3>2, <3>3 DEF HasRoom
  <2>6. QED
    BY <2>4, <2>5
<1>13. \A f \in Flags :
         ~Repeatable(f) /\ (f \in Arguments => CanTake(f)) =>
           Cardinality(TokensOf(f)') <= occurrences'[f]
  BY <1>10 DEF Limited
<1>14. QED
  BY <1>1, <1>8, <1>11, <1>12, <1>13 DEF CountInv, CanTake, HasRoom, Repeatable

LEMMA CountInvStep == CountInv /\ TypeOK' /\ [Next]_vars => CountInv'
<1>1. ASSUME CountInv, TypeOK', Next PROVE CountInv'
  BY <1>1, VisitCountInv, LoopCountInv, ArgumentCountInv, LateCountInv DEF Next
<1>2. ASSUME CountInv, TypeOK', UNCHANGED vars PROVE CountInv'
  BY <1>2 DEF CountInv, TokensOf, Positions, CanTake, HasRoom, vars
<1>3. QED
  BY <1>1, <1>2

---------------------------------------------------------------------------
(* A parse is a reading of its line: CliParser implements TokenFlow.       *)

RoleOf  == [i \in Positions |-> fate[i].role]
Verdict == IF phase # "done" THEN "running" ELSE IF err = "none" THEN "ok" ELSE "error"

NoneRefused == \A i \in Positions : fate[i].role # "refused"

(* Besides LineInv: an error ends the parse, options and commands come     *)
(* before everything else, an option is refused only when its message is   *)
(* in hand, what handle_arguments goes over are positional tokens, and the *)
(* roles form a sentence.                                                  *)
FlowInv ==
  /\ LineInv
  /\ phase # "done" => err = "none"
  /\ phase \in {"visit", "loop"} =>
       \A i \in Positions : fate[i].role \notin {"separator", "positional"}
  /\ phase = "visit" \/ (phase = "loop" /\ arg # Message) => NoneRefused
  /\ \A k \in DOMAIN positional :
       positional[k] # Message => fate[positional[k]].role = "positional"
  /\ Flow!WellFormed(RoleOf)

LEMMA MarkedRoles ==
  ASSUME TypeOK, NEW p \in Positions \cup {Message}, NEW role, NEW f,
         args' = args, fate' = Marked(p, role, f)
  PROVE  \A i \in Positions : fate'[i].role = IF i = p THEN role ELSE fate[i].role
<1>1. fate \in [Positions -> [role : Roles, flag : Flags \cup {Nil}]]
  BY DEF TypeOK
<1>2. p = Message => p \notin Positions
  BY ArgsType DEF Positions, Message
<1>. QED  BY <1>1, <1>2 DEF Marked

(* The token in hand is given a role, and the one behind it becomes the    *)
(* value of an option: the sentence goes on by one token.                  *)
LEMMA SentenceGoesOn ==
  ASSUME FlowInv, args' = args, phase \in {"loop", "eat"}, arg \in Positions,
         NEW r \in Roles \ {"unread", "value"}, NEW valued \in BOOLEAN,
         valued => r = "option" /\ arg + 1 \in Positions,
         phase = "eat" => r \in {"separator", "positional"},
         \A i \in Positions :
           fate'[i].role = IF i = arg THEN r
                           ELSE IF valued /\ i = arg + 1 THEN "value" ELSE fate[i].role
  PROVE  /\ Flow!WellFormed(RoleOf') /\ Flow!Kept(RoleOf, RoleOf')
         /\ Flow!OneMore(RoleOf, RoleOf')
<1> DEFINE s == RoleOf'
<1>1. TypeOK /\ ReadInOrder /\ LineInv
  BY DEF FlowInv, LineInv
<1>2. Positions = 1 .. Len(args) /\ Len(args) \in Nat /\ Positions' = Positions
  BY <1>1, ArgsType DEF Positions
<1>3. /\ DOMAIN RoleOf = Positions /\ DOMAIN s = Positions
      /\ \A i \in Positions : RoleOf[i] = fate[i].role
      /\ \A i \in Positions : s[i] = IF i = arg THEN r
                                    ELSE IF valued /\ i = arg + 1 THEN "value" ELSE RoleOf[i]
  BY <1>2 DEF RoleOf
<1>4. arg \in Nat /\ arg # Done /\ arg = arg_index
  BY <1>1, <1>2 DEF Done, ReadInOrder
<1>5. \A i \in Positions : RoleOf[i] # "unread" <=> i < arg
  <2>1. \A i \in Positions : Read(i) <=> i <= arg_index /\ i # arg
    BY <1>1, <1>2, <1>4 DEF ReadInOrder
  <2>. QED  BY <1>2, <1>3, <1>4, <2>1 DEF Read
<1>6. \A i \in Positions : s[i] # "unread" <=> i <= arg \/ (valued /\ i = arg + 1)
  BY <1>2, <1>3, <1>4, <1>5
<1>7. Flow!WellFormed(RoleOf)
  BY DEF FlowInv
<1>8. phase = "loop" =>
        \A i \in Positions : RoleOf[i] \notin {"refused", "separator", "positional"}
  <2>1. arg # Message
    BY <1>4 DEF Message
  <2>. QED  BY <1>3, <2>1 DEF FlowInv, NoneRefused
<1> HIDE DEF s
<1>9. \A i \in Positions : s[i] = "value" => i > 1 /\ s[i - 1] = "option"
  <2> SUFFICES ASSUME NEW i \in Positions, s[i] = "value" PROVE i > 1 /\ s[i - 1] = "option"
    OBVIOUS
  <2>1. CASE valued /\ i = arg + 1
    BY <1>2, <1>3, <1>4, <2>1
  <2>2. CASE ~(valued /\ i = arg + 1)
    <3>1. RoleOf[i] = "value" /\ i < arg
      BY <1>3, <1>5, <2>2
    <3>2. i > 1 /\ RoleOf[i - 1] = "option"
      BY <1>3, <1>7, <3>1 DEF Flow!WellFormed
    <3>. QED  BY <1>2, <1>3, <1>4, <3>1, <3>2
  <2>. QED  BY <2>1, <2>2
<1>10. ASSUME NEW i \in Positions, NEW j \in Positions, i < j
       PROVE  /\ s[i] = "unread" => s[j] = "unread"
              /\ s[i] \in {"refused", "positional", "separator"} =>
                   s[j] \in {"positional", "separator", "unread"}
  <2>1. s[i] = "unread" => s[j] = "unread"
    BY <1>2, <1>4, <1>6, <1>10
  <2>2. ASSUME s[i] \in {"refused", "positional", "separator"}
        PROVE  s[j] \in {"positional", "separator", "unread"}
    <3>1. i <= arg /\ (i = arg => ~valued)
      BY <1>2, <1>3, <1>4, <1>6, <2>2
    <3>2. CASE phase = "loop"
      <4>1. i = arg
        BY <1>3, <1>8, <2>2, <3>1, <3>2
      <4>. QED  BY <1>2, <1>4, <1>6, <1>10, <3>1, <4>1
    <3>3. CASE phase = "eat"
      <4>1. ~valued
        BY <3>3
      <4>2. CASE j = arg
        BY <1>3, <3>3, <4>2
      <4>3. CASE j # arg
        <5>1. s[i] = RoleOf[i] \/ i = arg
          BY <1>3, <4>1
        <5>2. s[j] = RoleOf[j]
          BY <1>3, <4>1, <4>3
        <5>3. CASE i = arg
          BY <1>2, <1>4, <1>6, <1>10, <4>1, <5>3
        <5>4. CASE i # arg
          BY <1>3, <1>7, <1>10, <2>2, <5>1, <5>2, <5>4 DEF Flow!WellFormed
        <5>. QED  BY <5>3, <5>4
      <4>. QED  BY <4>2, <4>3
    <3>. QED  BY <3>2, <3>3
  <2>. QED  BY <2>1, <2>2
<1>11. Flow!WellFormed(s)
  BY <1>3, <1>9, <1>10 DEF Flow!WellFormed
<1>12. Flow!Kept(RoleOf, s)
  <2>1. \A i \in Positions : RoleOf[i] # "unread" => s[i] = RoleOf[i]
    BY <1>2, <1>3, <1>4, <1>5
  <2>. QED  BY <1>3, <2>1 DEF Flow!Kept
<1>13. Flow!OneMore(RoleOf, s)
  <2>1. s[arg] = r /\ (valued => s[arg + 1] = "value" /\ s[arg] = "option")
    BY <1>2, <1>3, <1>4
  <2>2. \A j \in Positions :
          RoleOf[j] = "unread" /\ s[j] # "unread" <=> j = arg \/ (valued /\ j = arg + 1)
    BY <1>2, <1>4, <1>5, <1>6
  <2>3. ~valued => \A j \in Positions : j = arg + 1 => s[j] # "value"
    BY <1>2, <1>3, <1>4, <1>5
  <2>4. \A j \in Positions :
          RoleOf[j] = "unread" /\ s[j] # "unread"
            <=> j = arg \/ (j = arg + 1 /\ s[arg] = "option" /\ s[j] = "value")
    BY <2>1, <2>2, <2>3
  <2>. QED  BY <1>3, <2>4 DEF Flow!OneMore
<1>. QED  BY <1>11, <1>12, <1>13 DEF s

(* What each step does to the roles and to the verdict.                    *)
LEMMA TokenRead ==
  ASSUME FlowInv, LineInv', UNCHANGED args, phase \in {"loop", "eat"}, arg \in Positions,
         NEW r \in Roles \ {"unread", "value"}, NEW valued \in BOOLEAN,
         valued => r = "option" /\ arg + 1 \in Positions,
         phase = "eat" => r \in {"separator", "positional"},
         \A i \in Positions :
           fate'[i].role = IF i = arg THEN r
                           ELSE IF valued /\ i = arg + 1 THEN "value" ELSE fate[i].role,
         Verdict' \in {"running", "error"}
  PROVE  Flow!Next /\ Flow!WellFormed(RoleOf')
<1>1. /\ Flow!WellFormed(RoleOf') /\ Flow!Kept(RoleOf, RoleOf')
      /\ Flow!OneMore(RoleOf, RoleOf')
  BY SentenceGoesOn
<1>2. TypeOK'
  BY DEF LineInv
<1>3. RoleOf' \in [1 .. Len(args) -> Flow!Role \cup {"unread"}]
  BY <1>2 DEF TypeOK, RoleOf, Positions, Roles, Flow!Role
<1>4. Verdict = "running"
  BY DEF Verdict
<1>5. Flow!Read
  BY <1>1, <1>3, <1>4 DEF Flow!Read, RoleOf, Verdict
<1>. QED  BY <1>1, <1>5 DEF Flow!Next

LEMMA NothingRead ==
  ASSUME FlowInv, UNCHANGED args, phase # "done",
         \A i \in Positions : fate'[i].role = fate[i].role,
         Verdict' \in {"running", "error"}
  PROVE  /\ Flow!Next \/ UNCHANGED <<Len(args), RoleOf, Verdict>>
         /\ Flow!WellFormed(RoleOf')
<1>1. RoleOf' = RoleOf
  BY DEF RoleOf, Positions
<1>2. Verdict = "running"
  BY DEF Verdict
<1>3. Flow!WellFormed(RoleOf')
  BY <1>1 DEF FlowInv
<1>4. Verdict' = "error" => Flow!Fail
  BY <1>1, <1>2 DEF Flow!Fail, RoleOf, Verdict
<1>. QED  BY <1>1, <1>2, <1>3, <1>4 DEF Flow!Next

(* The rest of FlowInv, while tokens are handed out.                       *)
LEMMA HandingOut ==
  ASSUME FlowInv, LineInv', UNCHANGED args, Flow!WellFormed(RoleOf'),
         phase' # "done" => err' = err, phase # "done",
         phase' \in {"visit", "loop"} =>
           \A i \in Positions : fate'[i].role \notin {"separator", "positional"},
         phase' = "visit" \/ (phase' = "loop" /\ arg' # Message) => NoneRefused',
         \A i \in Positions : fate[i].role = "positional" => fate'[i].role = "positional",
         UNCHANGED positional
  PROVE  FlowInv'
<1>1. TypeOK
  BY DEF FlowInv, LineInv
<1>2. positional \in Seq(Positions \cup {Message})
  BY <1>1 DEF TypeOK
<1>3. \A k \in DOMAIN positional : positional[k] \in Positions \cup {Message}
  BY <1>2
<1>4. \A k \in DOMAIN positional :
        positional[k] # Message => fate'[positional[k]].role = "positional"
  BY <1>3 DEF FlowInv
<1>. QED  BY <1>4 DEF FlowInv, Positions

LEMMA ReadingFlow ==
  ASSUME FlowInv, LineInv', Visit \/ EndOfArgs \/ Separator \/ Eat \/ StartEating
  PROVE  FlowInv' /\ (Flow!Next \/ UNCHANGED <<Len(args), RoleOf, Verdict>>)
<1>1. TypeOK /\ LineInv
  BY DEF FlowInv, LineInv
<1>2. CASE Visit \/ EndOfArgs \/ StartEating
  <2>1. /\ UNCHANGED <<args, fate, err>> /\ phase # "done" /\ phase' # "done"
        /\ phase' \in {"visit", "loop"} => phase = "visit"
        /\ positional' = positional \/ positional' = <<>>
    BY <1>2 DEF Visit, EndOfArgs, StartEating, AtWord, InLoop
  <2> phase' \in {"visit", "loop"} => NoneRefused'
    BY <2>1 DEF FlowInv, NoneRefused, Positions
  <2>2. Verdict' = "running"
    BY <2>1 DEF Verdict
  <2>3. /\ Flow!WellFormed(RoleOf')
        /\ Flow!Next \/ UNCHANGED <<Len(args), RoleOf, Verdict>>
    BY <2>1, <2>2, NothingRead
  <2>4. CASE positional' = positional
    BY <2>1, <2>3, <2>4, HandingOut DEF FlowInv
  <2>5. CASE positional' = <<>>
    BY <2>1, <2>3, <2>5 DEF FlowInv, Positions, NoneRefused
  <2>. QED  BY <2>1, <2>3, <2>4, <2>5
<1>3. CASE Separator \/ Eat
  <2>1. PICK r \in {"separator", "positional"} :
          /\ fate' = Marked(arg, r, Nil)
          /\ positional' = positional \/ (r = "positional" /\ positional' = Append(positional, arg))
    BY <1>3 DEF Separator, Eat
  <2>2. /\ UNCHANGED <<args, err>> /\ phase \in {"loop", "eat"} /\ phase' = "eat" /\ arg # Done
    BY <1>3 DEF Separator, Eat, InLoop
  <2>3. arg \in Positions \cup {Message}
    BY <1>1, <2>2 DEF TypeOK
  <2>4. \A i \in Positions : fate'[i].role = IF i = arg THEN r ELSE fate[i].role
    BY <1>1, <2>1, <2>2, <2>3, MarkedRoles
  <2>5. Verdict' = "running"
    BY <2>2 DEF Verdict
  <2>6. /\ Flow!WellFormed(RoleOf')
        /\ Flow!Next \/ UNCHANGED <<Len(args), RoleOf, Verdict>>
    <3>1. CASE arg \in Positions
      <4>1. r \in Roles \ {"unread", "value"}
        BY DEF Roles
      <4>2. \A i \in Positions :
              fate'[i].role = IF i = arg THEN r
                              ELSE IF FALSE /\ i = arg + 1 THEN "value" ELSE fate[i].role
        BY <2>4
      <4>. QED  BY <2>2, <2>5, <3>1, <4>1, <4>2, TokenRead
    <3>2. CASE arg \notin Positions
      BY <2>2, <2>4, <2>5, <3>2, NothingRead
    <3>. QED  BY <3>1, <3>2
  <2>7. /\ \A i \in Positions : fate[i].role = "positional" => i # arg
        /\ r = "positional" /\ arg \in Positions => fate'[arg].role = "positional"
    <3>1. ReadInOrder
      BY <1>1 DEF LineInv
    <3>2. arg \in Positions => arg = arg_index /\ arg \in 1 .. arg_index
      BY <1>1, <2>2, <3>1, ArgsType DEF ReadInOrder, Positions
    <3>3. arg \in Positions => ~Read(arg)
      BY <2>2, <3>1, <3>2 DEF ReadInOrder
    <3>. QED  BY <2>4, <3>3 DEF Read
  <2>8. positional \in Seq(Positions \cup {Message})
    BY <1>1 DEF TypeOK
  <2>9. \A k \in DOMAIN positional :
          /\ positional[k] \in Positions \cup {Message}
          /\ positional[k] # Message => fate'[positional[k]].role = "positional"
    <3>1. \A k \in DOMAIN positional : positional[k] \in Positions \cup {Message}
      BY <2>8
    <3>. QED  BY <2>4, <2>7, <3>1 DEF FlowInv
  <2>10. \A k \in DOMAIN positional' :
           positional'[k] # Message => fate'[positional'[k]].role = "positional"
    <3>1. CASE positional' = positional
      BY <2>9, <3>1
    <3>2. CASE r = "positional" /\ positional' = Append(positional, arg)
      <4>1. \A k \in DOMAIN positional' :
              (k \in DOMAIN positional /\ positional'[k] = positional[k]) \/ positional'[k] = arg
        BY <2>8, <3>2
      <4>. QED  BY <2>3, <2>7, <2>9, <3>2, <4>1
    <3>. QED  BY <2>1, <3>1, <3>2
  <2>. QED  BY <2>2, <2>6, <2>10 DEF FlowInv
<1>. QED  BY <1>2, <1>3

LEMMA OptionFlow ==
  ASSUME FlowInv, LineInv', RejectOption \/ AppearedTooManyTimes \/ MissingValue \/ ApplyOption
  PROVE  FlowInv' /\ (Flow!Next \/ UNCHANGED <<Len(args), RoleOf, Verdict>>)
<1>1. TypeOK /\ LineInv /\ ReadInOrder
  BY DEF FlowInv, LineInv
<1>2. /\ UNCHANGED <<args, positional>> /\ phase = "loop" /\ arg # Done
      /\ phase' = "loop" \/ phase' = "done"
  BY ApplyOptionIs DEF RejectOption, AppearedTooManyTimes, MissingValue, ApplyTo, OptionAccepted,
         AtOption, InLoop, Fail
<1>3. arg \in Positions \cup {Message}
  BY <1>1, <1>2 DEF TypeOK
<1>4. arg \in Positions
  <2>1. arg # Message
    BY ApplyOptionIs DEF RejectOption, AppearedTooManyTimes, MissingValue, ApplyTo, OptionAccepted,
           AtOption, IsOption, Token, OptionForms
  <2>. QED  BY <1>3, <2>1
<1>5. \A i \in Positions : fate[i].role \notin {"separator", "positional"}
  BY <1>2 DEF FlowInv
<1>6. CASE RejectOption
  <2>1. UNCHANGED fate /\ phase' = "done" /\ err' # "none"
    BY <1>6 DEF RejectOption, Fail
  <2>2. Verdict' = "error"
    BY <2>1 DEF Verdict
  <2>3. Flow!WellFormed(RoleOf') /\ (Flow!Next \/ UNCHANGED <<Len(args), RoleOf, Verdict>>)
    BY <1>2, <2>1, <2>2, NothingRead
  <2>. QED  BY <1>2, <2>1, <2>3, HandingOut
<1>7. CASE AppearedTooManyTimes \/ MissingValue \/ ApplyOption
  <2> DEFINE valued == ApplyOption /\ TakesNextToken(Found)
  <2>1. /\ Verdict' \in {"running", "error"}
        /\ phase' # "done" => err' = err
    <3>1. CASE AppearedTooManyTimes
      BY <1>2, <3>1 DEF AppearedTooManyTimes, Verdict
    <3>2. CASE MissingValue
      BY <3>2 DEF MissingValue, Fail, Verdict
    <3>3. CASE ApplyOption
      <4>1. \/ \E e : e # "none" /\ Fail(e)
            \/ UNCHANGED <<phase, err>>
        BY <3>3, ApplyOptionIs DEF ApplyTo
      <4>. QED  BY <1>2, <4>1 DEF Fail, Verdict
    <3>. QED  BY <1>7, <3>1, <3>2, <3>3
  <2>2. arg = arg_index
    BY <1>1, <1>2, <1>4 DEF ReadInOrder
  <2>3. valued => NextRead(arg_index) = arg + 1 /\ arg + 1 \in Positions
    <3>1. valued => NextArg(arg_index) # Done
      BY ApplyOptionIs DEF ApplyTo
    <3>2. Len(args) \in Nat /\ arg_index \in 0 .. Len(args) /\ Positions = 1 .. Len(args)
      BY <1>1, ArgsType DEF TypeOK, Positions
    <3>. QED  BY <2>2, <3>1, <3>2 DEF NextArg, NextRead
  <2> DEFINE r == IF AppearedTooManyTimes THEN "refused" ELSE "option"
  <2>4. \A i \in Positions :
          fate'[i].role = IF i = arg THEN r
                          ELSE IF valued /\ i = arg + 1 THEN "value" ELSE fate[i].role
    <3> DEFINE marked == Marked(arg, r, Found)
    <3>1. Found \in Flags \cup {Nil}
      BY <1>1, FoundType DEF Found, Flags
    <3>2. marked \in [Positions -> [role : Roles, flag : Flags \cup {Nil}]]
      BY <1>1, <1>3, <3>1, MarkedType DEF Roles
    <3>3. \A i \in Positions : marked[i].role = IF i = arg THEN r ELSE fate[i].role
      <4>1. fate \in [Positions -> [role : Roles, flag : Flags \cup {Nil}]]
        BY <1>1 DEF TypeOK
      <4>2. arg # Message
        BY <1>1, <1>4, ArgsType DEF Positions, Message
      <4>. QED  BY <1>4, <4>1, <4>2 DEF Marked
    <3>4. CASE ~valued
      <4>1. fate' = marked
        BY <1>7, <3>4, ApplyOptionIs DEF AppearedTooManyTimes, MissingValue, ApplyTo
      <4>. QED  BY <3>3, <3>4, <4>1
    <3>5. CASE valued
      <4>1. fate' = [marked EXCEPT ![NextRead(arg_index)] = [role |-> "value", flag |-> Found]]
        BY <3>5, ApplyOptionIs DEF ApplyTo, AppearedTooManyTimes
      <4>2. fate' = [marked EXCEPT ![arg + 1] = [role |-> "value", flag |-> Found]]
        BY <2>3, <3>5, <4>1
      <4>3. \A i \in Positions :
              fate'[i] = IF i = arg + 1 THEN [role |-> "value", flag |-> Found] ELSE marked[i]
        BY <3>2, <4>2
      <4>4. arg # arg + 1
        BY <1>1, <1>4, ArgsType DEF Positions
      <4>. QED  BY <3>3, <3>5, <4>3, <4>4
    <3>. QED  BY <3>4, <3>5
  <2> valued \in BOOLEAN
    OBVIOUS
  <2> HIDE DEF valued
  <2>5. r \in Roles \ {"unread", "value"} /\ (valued => r = "option")
    BY ApplyOptionIs DEF Roles, valued, AppearedTooManyTimes, ApplyTo
  <2>6. Flow!Next /\ Flow!WellFormed(RoleOf')
    BY <1>2, <1>4, <2>1, <2>3, <2>4, <2>5, TokenRead
  <2>7. \A i \in Positions : fate'[i].role \notin {"separator", "positional"}
    BY <1>5, <2>4
  <2>8. \A i \in Positions : fate[i].role = "positional" => fate'[i].role = "positional"
    BY <1>5
  <2>9. phase' = "visit" \/ (phase' = "loop" /\ arg' # Message) => NoneRefused'
    <3>1. arg' # Message => r = "option"
      BY DEF AppearedTooManyTimes
    <3>2. NoneRefused
      BY <1>1, <1>2, <1>4, ArgsType DEF FlowInv, Positions, Message
    <3>. QED  BY <1>2, <2>4, <3>1, <3>2 DEF NoneRefused, Positions
  <2>. QED  BY <1>2, <2>1, <2>6, <2>7, <2>8, <2>9, HandingOut
<1>. QED  BY <1>6, <1>7

(* No command is called by the text of a message.                          *)
LEMMA MessageUncalled ==
  ASSUME TypeOK, FindCommand(Token(arg).name) # Nil
  PROVE  arg # Message
<1> SUFFICES ASSUME arg = Message PROVE FALSE
  OBVIOUS
<1>1. Token(arg).name = Garbled
  BY DEF Token
<1>2. commands[cmd] \in Seq(Commands)
  BY AppAssumption DEF TypeOK
<1>3. \A i \in DOMAIN commands[cmd] : Garbled \notin called[commands[cmd][i]]
  BY <1>2, AppAssumption, NameAssumption
<1>. QED  BY <1>1, <1>3 DEF FindCommand, FirstOf

LEMMA CommandFlow ==
  ASSUME FlowInv, LineInv', EnterCommand \/ UnknownCommand
  PROVE  FlowInv' /\ (Flow!Next \/ UNCHANGED <<Len(args), RoleOf, Verdict>>)
<1>1. TypeOK /\ LineInv
  BY DEF FlowInv, LineInv
<1>2. /\ UNCHANGED <<args, positional>> /\ phase = "loop" /\ arg # Done
  BY DEF EnterCommand, UnknownCommand, AtWord, InLoop
<1>3. arg \in Positions \cup {Message}
  BY <1>1, <1>2 DEF TypeOK
<1>4. \A i \in Positions : fate[i].role \notin {"separator", "positional"}
  BY <1>2 DEF FlowInv
<1> EnterCommand => arg # Message
  BY <1>1, MessageUncalled DEF EnterCommand
<1>5. CASE UnknownCommand
  <2>1. UNCHANGED fate /\ phase' = "done" /\ err' # "none"
    BY <1>5 DEF UnknownCommand, Fail
  <2>2. Verdict' = "error"
    BY <2>1 DEF Verdict
  <2>3. Flow!WellFormed(RoleOf') /\ (Flow!Next \/ UNCHANGED <<Len(args), RoleOf, Verdict>>)
    BY <1>2, <2>1, <2>2, NothingRead
  <2>. QED  BY <1>2, <2>1, <2>3, HandingOut
<1>6. CASE EnterCommand
  <2>1. fate' = Marked(arg, "command", Nil) /\ phase' = "visit" /\ err' = err
    BY <1>6 DEF EnterCommand
  <2>2. \A i \in Positions : fate'[i].role = IF i = arg THEN "command" ELSE fate[i].role
    BY <1>1, <1>2, <1>3, <2>1, MarkedRoles
  <2>3. Verdict' = "running"
    BY <2>1 DEF Verdict
  <2>4. /\ Flow!WellFormed(RoleOf')
        /\ Flow!Next \/ UNCHANGED <<Len(args), RoleOf, Verdict>>
    <3>1. CASE arg \in Positions
      <4>1. "command" \in Roles \ {"unread", "value"}
        BY DEF Roles
      <4>2. \A i \in Positions :
              fate'[i].role = IF i = arg THEN "command"
                              ELSE IF FALSE /\ i = arg + 1 THEN "value" ELSE fate[i].role
        BY <2>2
      <4>. QED  BY <1>2, <2>3, <3>1, <4>1, <4>2, TokenRead
    <3>2. CASE arg \notin Positions
      BY <1>2, <2>2, <2>3, <3>2, NothingRead
    <3>. QED  BY <3>1, <3>2
  <2>5. \A i \in Positions : fate'[i].role \notin {"separator", "positional"}
    BY <1>4, <2>2
  <2>6. NoneRefused'
    BY <1>2, <1>6, <2>2 DEF FlowInv, NoneRefused, Positions
  <2>. QED  BY <1>2, <1>4, <2>1, <2>4, <2>5, <2>6, HandingOut
<1>. QED  BY <1>5, <1>6

(* handle_arguments gives a flag to tokens that are positional already,    *)
(* and a parse succeeds when the line is used up.                          *)
LEMMA LateFlow ==
  ASSUME FlowInv, LineInv',
         \/ HandleArgument \/ LeaveUnparsed \/ EndOfArguments
         \/ CheckPassed \/ ApplyDefault \/ MissingRequired \/ Succeed
  PROVE  FlowInv' /\ (Flow!Next \/ UNCHANGED <<Len(args), RoleOf, Verdict>>)
<1>1. TypeOK /\ LineInv /\ ReadInOrder
  BY DEF FlowInv, LineInv
<1>2. /\ UNCHANGED <<args, positional>> /\ phase \in {"arguments", "check"}
      /\ phase' \notin {"visit", "loop"}
  BY DEF HandleArgument, LeaveUnparsed, EndOfArguments, CheckPassed, ApplyDefault,
         MissingRequired, Succeed, AtArgument, AtCheck, Fail
<1>3. \A i \in Positions : fate'[i].role = fate[i].role
  <2>1. CASE HandleArgument
    <3> DEFINE p == positional[next]
    <3>1. positional \in Seq(Positions \cup {Message})
      BY <1>1 DEF TypeOK
    <3>2. next \in DOMAIN positional /\ fate' = Marked(p, "positional", Head(local_arguments))
      BY <2>1 DEF HandleArgument, AtArgument
    <3>3. p \in Positions \cup {Message} /\ (p # Message => fate[p].role = "positional")
      BY <3>1, <3>2 DEF FlowInv
    <3>4. \A i \in Positions : fate'[i].role = IF i = p THEN "positional" ELSE fate[i].role
      BY <1>1, <1>2, <3>2, <3>3, MarkedRoles
    <3>5. Message \notin Positions
      BY <1>1, ArgsType DEF Positions, Message
    <3>. QED  BY <3>3, <3>4, <3>5
  <2>2. CASE ~HandleArgument
    BY <2>2 DEF LeaveUnparsed, EndOfArguments, CheckPassed, ApplyDefault, MissingRequired, Succeed
  <2>. QED  BY <2>1, <2>2
<1>4. phase' # "done" => err' = err
  <2>1. CASE HandleArgument
    <3>1. \/ \E e : e # "none" /\ Fail(e)
          \/ UNCHANGED <<phase, err>>
      BY <2>1 DEF HandleArgument
    <3>. QED  BY <3>1 DEF Fail
  <2>. QED  BY <2>1 DEF LeaveUnparsed, EndOfArguments, CheckPassed, ApplyDefault,
                        MissingRequired, Succeed, Fail
<1>5. RoleOf' = RoleOf /\ Flow!WellFormed(RoleOf')
  <2>1. RoleOf' = RoleOf
    BY <1>2, <1>3 DEF RoleOf, Positions
  <2>. QED  BY <2>1 DEF FlowInv
<1>6. FlowInv'
  <2>1. \A i \in Positions : fate[i].role = "positional" => fate'[i].role = "positional"
    BY <1>3
  <2>. QED  BY <1>2, <1>4, <1>5, <2>1, HandingOut
<1>7. CASE Succeed
  <2>1. phase = "check" /\ phase' = "done" /\ err' = err /\ err = "none"
    BY <1>7 DEF Succeed, FlowInv
  <2>2. \A i \in Positions : RoleOf[i] # "unread"
    BY <1>1, <2>1 DEF ReadInOrder, Read, RoleOf
  <2>3. Flow!Finish
    BY <1>2, <1>5, <2>1, <2>2 DEF Flow!Finish, RoleOf, Verdict, Positions
  <2>. QED  BY <1>6, <2>3 DEF Flow!Next
<1>8. CASE ~Succeed
  <2>1. \/ UNCHANGED <<phase, err>>
        \/ phase' # "done"
        \/ \E e : e # "none" /\ Fail(e)
    <3>1. CASE HandleArgument
      BY <3>1 DEF HandleArgument
    <3>2. CASE ~HandleArgument
      BY <1>8, <3>2 DEF LeaveUnparsed, EndOfArguments, CheckPassed, ApplyDefault, MissingRequired
    <3>. QED  BY <3>1, <3>2
  <2>2. Verdict' \in {"running", "error"}
    BY <1>2, <2>1 DEF Verdict, Fail
  <2>. QED  BY <1>2, <1>3, <1>6, <2>2, NothingRead
<1>. QED  BY <1>7, <1>8

LEMMA FlowInit == Init => FlowInv /\ Flow!Init
<1> SUFFICES ASSUME Init PROVE FlowInv /\ Flow!Init
  OBVIOUS
<1>1. LineInv /\ TypeOK
  BY InitLineInv DEF LineInv
<1>2. Len(args) \in Nat /\ Positions = 1 .. Len(args)
  BY <1>1, ArgsType DEF Positions
<1>3. /\ RoleOf = [i \in 1 .. Len(args) |-> "unread"] /\ Verdict = "running"
      /\ \A i \in Positions : fate[i].role = "unread"
      /\ positional = <<>> /\ err = "none"
  BY <1>2 DEF Init, RoleOf, Verdict
<1>4. Flow!WellFormed(RoleOf)
  BY <1>3 DEF Flow!WellFormed
<1>5. FlowInv
  BY <1>1, <1>3, <1>4 DEF FlowInv, NoneRefused
<1>6. Flow!Init
  BY <1>2, <1>3 DEF Flow!Init, RoleOf, Verdict
<1>. QED  BY <1>5, <1>6

LEMMA FlowInvStep ==
  FlowInv /\ TypeOK' /\ [Next]_vars
    => FlowInv' /\ [Flow!Next]_<<Len(args), RoleOf, Verdict>>
<1>1. ASSUME FlowInv, TypeOK', Next
      PROVE  FlowInv' /\ (Flow!Next \/ UNCHANGED <<Len(args), RoleOf, Verdict>>)
  <2>1. LineInv'
    BY <1>1, ReadingLineInv, OptionLineInv, CommandLineInv, LateLineInv DEF Next, FlowInv
  <2>. QED  BY <1>1, <2>1, ReadingFlow, OptionFlow, CommandFlow, LateFlow DEF Next
<1>2. ASSUME FlowInv, TypeOK', UNCHANGED vars
      PROVE  FlowInv' /\ UNCHANGED <<Len(args), RoleOf, Verdict>>
  <2>1. RoleOf' = RoleOf
    BY <1>2 DEF RoleOf, Positions, vars
  <2>2. LineInv'
    BY <1>2 DEF FlowInv, LineInv, ReadInOrder, Read, Succeeded, Positions, vars
  <2>3. Flow!WellFormed(RoleOf')
    BY <1>2, <2>1 DEF FlowInv
  <2>. QED  BY <1>2, <2>1, <2>2, <2>3 DEF FlowInv, NoneRefused, Positions, Verdict, vars
<1>. QED  BY <1>1, <1>2

(* CliParser implements TokenFlow: whatever the application and the line,  *)
(* the tokens are read once, from left to right, they form a sentence, and *)
(* parse succeeds only when it has read the whole line.                    *)
THEOREM LineRead == Spec => ReadsTheLine
<1>1. [Flow!Next]_<<Len(args), RoleOf, Verdict>>
        <=> [Flow!Next]_<<Len(args), [i \in Positions |-> fate[i].role],
              IF phase # "done" THEN "running" ELSE IF err = "none" THEN "ok" ELSE "error">>
  BY DEF RoleOf, Verdict
<1>. QED  BY FlowInit, FlowInvStep, <1>1, TypeCorrect, PTL DEF Spec, ReadsTheLine, Flow!Spec

---------------------------------------------------------------------------
(* The arguments of the command are filled in order.                       *)

Taken(i) == fate[i].role = "positional" /\ fate[i].flag # Nil

(* How many arguments of the command have been left behind.                *)
Left == Len(arguments[cmd]) - Len(local_arguments)

HasCommand == phase \in {"loop", "eat", "arguments", "check"} \/ Succeeded

(* Positional tokens are gathered from left to right and taken from left   *)
(* to right, by the arguments left behind, which are full, and the first   *)
(* of the others; nothing is left unparsed while there is one.             *)
OrderInv ==
  /\ FlowInv
  /\ phase \in {"visit", "loop", "eat"} => unparsed = <<>> /\ \A i \in Positions : ~Taken(i)
  /\ \A k, l \in DOMAIN positional :
       k < l /\ positional[k] # Message /\ positional[l] # Message => positional[k] < positional[l]
  /\ phase = "arguments" =>
       /\ \A i \in Positions : Taken(i) =>
            /\ \E k \in DOMAIN positional : k < next /\ positional[k] = i
            /\ \E m \in DOMAIN arguments[cmd] : m <= Left + 1 /\ arguments[cmd][m] = fate[i].flag
       /\ unparsed # <<>> => local_arguments = <<>>
  /\ HasCommand =>
       /\ Left >= 0
       /\ \A i \in DOMAIN local_arguments : local_arguments[i] = arguments[cmd][Left + i]
       /\ \A m \in 1 .. Left :
            occurrences[arguments[cmd][m]] = flag[arguments[cmd][m]].max_count
  /\ phase \in {"loop", "eat"} => Left = 0
  /\ FilledInOrder

LEMMA CmdArguments ==
  ASSUME TypeOK
  PROVE  /\ arguments[cmd] \in Seq(Arguments) /\ Len(arguments[cmd]) \in Nat
         /\ local_arguments \in Seq(Arguments) /\ Len(local_arguments) \in Nat
         /\ positional \in Seq(Positions \cup {Message})
         /\ unparsed \in Seq(Positions \cup {Message})
         /\ \A k \in DOMAIN positional : positional[k] \in Positions \cup {Message}
<1>1. cmd \in Commands /\ local_arguments \in Seq(Arguments)
  BY DEF TypeOK
<1>2. arguments[cmd] \in Seq(Arguments)
  BY <1>1, AppAssumption
<1>3. positional \in Seq(Positions \cup {Message}) /\ unparsed \in Seq(Positions \cup {Message})
  BY DEF TypeOK
<1>. QED  BY <1>1, <1>2, <1>3

LEMMA CountedElsewhere ==
  ASSUME TypeOK, NEW f \in Flags
  PROVE  \A g \in Flags : g # f => Counted(f)[g] = occurrences[g]
BY DEF TypeOK, Counted

(* No token has been taken: there is nothing to be in order yet.           *)
LEMMA NoneTaken ==
  ASSUME FlowInv', args' = args, unparsed' = <<>>, \A i \in Positions : ~Taken(i)',
         phase' \in {"visit", "loop", "eat", "arguments"} \/ (phase' = "done" /\ err' # "none"),
         (\A k, l \in DOMAIN positional :
            k < l /\ positional[k] # Message /\ positional[l] # Message
              => positional[k] < positional[l])',
         phase' \in {"loop", "eat", "arguments"} =>
           cmd' \in Commands /\ local_arguments' = arguments[cmd']
  PROVE  OrderInv'
<1>1. Positions' = Positions
  BY DEF Positions
<1>2. FilledInOrder'
  BY <1>1 DEF FilledInOrder, Taken
<1>3. phase' \in {"loop", "eat", "arguments"} => Left' = 0
  <2>1. phase' \in {"loop", "eat", "arguments"} => arguments[cmd'] \in Seq(Arguments)
    BY AppAssumption
  <2>. QED  BY <2>1 DEF Left
<1>4. HasCommand' => phase' \in {"loop", "eat", "arguments"}
  BY DEF HasCommand, Succeeded
<1>5. HasCommand' =>
        /\ Left' >= 0
        /\ \A i \in DOMAIN local_arguments' : local_arguments'[i] = arguments[cmd'][Left' + i]
        /\ \A m \in 1 .. Left' :
             occurrences'[arguments[cmd'][m]] = flag[arguments[cmd'][m]].max_count
  <2>1. phase' \in {"loop", "eat", "arguments"} =>
          \A i \in DOMAIN local_arguments' : i \in Nat
    <3>1. phase' \in {"loop", "eat", "arguments"} => local_arguments' \in Seq(Arguments)
      BY AppAssumption
    <3>. QED  BY <3>1
  <2>. QED  BY <1>3, <1>4, <2>1
<1>. QED  BY <1>1, <1>2, <1>3, <1>5 DEF OrderInv

LEMMA AllLeft ==
  ASSUME OrderInv, phase \in {"loop", "eat"}
  PROVE  cmd \in Commands /\ local_arguments = arguments[cmd]
<1>1. TypeOK
  BY DEF OrderInv, FlowInv, LineInv
<1>2. /\ Left = 0
      /\ \A i \in DOMAIN local_arguments : local_arguments[i] = arguments[cmd][Left + i]
  BY DEF OrderInv, HasCommand
<1>3. Len(local_arguments) = Len(arguments[cmd])
  BY <1>1, <1>2, CmdArguments DEF Left
<1>4. \A i \in DOMAIN local_arguments : local_arguments[i] = arguments[cmd][i]
  BY <1>1, <1>2, CmdArguments
<1>5. local_arguments = arguments[cmd]
  BY <1>1, <1>3, <1>4, CmdArguments, SeqEqual
<1>. QED  BY <1>1, <1>5 DEF TypeOK

LEMMA ReadingOrder ==
  ASSUME OrderInv, FlowInv', Visit \/ EndOfArgs \/ Separator \/ Eat \/ StartEating
  PROVE  OrderInv'
<1>1. TypeOK /\ LineInv /\ ReadInOrder
  BY DEF OrderInv, FlowInv, LineInv
<1>2. /\ args' = args /\ cmd' = cmd /\ unparsed' = unparsed
      /\ phase \in {"visit", "loop", "eat"}
      /\ phase' \in {"loop", "eat", "arguments"}
  BY DEF Visit, EndOfArgs, Separator, Eat, StartEating, AtWord, InLoop
<1>3. unparsed' = <<>> /\ \A i \in Positions : ~Taken(i)
  BY <1>2 DEF OrderInv
<1>4. cmd' \in Commands /\ local_arguments' = arguments[cmd']
  <2>1. CASE Visit
    BY <1>1, <2>1 DEF Visit, TypeOK
  <2>2. CASE EndOfArgs \/ Separator \/ Eat \/ StartEating
    <3>1. phase \in {"loop", "eat"} /\ local_arguments' = local_arguments
      BY <2>2 DEF EndOfArgs, Separator, Eat, StartEating, AtWord, InLoop
    <3>. QED  BY <1>2, <3>1, AllLeft
  <2>. QED  BY <2>1, <2>2
<1>5. \A i \in Positions : ~Taken(i)'
  <2>1. CASE Visit \/ EndOfArgs \/ StartEating
    <3>1. fate' = fate
      BY <2>1 DEF Visit, EndOfArgs, StartEating
    <3>. QED  BY <1>3, <3>1 DEF Taken
  <2>2. CASE Separator \/ Eat
    <3>1. \E r : fate' = Marked(arg, r, Nil)
      BY <2>2 DEF Separator, Eat
    <3>2. fate \in [Positions -> [role : Roles, flag : Flags \cup {Nil}]]
      BY <1>1 DEF TypeOK
    <3>3. \A i \in Positions : fate'[i] = fate[i] \/ fate'[i].flag = Nil
      BY <3>1, <3>2 DEF Marked
    <3>. QED  BY <1>3, <3>3 DEF Taken
  <2>. QED  BY <2>1, <2>2
<1>6. ASSUME NEW k \in DOMAIN positional', NEW l \in DOMAIN positional', k < l,
             positional'[k] # Message, positional'[l] # Message
      PROVE  positional'[k] < positional'[l]
  <2>1. CASE positional' = <<>>
    BY <2>1, EmptySeq
  <2>2. CASE positional' = positional
    BY <1>6, <2>2 DEF OrderInv
  <2>3. CASE Eat /\ positional' = Append(positional, arg)
    <3>1. phase = "eat" /\ arg # Done
      BY <2>3 DEF Eat
    <3>2. positional \in Seq(Positions \cup {Message}) /\ Len(positional) \in Nat
      BY <1>1, CmdArguments
    <3>3. arg \in Positions \cup {Message}
      BY <1>1, <3>1 DEF TypeOK
    <3>4. /\ k \in DOMAIN positional /\ positional'[k] = positional[k]
          /\ (l \in DOMAIN positional /\ positional'[l] = positional[l]) \/ positional'[l] = arg
      BY <1>6, <2>3, <3>2, <3>3
    <3>5. CASE l \in DOMAIN positional /\ positional'[l] = positional[l]
      BY <1>6, <3>4, <3>5 DEF OrderInv
    <3>6. CASE positional'[l] = arg
      <4>1. arg \in Positions /\ arg = arg_index
        BY <1>1, <1>6, <3>1, <3>3, <3>6 DEF ReadInOrder
      <4>2. positional[k] \in Positions /\ fate[positional[k]].role = "positional"
        BY <1>1, <1>6, <3>4, CmdArguments DEF OrderInv, FlowInv
      <4>3. Read(positional[k])
        BY <4>2 DEF Read
      <4>4. Positions = 1 .. Len(args) /\ Len(args) \in Nat
        BY <1>1, ArgsType DEF Positions
      <4>5. positional[k] <= arg_index /\ positional[k] # arg
        BY <1>1, <3>1, <4>1, <4>2, <4>3, <4>4 DEF ReadInOrder
      <4>. QED  BY <3>4, <3>6, <4>1, <4>2, <4>4, <4>5
    <3>. QED  BY <3>4, <3>5, <3>6
  <2>. QED  BY <2>1, <2>2, <2>3 DEF Visit, EndOfArgs, Separator, Eat, StartEating
<1>. QED  BY <1>2, <1>3, <1>4, <1>5, <1>6, NoneTaken

LEMMA LoopOrder ==
  ASSUME OrderInv, FlowInv',
         \/ RejectOption \/ AppearedTooManyTimes \/ MissingValue \/ ApplyOption
         \/ EnterCommand \/ UnknownCommand
  PROVE  OrderInv'
<1>1. TypeOK
  BY DEF OrderInv, FlowInv, LineInv
<1>2. /\ UNCHANGED <<args, positional, unparsed, local_arguments>> /\ phase = "loop"
      /\ \/ phase' = "loop" /\ cmd' = cmd
         \/ phase' = "visit"
         \/ phase' = "done" /\ err' # "none"
  <2>1. CASE ApplyOption
    <3>1. \/ \E e : e # "none" /\ Fail(e)
          \/ UNCHANGED <<phase, err>>
      BY <2>1, ApplyOptionIs DEF ApplyTo
    <3>. QED  BY <2>1, <3>1, ApplyOptionIs DEF ApplyTo, Fail, OptionAccepted, AtOption, InLoop
  <2>. QED
    BY <2>1 DEF RejectOption, AppearedTooManyTimes, MissingValue, EnterCommand, UnknownCommand,
                OptionAccepted, AtOption, AtWord, InLoop, Fail
<1>3. unparsed' = <<>> /\ cmd \in Commands /\ local_arguments = arguments[cmd]
  BY <1>2, AllLeft DEF OrderInv
<1>4. \A i \in Positions : ~Taken(i)'
  <2>1. CASE phase' \in {"visit", "loop"}
    <3>1. \A i \in Positions : fate'[i].role # "positional"
      BY <1>2, <2>1 DEF FlowInv, Positions
    <3>. QED  BY <3>1 DEF Taken
  <2>2. CASE phase' = "done"
    <3>1. /\ \A i \in Positions : fate[i].role # "positional"
          /\ fate \in [Positions -> [role : Roles, flag : Flags \cup {Nil}]]
      BY <1>1, <1>2 DEF OrderInv, FlowInv, TypeOK
    <3> DEFINE marked == Marked(arg, "option", Found)
    <3>2. Found \in Flags \cup {Nil}
      BY <1>1, FoundType DEF Found, Flags
    <3>3. \A i \in Positions : marked[i] = fate[i] \/ marked[i].role = "option"
      BY <3>1 DEF Marked
    <3>4. CASE fate' = fate
      BY <3>1, <3>4 DEF Taken
    <3>5. CASE fate' = marked
      BY <3>1, <3>3, <3>5 DEF Taken
    <3>6. CASE \E j : fate' = [marked EXCEPT ![j] = [role |-> "value", flag |-> Found]]
      <4>1. DOMAIN marked = Positions
        BY <3>1 DEF Marked
      <4> HIDE DEF marked
      <4>2. \A i \in Positions : fate'[i] = marked[i] \/ fate'[i].role = "value"
        BY <3>6, <4>1
      <4>. QED  BY <3>1, <3>3, <4>2 DEF Taken
    <3>7. \/ fate' = fate \/ fate' = marked
          \/ \E j : fate' = [marked EXCEPT ![j] = [role |-> "value", flag |-> Found]]
      <4>1. ~AppearedTooManyTimes
        BY <1>2, <2>2 DEF AppearedTooManyTimes
      <4>. QED
        BY <2>2, <4>1, ApplyOptionIs
           DEF RejectOption, MissingValue, ApplyTo, EnterCommand, UnknownCommand
    <3>. QED  BY <3>4, <3>5, <3>6, <3>7
  <2>. QED  BY <1>2, <2>1, <2>2
<1>5. \A k, l \in DOMAIN positional :
        k < l /\ positional[k] # Message /\ positional[l] # Message => positional[k] < positional[l]
  BY DEF OrderInv
<1>. QED  BY <1>2, <1>3, <1>4, <1>5, NoneTaken

LEMMA HandleArgumentOrder ==
  ASSUME OrderInv, FlowInv', HandleArgument
  PROVE  OrderInv'
<1> DEFINE h == Head(local_arguments)
           p == positional[next]
           as == arguments[cmd]
           n == Left
           size == Len(as)
<1>1. TypeOK /\ phase = "arguments" /\ next \in DOMAIN positional /\ local_arguments # <<>>
  BY DEF OrderInv, FlowInv, LineInv, HandleArgument, AtArgument
<1>2. /\ as \in Seq(Arguments) /\ local_arguments \in Seq(Arguments)
      /\ p \in Positions \cup {Message}
  BY <1>1, CmdArguments
<1>a. size \in Nat /\ DOMAIN as = 1 .. size
  BY <1>2
<1>i. \A m \in DOMAIN as : as[m] \in Flags
  BY <1>2 DEF Flags
<1>b. Len(local_arguments) \in Nat /\ DOMAIN local_arguments = 1 .. Len(local_arguments)
  BY <1>2
<1>c. DOMAIN positional = 1 .. Len(positional) /\ Len(positional) \in Nat /\ next \in Nat
  <2>1. positional \in Seq(Positions \cup {Message})
    BY <1>1, CmdArguments
  <2>. QED  BY <1>1, <2>1
<1>d. HasCommand
  BY <1>1 DEF HasCommand
<1>e. n \in Nat
  <2>1. n >= 0
    BY <1>d DEF OrderInv
  <2>2. n \in Int
    BY <1>a, <1>b DEF Left
  <2>. QED  BY <2>1, <2>2
<1>3. \A i \in DOMAIN local_arguments : local_arguments[i] = as[n + i]
  BY <1>d DEF OrderInv
<1>f. \A m \in 1 .. n : occurrences[as[m]] = flag[as[m]].max_count
  BY <1>d DEF OrderInv
<1>4. /\ \A i \in Positions : Taken(i) =>
           /\ \E k \in DOMAIN positional : k < next /\ positional[k] = i
           /\ \E m \in DOMAIN as : m <= n + 1 /\ as[m] = fate[i].flag
      /\ unparsed = <<>>
  BY <1>1 DEF OrderInv
<1>5. /\ UNCHANGED <<args, cmd, positional, unparsed>>
      /\ occurrences' = Counted(h) /\ fate' = Marked(p, "positional", h)
      /\ local_arguments' = IF Full(h) THEN Tail(local_arguments) ELSE local_arguments
      /\ \/ phase' = "done" /\ err' # "none"
         \/ phase' = "arguments" /\ next' = next + 1
  <2>1. \/ \E e : e # "none" /\ Fail(e)
        \/ next' = next + 1 /\ UNCHANGED <<phase, err>>
    BY DEF HandleArgument
  <2>. QED  BY <1>1, <2>1 DEF HandleArgument, Fail
<1>6. h = as[n + 1] /\ h \in Arguments
  <2>1. 1 \in DOMAIN local_arguments /\ h = local_arguments[1]
    BY <1>1, <1>2
  <2>. QED  BY <1>2, <1>3, <2>1
<1>h. h \in Flags /\ h # Nil
  BY <1>6, NilAssumption DEF Flags
<1>g. n + 1 <= size /\ n + 1 \in DOMAIN as
  <2>1. Len(local_arguments) >= 1
    BY <1>1, <1>2
  <2>2. n = size - Len(local_arguments)
    BY DEF Left
  <2> HIDE DEF n, as, size
  <2>3. n + 1 <= size
    BY <1>a, <1>b, <2>1, <2>2
  <2>4. n + 1 \in 1 .. size
    BY <1>a, <1>e, <2>3
  <2>. QED  BY <1>a, <2>3, <2>4
<1>7. \A k \in DOMAIN as, l \in DOMAIN as : as[k] = as[l] => k = l
  <2>1. cmd \in Commands
    BY <1>1 DEF TypeOK
  <2>. QED  BY <2>1, DistinctAssumption
<1> HIDE DEF h, p, as, n, size
<1>8. \A i \in Positions : fate'[i] = IF i = p THEN [role |-> "positional", flag |-> h] ELSE fate[i]
  <2>1. fate \in [Positions -> [role : Roles, flag : Flags \cup {Nil}]]
    BY <1>1 DEF TypeOK
  <2>2. Message \notin Positions
    BY <1>1, ArgsType DEF Positions, Message
  <2>. QED  BY <1>5, <2>1, <2>2 DEF Marked
<1>9. /\ \A i \in Positions : Taken(i)' <=> Taken(i) \/ i = p
      /\ Positions' = Positions
  <2>1. Positions' = Positions
    BY <1>5 DEF Positions
  <2>2. ASSUME NEW i \in Positions PROVE Taken(i)' <=> Taken(i) \/ i = p
    <3>1. CASE i = p
      <4>1. fate'[i] = [role |-> "positional", flag |-> h]
        BY <1>8, <3>1
      <4>2. fate'[i].role = "positional" /\ fate'[i].flag = h
        BY <4>1
      <4>. QED  BY <1>h, <3>1, <4>2 DEF Taken
    <3>2. CASE i # p
      BY <1>8, <3>2 DEF Taken
    <3>. QED  BY <3>1, <3>2
  <2>. QED  BY <2>1, <2>2
<1>10. \A i \in Positions : Taken(i) /\ p \in Positions => i < p
  <2>1. \A k \in DOMAIN positional :
          k < next /\ positional[k] # Message /\ p # Message => positional[k] < p
    BY <1>1 DEF OrderInv, p
  <2>2. Message \notin Positions
    BY <1>1, ArgsType DEF Positions, Message
  <2>. QED  BY <1>4, <2>1, <2>2
<1>11. \A i \in Positions : i \in Nat
  BY <1>1, ArgsType DEF Positions
<1>12. \A m \in 1 .. n : as[m] \in Flags /\ occurrences'[as[m]] = flag[as[m]].max_count
  <2>1. \A m \in 1 .. n : m \in DOMAIN as /\ m # n + 1
    <3>1. \A m \in 1 .. n : m \in 1 .. size /\ m # n + 1
      BY <1>a, <1>e, <1>g
    <3>. QED  BY <1>a, <3>1
  <2>2. \A m \in 1 .. n : as[m] # h /\ as[m] \in Flags
    BY <1>6, <1>7, <1>g, <1>i, <2>1
  <2>3. \A m \in 1 .. n : occurrences'[as[m]] = occurrences[as[m]]
    BY <1>1, <1>5, <1>h, <2>2, CountedElsewhere
  <2>. QED  BY <1>f, <2>2, <2>3
<1>13. \A i \in Positions : Taken(i)' => \E m \in DOMAIN as : m <= n + 1 /\ as[m] = fate'[i].flag
  <2> SUFFICES ASSUME NEW i \in Positions, Taken(i)'
               PROVE  \E m \in DOMAIN as : m <= n + 1 /\ as[m] = fate'[i].flag
    OBVIOUS
  <2>1. CASE i = p
    <3>1. n + 1 <= n + 1
      BY <1>e
    <3>2. fate'[i] = [role |-> "positional", flag |-> h]
      BY <1>8, <2>1
    <3>3. as[n + 1] = fate'[i].flag
      BY <1>6, <3>2
    <3>. QED  BY <1>g, <3>1, <3>3
  <2>2. CASE i # p
    BY <1>4, <1>8, <1>9, <2>2
  <2>. QED  BY <2>1, <2>2
<1>14. ASSUME NEW i \in Positions, NEW j \in Positions, Taken(i)', Taken(j)', i < j,
              NEW k \in DOMAIN as, as[k] = fate'[i].flag,
              NEW l \in DOMAIN as, as[l] = fate'[j].flag
       PROVE  k <= l /\ \A m \in k .. (l - 1) : occurrences'[as[m]] = flag[as[m]].max_count
  <2>1. k \in 1 .. n + 1 /\ l \in 1 .. n + 1
    <3>1. PICK k1 \in DOMAIN as : k1 <= n + 1 /\ as[k1] = fate'[i].flag
      BY <1>13, <1>14
    <3>2. PICK l1 \in DOMAIN as : l1 <= n + 1 /\ as[l1] = fate'[j].flag
      BY <1>13, <1>14
    <3>3. k = k1 /\ l = l1
      BY <1>7, <1>14, <3>1, <3>2
    <3>. QED  BY <1>a, <1>e, <3>1, <3>2, <3>3
  <2>2. \A m \in k .. (l - 1) : m \in 1 .. n
    BY <1>e, <2>1
  <2>3. Taken(i) /\ i # p
    BY <1>9, <1>10, <1>11, <1>14
  <2>4. k <= l
    <3>1. CASE j = p
      <4>1. l = n + 1
        <5>1. fate'[j].flag = h
          <6>1. fate'[j] = [role |-> "positional", flag |-> h]
            BY <1>8, <3>1
          <6>. QED  BY <6>1
        <5>2. as[l] = as[n + 1]
          BY <1>6, <1>14, <5>1
        <5>. QED  BY <1>7, <1>14, <1>g, <5>2
      <4>. QED  BY <1>e, <2>1, <4>1
    <3>2. CASE j # p
      <4>1. Taken(j) /\ fate'[j] = fate[j] /\ fate'[i] = fate[i]
        BY <1>8, <1>9, <1>14, <2>3, <3>2
      <4>2. k \in PlaceOf(fate[i].flag) /\ l \in PlaceOf(fate[j].flag)
        BY <1>14, <4>1 DEF PlaceOf, as
      <4>3. FilledInOrder
        BY DEF OrderInv
      <4>. QED  BY <1>14, <2>3, <4>1, <4>2, <4>3 DEF FilledInOrder, Taken
    <3>. QED  BY <3>1, <3>2
  <2>. QED  BY <1>12, <2>2, <2>4
<1>15. FilledInOrder'
  <2>1. \A a : PlaceOf(a)' = {k \in DOMAIN as : as[k] = a}
    BY <1>5 DEF PlaceOf, as
  <2>2. \A i, j \in Positions :
          Taken(i)' /\ Taken(j)' /\ i < j =>
            \A k \in PlaceOf(fate[i].flag)', l \in PlaceOf(fate[j].flag)' :
              /\ k <= l
              /\ \A m \in k .. (l - 1) : occurrences'[as[m]] = flag[as[m]].max_count
    <3> SUFFICES ASSUME NEW i \in Positions, NEW j \in Positions, Taken(i)', Taken(j)', i < j,
                        NEW k \in PlaceOf(fate[i].flag)', NEW l \in PlaceOf(fate[j].flag)'
                 PROVE  /\ k <= l
                        /\ \A m \in k .. (l - 1) : occurrences'[as[m]] = flag[as[m]].max_count
      OBVIOUS
    <3>1. k \in DOMAIN as /\ as[k] = fate'[i].flag /\ l \in DOMAIN as /\ as[l] = fate'[j].flag
      BY <1>5 DEF PlaceOf, as
    <3>. QED  BY <1>14, <3>1
  <2>3. DOMAIN unparsed' = {}
    BY <1>4, <1>5
  <2>. QED  BY <1>5, <1>9, <2>2, <2>3 DEF FilledInOrder, Taken, as
<1>16. HasCommand' =>
         /\ Left' >= 0
         /\ \A i \in DOMAIN local_arguments' : local_arguments'[i] = as[Left' + i]
         /\ \A m \in 1 .. Left' : occurrences'[as[m]] = flag[as[m]].max_count
         /\ Left' >= n
  <2>1. CASE ~Full(h)
    <3>1. local_arguments' = local_arguments /\ Left' = n
      BY <1>5, <2>1 DEF Left, n
    <3>2. Left' >= 0 /\ Left' >= n
      BY <1>e, <3>1
    <3>. QED  BY <1>3, <1>12, <3>1, <3>2
  <2>2. CASE Full(h)
    <3>1. local_arguments' = Tail(local_arguments)
      BY <1>5, <2>2
    <3>2. Len(local_arguments') = Len(local_arguments) - 1
      BY <1>1, <1>2, <3>1
    <3>3. \A i \in DOMAIN local_arguments' :
            /\ i \in Nat /\ i + 1 \in DOMAIN local_arguments
            /\ local_arguments'[i] = local_arguments[i + 1]
      BY <1>1, <1>2, <3>1
    <3>4. Left' = n + 1
      <4>1. Left' = size - Len(local_arguments')
        BY <1>5 DEF Left, as, size
      <4>2. n = size - Len(local_arguments)
        BY DEF Left, as, n, size
      <4>. QED  BY <1>a, <1>b, <3>2, <4>1, <4>2
    <3>5. \A i \in DOMAIN local_arguments' : local_arguments'[i] = as[Left' + i]
      <4>1. \A i \in DOMAIN local_arguments' : local_arguments'[i] = as[n + (i + 1)]
        BY <1>3, <3>3
      <4>2. \A i \in DOMAIN local_arguments' : n + (i + 1) = Left' + i
        BY <1>e, <3>3, <3>4
      <4>. QED  BY <4>1, <4>2
    <3>6. occurrences'[as[n + 1]] = flag[as[n + 1]].max_count
      BY <1>5, <1>6, <2>2 DEF Full
    <3>7. \A m \in 1 .. Left' : m \in 1 .. n \/ m = n + 1
      BY <1>e, <3>4
    <3>8. \A m \in 1 .. Left' : occurrences'[as[m]] = flag[as[m]].max_count
      BY <1>12, <3>6, <3>7
    <3>9. Left' >= 0 /\ Left' >= n
      BY <1>e, <3>4
    <3>. QED  BY <3>5, <3>8, <3>9
  <2>. QED  BY <2>1, <2>2
<1>17. phase' = "arguments" =>
         /\ \A i \in Positions : Taken(i)' =>
              /\ \E k \in DOMAIN positional' : k < next' /\ positional'[k] = i
              /\ \E m \in DOMAIN as : m <= Left' + 1 /\ as[m] = fate'[i].flag
         /\ unparsed' = <<>>
  <2>1. phase' = "arguments" => Left' >= n /\ next' = next + 1 /\ Left' \in Int
    <3>1. phase' = "arguments" => Left' >= n
      BY <1>16 DEF HasCommand
    <3>2. local_arguments' \in Seq(Arguments)
      BY <1>1, <1>2, <1>5
    <3>3. Len(local_arguments') \in Int
      BY <3>2
    <3>4. Left' = size - Len(local_arguments')
      BY <1>5 DEF Left, as, size
    <3>5. Left' \in Int
      BY <1>a, <3>3, <3>4
    <3>6. phase' = "arguments" => next' = next + 1
      BY <1>5
    <3>. QED  BY <3>1, <3>5, <3>6
  <2>2. phase' = "arguments" => \A i \in Positions : Taken(i)' =>
          \E k \in DOMAIN positional' : k < next' /\ positional'[k] = i
    <3> SUFFICES ASSUME phase' = "arguments", NEW i \in Positions, Taken(i)'
                 PROVE  \E k \in DOMAIN positional : k < next + 1 /\ positional[k] = i
      BY <1>5, <2>1
    <3>1. CASE i = p
      BY <1>1, <1>c, <3>1 DEF p
    <3>2. CASE i # p
      <4>1. PICK k \in DOMAIN positional : k < next /\ positional[k] = i
        BY <1>4, <1>9, <3>2
      <4>2. k < next + 1
        BY <1>c, <4>1
      <4>. QED  BY <4>1, <4>2
    <3>. QED  BY <3>1, <3>2
  <2>3. phase' = "arguments" => \A i \in Positions : Taken(i)' =>
          \E m \in DOMAIN as : m <= Left' + 1 /\ as[m] = fate'[i].flag
    <3> SUFFICES ASSUME phase' = "arguments", NEW i \in Positions, Taken(i)'
                 PROVE  \E m \in DOMAIN as : m <= Left' + 1 /\ as[m] = fate'[i].flag
      OBVIOUS
    <3>1. PICK m \in DOMAIN as : m <= n + 1 /\ as[m] = fate'[i].flag
      BY <1>13
    <3>2. m <= Left' + 1
      BY <1>a, <1>e, <2>1, <3>1
    <3>. QED  BY <3>1, <3>2
  <2>. QED  BY <1>4, <1>5, <2>2, <2>3
<1>18. \A k, l \in DOMAIN positional' :
         k < l /\ positional'[k] # Message /\ positional'[l] # Message
           => positional'[k] < positional'[l]
  BY <1>5 DEF OrderInv
<1>. QED  BY <1>5, <1>9, <1>15, <1>16, <1>17, <1>18 DEF OrderInv, as

LEMMA LateOrder ==
  ASSUME OrderInv, FlowInv',
         \/ LeaveUnparsed \/ EndOfArguments
         \/ CheckPassed \/ ApplyDefault \/ MissingRequired \/ Succeed
  PROVE  OrderInv'
<1>1. TypeOK
  BY DEF OrderInv, FlowInv, LineInv
<1>2. /\ UNCHANGED <<args, cmd, positional, local_arguments, occurrences, fate>>
      /\ phase \in {"arguments", "check"}
      /\ phase' = "arguments" => LeaveUnparsed
      /\ phase' \in {"arguments", "check", "done"}
      /\ HasCommand
  BY DEF LeaveUnparsed, EndOfArguments, CheckPassed, ApplyDefault, MissingRequired, Succeed,
         AtArgument, AtCheck, Fail, HasCommand
<1>3. /\ \A i : Taken(i)' <=> Taken(i)
      /\ \A a : PlaceOf(a)' = PlaceOf(a)
      /\ Left' = Left /\ Positions' = Positions
  BY <1>2 DEF Taken, PlaceOf, Left, Positions
<1>4. CASE LeaveUnparsed
  <2> DEFINE p == positional[next]
  <2>1. /\ phase = "arguments" /\ next \in DOMAIN positional /\ next' = next + 1
        /\ local_arguments = <<>> /\ unparsed' = Append(unparsed, p)
    BY <1>4 DEF LeaveUnparsed, AtArgument
  <2>2. /\ next \in Nat
        /\ DOMAIN positional = 1 .. Len(positional) /\ Len(positional) \in Nat
    <3>1. positional \in Seq(Positions \cup {Message})
      BY <1>1, CmdArguments
    <3>. QED  BY <2>1, <3>1
  <2>3. \A i \in Positions : Taken(i) =>
          /\ \E k \in DOMAIN positional : k < next /\ positional[k] = i
          /\ \E m \in DOMAIN arguments[cmd] : m <= Left + 1 /\ arguments[cmd][m] = fate[i].flag
    BY <2>1 DEF OrderInv
  <2>4. \A i \in Positions : Taken(i) /\ p # Message => i < p
    <3>1. \A k \in DOMAIN positional :
            k < next /\ positional[k] # Message /\ p # Message => positional[k] < p
      BY <2>1 DEF OrderInv
    <3>2. Message \notin Positions
      BY <1>1, ArgsType DEF Positions, Message
    <3>. QED  BY <2>3, <3>1, <3>2
  <2>5. \A u \in DOMAIN unparsed' :
          (u \in DOMAIN unparsed /\ unparsed'[u] = unparsed[u]) \/ unparsed'[u] = p
    <3>1. unparsed \in Seq(Positions \cup {Message}) /\ p \in Positions \cup {Message}
      BY <1>1, <2>1, CmdArguments
    <3>. QED  BY <2>1, <3>1
  <2>6. FilledInOrder'
    <3>1. FilledInOrder
      BY DEF OrderInv
    <3>2. \A i \in Positions, u \in DOMAIN unparsed' :
            Taken(i) /\ unparsed'[u] # Message => i < unparsed'[u]
      BY <2>4, <2>5, <3>1 DEF FilledInOrder, Taken
    <3>. QED  BY <1>2, <1>3, <3>1, <3>2 DEF FilledInOrder, Taken
  <2>7. \A i \in Positions : Taken(i) =>
          \E k \in DOMAIN positional : k < next + 1 /\ positional[k] = i
    <3>1. \A k \in DOMAIN positional : k < next => k < next + 1
      BY <2>2
    <3>. QED  BY <2>3, <3>1
  <2>. QED  BY <1>2, <1>3, <2>1, <2>3, <2>6, <2>7 DEF OrderInv
<1>5. CASE ~LeaveUnparsed
  <2>1. unparsed' = unparsed /\ phase' \in {"check", "done"}
    BY <1>2, <1>5 DEF EndOfArguments, CheckPassed, ApplyDefault, MissingRequired, Succeed
  <2>2. FilledInOrder'
    <3>1. FilledInOrder
      BY DEF OrderInv
    <3>. QED  BY <1>2, <1>3, <2>1, <3>1 DEF FilledInOrder
  <2>. QED  BY <1>2, <1>3, <2>1, <2>2 DEF OrderInv
<1>. QED  BY <1>4, <1>5

LEMMA OrderInvInit == Init => OrderInv
<1> SUFFICES ASSUME Init PROVE OrderInv
  OBVIOUS
<1>1. FlowInv
  BY FlowInit
<1>2. /\ phase = "visit" /\ unparsed = <<>> /\ positional = <<>>
      /\ \A i \in Positions : ~Taken(i)
  BY DEF Init, Taken, Positions
<1>3. FilledInOrder
  BY <1>2 DEF FilledInOrder, Taken
<1>. QED  BY <1>1, <1>2, <1>3 DEF OrderInv, HasCommand, Succeeded

LEMMA OrderInvStep == OrderInv /\ TypeOK' /\ [Next]_vars => OrderInv'
<1>1. ASSUME OrderInv, TypeOK', Next PROVE OrderInv'
  <2>1. FlowInv'
    BY <1>1, FlowInvStep DEF OrderInv
  <2>. QED  BY <1>1, <2>1, ReadingOrder, LoopOrder, HandleArgumentOrder, LateOrder DEF Next
<1>2. ASSUME OrderInv, TypeOK', UNCHANGED vars PROVE OrderInv'
  <2>1. FlowInv'
    BY <1>2, FlowInvStep DEF OrderInv
  <2>2. /\ FilledInOrder' <=> FilledInOrder
        /\ \A i : Taken(i)' <=> Taken(i)
        /\ HasCommand' <=> HasCommand
        /\ Left' = Left /\ Positions' = Positions
    BY <1>2 DEF FilledInOrder, PlaceOf, Taken, HasCommand, Succeeded, Left, Positions, vars
  <2>. QED  BY <1>2, <2>1, <2>2 DEF OrderInv, vars
<1>. QED  BY <1>1, <1>2

(* A later token never goes to an earlier argument, an argument is passed  *)
(* over only when it has all it may take, and what is left unparsed comes  *)
(* after all that was taken.                                               *)
THEOREM ArgumentsInOrder == Spec => []FilledInOrder
<1>1. OrderInv => FilledInOrder
  BY DEF OrderInv
<1>. QED  BY OrderInvInit, OrderInvStep, <1>1, TypeCorrect, PTL DEF Spec

---------------------------------------------------------------------------
(* A parse that succeeds met the requirements.                             *)

(* An occurrence of an option is counted with a token of its own, and the  *)
(* last loops have found nothing lacking so far.                           *)
NothingLacking ==
  phase = "check" \/ Succeeded => \A k \in DOMAIN Required :
    (phase = "check" => k < next) /\ flag[Required[k]].default = Nil => ~Lacking(Required[k])

FlagsOfTokens ==
  \A i \in Positions :
    /\ fate[i].role = "unread" => fate[i].flag = Nil
    /\ fate[i].role = "positional" => fate[i].flag \notin Options

ReqInv ==
  /\ OrderInv
  /\ FlagsOfTokens
  /\ \A o \in Options : ~Repeatable(o) => occurrences[o] <= Cardinality(TokensOf(o))
  /\ NothingLacking

LEMMA OptionsUntouched ==
  ASSUME ReqInv, OrderInv', FlagsOfTokens', NothingLacking', args' = args,
         \A o \in Options : occurrences'[o] = occurrences[o] /\ TokensOf(o) \subseteq TokensOf(o)'
  PROVE  ReqInv'
<1>1. TypeOK
  BY DEF ReqInv, OrderInv, FlowInv, LineInv
<1>2. IsFiniteSet(Positions)
  <2>1. Positions = 1 .. Len(args) /\ Len(args) \in Int /\ 1 \in Int
    BY <1>1, ArgsType DEF Positions
  <2>. QED  BY <2>1, FS_Interval
<1>3. ASSUME NEW o \in Options, ~Repeatable(o)
      PROVE  occurrences'[o] <= Cardinality(TokensOf(o)')
  <2>1. TokensOf(o)' \subseteq Positions
    BY DEF TokensOf, Positions
  <2>2. IsFiniteSet(TokensOf(o)') /\ Cardinality(TokensOf(o)') \in Nat
    BY <1>2, <2>1, FS_Subset, FS_CardinalityType
  <2>3. TokensOf(o) \subseteq TokensOf(o)'
    OBVIOUS
  <2>4. Cardinality(TokensOf(o)) <= Cardinality(TokensOf(o)')
    BY <2>2, <2>3, FS_Subset
  <2>5. Cardinality(TokensOf(o)) \in Nat /\ occurrences[o] \in Nat
    BY <1>1, TokensFinite DEF TypeOK, Flags
  <2>6. occurrences[o] <= Cardinality(TokensOf(o))
    BY <1>3 DEF ReqInv
  <2>. QED  BY <2>2, <2>4, <2>5, <2>6
<1>. QED  BY <1>3 DEF ReqInv, Repeatable

(* Steps that mark a token with no option.                                 *)
LEMMA MarkedPlain ==
  ASSUME ReqInv, NEW p \in Positions \cup {Message}, NEW role \in Roles \ {"unread"},
         NEW f \in Arguments \cup {Nil}, args' = args, fate' = Marked(p, role, f),
         p # Message => fate[p].role = "unread" \/ fate[p].role = "positional"
  PROVE  FlagsOfTokens' /\ \A o \in Options : TokensOf(o) \subseteq TokensOf(o)'
<1>1. fate \in [Positions -> [role : Roles, flag : Flags \cup {Nil}]] /\ Message \notin Positions
  <2>1. TypeOK
    BY DEF ReqInv, OrderInv, FlowInv, LineInv
  <2>2. Message \notin Positions
    BY <2>1, ArgsType DEF Positions, Message
  <2>. QED  BY <2>1, <2>2 DEF TypeOK
<1>2. f \notin Options /\ Nil \notin Options
  BY AppAssumption, NilAssumption DEF Flags
<1>3. \A i \in Positions :
        \/ fate'[i] = fate[i] /\ i # p
        \/ i = p /\ fate'[i].role = role /\ fate'[i].flag = f
  BY <1>1 DEF Marked
<1>4. p \in Positions => fate[p].flag \notin Options
  BY <1>1, <1>2 DEF ReqInv, FlagsOfTokens
<1>5. Positions' = Positions
  BY DEF Positions
<1>6. FlagsOfTokens'
  <2> SUFFICES ASSUME NEW i \in Positions
               PROVE  /\ fate'[i].role = "unread" => fate'[i].flag = Nil
                      /\ fate'[i].role = "positional" => fate'[i].flag \notin Options
    BY <1>5 DEF FlagsOfTokens
  <2>1. CASE fate'[i] = fate[i]
    BY <2>1 DEF ReqInv, FlagsOfTokens
  <2>2. CASE fate'[i].role = role /\ fate'[i].flag = f
    BY <1>2, <2>2
  <2>. QED  BY <1>3, <2>1, <2>2
<1>7. \A o \in Options : TokensOf(o) \subseteq TokensOf(o)'
  BY <1>3, <1>4, <1>5 DEF TokensOf
<1>. QED  BY <1>6, <1>7

LEMMA UnreadInHand ==
  ASSUME LineInv, phase \in {"loop", "eat"}, arg \in Positions
  PROVE  fate[arg].role = "unread"
<1>1. TypeOK /\ ReadInOrder
  BY DEF LineInv
<1>2. arg = arg_index /\ arg \in 1 .. arg_index
  BY <1>1, ArgsType DEF ReadInOrder, Positions
<1>. QED  BY <1>1, <1>2 DEF ReadInOrder, Read

LEMMA QuietReq ==
  ASSUME ReqInv, OrderInv',
         \/ Visit \/ EndOfArgs \/ StartEating \/ RejectOption \/ UnknownCommand
         \/ Separator \/ Eat \/ EnterCommand
         \/ LeaveUnparsed \/ EndOfArguments \/ MissingRequired
  PROVE  ReqInv'
<1>1. LineInv /\ TypeOK
  BY DEF ReqInv, OrderInv, FlowInv, LineInv
<1>2. UNCHANGED <<args, occurrences>>
  BY DEF Visit, EndOfArgs, StartEating, RejectOption, UnknownCommand, Separator, Eat,
         EnterCommand, LeaveUnparsed, EndOfArguments, MissingRequired
<1>3. NothingLacking'
  <2>1. CASE EndOfArguments
    <3>1. phase' = "check" /\ next' = 1
      BY <2>1 DEF EndOfArguments
    <3>2. \A k \in DOMAIN Required' : ~(k < next')
      <4>1. Required' \in Seq(Options \cup Arguments)
        <5>1. TypeOK'
          BY DEF OrderInv, FlowInv, LineInv
        <5>2. cmd' \in Commands /\ local_arguments' \in Seq(Arguments)
          BY <5>1 DEF TypeOK
        <5>3. options[cmd'] \in Seq(Options)
          BY <5>2, AppAssumption
        <5>. QED  BY <5>2, <5>3 DEF Required
      <4>2. \A k \in DOMAIN Required' : k \in Nat /\ k >= 1
        BY <4>1
      <4>. QED  BY <3>1, <4>2
    <3>. QED  BY <3>1, <3>2 DEF NothingLacking
  <2>2. CASE ~EndOfArguments
    <3>1. \/ phase' \in {"visit", "loop", "eat", "arguments"}
          \/ phase' = "done" /\ err' # "none"
      BY <2>2 DEF Visit, EndOfArgs, StartEating, RejectOption, UnknownCommand, Separator, Eat,
                  EnterCommand, LeaveUnparsed, MissingRequired, AtWord, InLoop, AtArgument, Fail
    <3>. QED  BY <3>1 DEF NothingLacking, Succeeded
  <2>. QED  BY <2>1, <2>2
<1>4. FlagsOfTokens' /\ \A o \in Options : TokensOf(o) \subseteq TokensOf(o)'
  <2>1. CASE Separator \/ Eat \/ EnterCommand
    <3>1. PICK role \in {"separator", "positional", "command"} : fate' = Marked(arg, role, Nil)
      BY <2>1 DEF Separator, Eat, EnterCommand
    <3>2. phase \in {"loop", "eat"} /\ arg # Done
      BY <2>1 DEF Separator, Eat, EnterCommand, AtWord, InLoop
    <3>3. arg \in Positions \cup {Message}
      BY <1>1, <3>2 DEF TypeOK
    <3>4. arg # Message => fate[arg].role = "unread"
      BY <1>1, <3>2, <3>3, UnreadInHand
    <3>5. role \in Roles \ {"unread"}
      BY DEF Roles
    <3>. QED  BY <1>2, <3>1, <3>3, <3>4, <3>5, MarkedPlain
  <2>2. CASE ~(Separator \/ Eat \/ EnterCommand)
    <3>1. fate' = fate
      BY <2>2 DEF Visit, EndOfArgs, StartEating, RejectOption, UnknownCommand, LeaveUnparsed,
                  EndOfArguments, MissingRequired
    <3>. QED  BY <1>2, <3>1 DEF ReqInv, FlagsOfTokens, TokensOf, Positions
  <2>. QED  BY <2>1, <2>2
<1>. QED  BY <1>2, <1>3, <1>4, OptionsUntouched

LEMMA HandleArgumentReq ==
  ASSUME ReqInv, OrderInv', HandleArgument
  PROVE  ReqInv'
<1> DEFINE h == Head(local_arguments)
           p == positional[next]
<1>1. TypeOK /\ FlowInv
  BY DEF ReqInv, OrderInv, FlowInv, LineInv
<1>2. /\ h \in Arguments /\ p \in Positions \cup {Message}
      /\ p # Message => fate[p].role = "positional"
  <2>1. local_arguments \in Seq(Arguments) /\ local_arguments # <<>> /\ next \in DOMAIN positional
    BY <1>1, CmdArguments DEF HandleArgument, AtArgument
  <2>. QED  BY <1>1, <2>1, CmdArguments DEF FlowInv
<1>3. args' = args /\ occurrences' = Counted(h) /\ fate' = Marked(p, "positional", h)
  BY DEF HandleArgument
<1>4. \A o \in Options : occurrences'[o] = occurrences[o]
  <2>1. h \in Flags /\ \A o \in Options : o \in Flags /\ o # h
    BY <1>2, AppAssumption DEF Flags
  <2>. QED  BY <1>1, <1>3, <2>1, CountedElsewhere
<1>5. FlagsOfTokens' /\ \A o \in Options : TokensOf(o) \subseteq TokensOf(o)'
  <2>1. "positional" \in Roles \ {"unread"}
    BY DEF Roles
  <2>. QED  BY <1>2, <1>3, <2>1, MarkedPlain
<1>6. NothingLacking'
  <2>1. phase' = "arguments" \/ (phase' = "done" /\ err' # "none")
    <3>1. \/ \E e : e # "none" /\ Fail(e)
          \/ UNCHANGED <<phase, err>>
      BY DEF HandleArgument
    <3>. QED  BY <3>1 DEF HandleArgument, AtArgument, Fail
  <2>. QED  BY <2>1 DEF NothingLacking, Succeeded
<1>. QED  BY <1>3, <1>4, <1>5, <1>6, OptionsUntouched

LEMMA PositionsFinite ==
  ASSUME TypeOK
  PROVE  /\ IsFiniteSet(Positions) /\ Positions \subseteq Nat
         /\ \A S \in SUBSET Positions :
              IsFiniteSet(S) /\ Cardinality(S) \in Nat /\ S \subseteq Int
<1>1. Positions = 1 .. Len(args) /\ Len(args) \in Int /\ 1 \in Int
  BY ArgsType DEF Positions
<1>2. IsFiniteSet(Positions)
  BY <1>1, FS_Interval
<1>3. Positions \subseteq Nat
  BY <1>1
<1>4. ASSUME NEW S \in SUBSET Positions
      PROVE  IsFiniteSet(S) /\ Cardinality(S) \in Nat /\ S \subseteq Int
  <2>1. IsFiniteSet(S)
    BY <1>2, FS_Subset
  <2>. QED  BY <1>3, <2>1, FS_CardinalityType
<1>. QED  BY <1>2, <1>3, <1>4

(* The token in hand becomes an option's, and the next may be its value.   *)
OptionRole == IF AppearedTooManyTimes THEN "refused" ELSE "option"

LEMMA OptionMarks ==
  ASSUME ReqInv, AppearedTooManyTimes \/ MissingValue \/ ApplyOption
  PROVE  /\ phase = "loop" /\ args' = args /\ Found \in Options
         /\ arg \in Positions /\ arg = arg_index /\ \A i \in Positions : Read(i) => i < arg
         /\ fate[arg].role = "unread" /\ fate[arg].flag = Nil
         /\ fate'[arg] = [role |-> OptionRole, flag |-> Found]
         /\ \A i \in Positions :
              \/ fate'[i] = fate[i] /\ i # arg
              \/ i = arg /\ fate'[i] = [role |-> OptionRole, flag |-> Found]
              \/ fate[i].role = "unread" /\ fate'[i] = [role |-> "value", flag |-> Found]
<1> DEFINE marked == Marked(arg, OptionRole, Found)
<1>1. TypeOK /\ LineInv /\ FlowInv
  BY DEF ReqInv, OrderInv, FlowInv, LineInv
<1>2. phase = "loop" /\ arg # Done /\ args' = args /\ Found # Nil
  BY ApplyOptionIs DEF AppearedTooManyTimes, MissingValue, ApplyTo, OptionAccepted, AtOption, InLoop
<1>3. arg \in Positions /\ arg # Message
  <2>1. arg \in Positions \cup {Message}
    BY <1>1, <1>2 DEF TypeOK
  <2>2. arg # Message
    BY ApplyOptionIs DEF AppearedTooManyTimes, MissingValue, ApplyTo, OptionAccepted, AtOption, IsOption,
           Token, OptionForms
  <2>. QED  BY <2>1, <2>2
<1>4. Found \in Options
  BY <1>1, <1>2, FoundType DEF Found
<1>5. /\ fate[arg].role = "unread" /\ fate[arg].flag = Nil
      /\ fate \in [Positions -> [role : Roles, flag : Flags \cup {Nil}]]
      /\ Nil \notin Options
  BY <1>1, <1>2, <1>3, UnreadInHand, NilAssumption DEF ReqInv, FlagsOfTokens, TypeOK, Flags
<1>6. \A i \in Positions :
        marked[i] = IF i = arg THEN [role |-> OptionRole, flag |-> Found] ELSE fate[i]
  BY <1>3, <1>5 DEF Marked
<1>7. PICK v :
        /\ v # arg
        /\ v \in Positions => fate[v].role = "unread"
        /\ \A i \in Positions :
             fate'[i] = IF i = v THEN [role |-> "value", flag |-> Found] ELSE marked[i]
  <2>1. CASE ApplyOption /\ TakesNextToken(Found)
    <3> DEFINE j == NextRead(arg_index)
    <3>1. arg = arg_index /\ Len(args) \in Nat /\ Positions = 1 .. Len(args)
      BY <1>1, <1>2, <1>3, ArgsType DEF LineInv, ReadInOrder, Positions
    <3>2. j = arg_index + 1 /\ j \in Positions
      <4>1. NextArg(arg_index) # Done
        BY <2>1, ApplyOptionIs DEF ApplyTo
      <4>. QED  BY <1>3, <3>1, <4>1 DEF NextArg, NextRead
    <3>3. j # arg /\ ~(j <= arg_index)
      BY <1>3, <3>1, <3>2
    <3>4. fate[j].role = "unread"
      BY <1>1, <3>2, <3>3 DEF LineInv, ReadInOrder, Read
    <3>5. fate' = [marked EXCEPT ![j] = [role |-> "value", flag |-> Found]]
      BY <2>1, ApplyOptionIs DEF ApplyTo, OptionRole, AppearedTooManyTimes
    <3>6. DOMAIN marked = Positions
      BY <1>5 DEF Marked
    <3> HIDE DEF marked, j
    <3>7. \A i \in Positions :
            fate'[i] = IF i = j THEN [role |-> "value", flag |-> Found] ELSE marked[i]
      BY <3>2, <3>5, <3>6
    <3>. QED  BY <3>3, <3>4, <3>7
  <2>2. CASE ~(ApplyOption /\ TakesNextToken(Found))
    <3>1. fate' = marked
      BY <2>2, ApplyOptionIs DEF OptionRole, AppearedTooManyTimes, MissingValue, ApplyTo
    <3>2. Message \notin Positions
      BY <1>1, ArgsType DEF Positions, Message
    <3> HIDE DEF marked
    <3>. QED  BY <1>3, <3>1, <3>2
  <2>. QED  BY <2>1, <2>2
<1> HIDE DEF marked
<1>8. \A i \in Positions :
        \/ fate'[i] = fate[i] /\ i # arg
        \/ i = arg /\ fate'[i] = [role |-> OptionRole, flag |-> Found]
        \/ fate[i].role = "unread" /\ fate'[i] = [role |-> "value", flag |-> Found]
  BY <1>6, <1>7
<1>9. arg = arg_index /\ \A i \in Positions : Read(i) => i < arg
  <2>1. arg = arg_index /\ \A i \in Positions : Read(i) => i <= arg_index
    BY <1>1, <1>2, <1>3 DEF LineInv, ReadInOrder
  <2>2. ~Read(arg)
    BY <1>5 DEF Read
  <2>3. Positions \subseteq Nat
    BY <1>1, PositionsFinite
  <2>. QED  BY <1>3, <2>1, <2>2, <2>3
<1>10. fate'[arg] = [role |-> OptionRole, flag |-> Found]
  BY <1>3, <1>6, <1>7
<1>. QED  BY <1>2, <1>3, <1>4, <1>5, <1>8, <1>9, <1>10

(* An option that is counted has a token more, the one in hand.            *)
LEMMA OptionReq ==
  ASSUME ReqInv, OrderInv', AppearedTooManyTimes \/ MissingValue \/ ApplyOption
  PROVE  ReqInv'
<1>1. TypeOK /\ LineInv /\ FlowInv
  BY DEF ReqInv, OrderInv, FlowInv, LineInv
<1>2. phase = "loop" /\ args' = args /\ Found \in Options /\ arg \in Positions
  BY OptionMarks
<1>3. /\ fate[arg].role = "unread" /\ fate[arg].flag = Nil /\ Nil \notin Options
      /\ fate'[arg] = [role |-> OptionRole, flag |-> Found]
  BY OptionMarks, NilAssumption DEF Flags
<1>4. occurrences' = occurrences \/ (occurrences' = Counted(Found) /\ OptionRole = "option")
  BY ApplyOptionIs DEF AppearedTooManyTimes, MissingValue, ApplyTo, OptionRole
<1>5. \A i \in Positions :
        \/ fate'[i] = fate[i] /\ i # arg
        \/ i = arg /\ fate'[i] = [role |-> OptionRole, flag |-> Found]
        \/ fate[i].role = "unread" /\ fate'[i] = [role |-> "value", flag |-> Found]
  BY OptionMarks
<1>6. Positions' = Positions
  BY <1>2 DEF Positions
<1>7. FlagsOfTokens'
  <2> SUFFICES ASSUME NEW i \in Positions
               PROVE  /\ fate'[i].role = "unread" => fate'[i].flag = Nil
                      /\ fate'[i].role = "positional" => fate'[i].flag \notin Options
    BY <1>6 DEF FlagsOfTokens
  <2>1. CASE fate'[i] = fate[i]
    BY <2>1 DEF ReqInv, FlagsOfTokens
  <2>2. CASE fate'[i].role \in {"option", "refused", "value"}
    BY <2>2
  <2>. QED  BY <1>5, <2>1, <2>2 DEF OptionRole
<1>8. \A o \in Options : TokensOf(o) \subseteq TokensOf(o)'
  <2> SUFFICES ASSUME NEW o \in Options, NEW i \in Positions,
                      fate[i].flag = o, fate[i].role \in {"option", "positional"}
               PROVE  fate'[i].flag = o /\ fate'[i].role \in {"option", "positional"}
    BY <1>6 DEF TokensOf
  <2>1. fate[i].role # "unread"
    BY <1>3 DEF ReqInv, FlagsOfTokens
  <2>2. i # arg
    BY <1>3, <2>1
  <2>. QED  BY <1>5, <2>1, <2>2
<1>9. ASSUME NEW o \in Options, o = Found, OptionRole = "option"
       PROVE  arg \in TokensOf(o)' /\ arg \notin TokensOf(o)
  <2>1. fate'[arg] = [role |-> "option", flag |-> o]
    BY <1>3, <1>9
  <2>2. fate'[arg].role = "option" /\ fate'[arg].flag = o
    BY <2>1
  <2>3. arg \in TokensOf(o)'
    BY <1>2, <1>6, <2>2 DEF TokensOf
  <2>4. arg \notin TokensOf(o)
    BY <1>3 DEF TokensOf
  <2>. QED  BY <2>3, <2>4
<1>10. IsFiniteSet(Positions)
  <2>1. Positions = 1 .. Len(args) /\ Len(args) \in Int /\ 1 \in Int
    BY <1>1, ArgsType DEF Positions
  <2>. QED  BY <2>1, FS_Interval
<1>11. ASSUME NEW o \in Options, ~Repeatable(o)
       PROVE  occurrences'[o] <= Cardinality(TokensOf(o)')
  <2>1. /\ IsFiniteSet(TokensOf(o)) /\ Cardinality(TokensOf(o)) \in Nat
        /\ occurrences[o] <= Cardinality(TokensOf(o))
    BY <1>1, <1>11, TokensFinite DEF ReqInv
  <2>2. IsFiniteSet(TokensOf(o)') /\ Cardinality(TokensOf(o)') \in Nat
    <3>1. TokensOf(o)' \subseteq Positions
      BY <1>6 DEF TokensOf
    <3>. QED  BY <1>10, <3>1, FS_Subset, FS_CardinalityType
  <2>3. occurrences \in [Flags -> Nat] /\ o \in Flags /\ Found \in Flags
    BY <1>1, <1>2 DEF TypeOK, Flags
  <2>4. CASE occurrences'[o] = occurrences[o]
    <3>1. Cardinality(TokensOf(o)) <= Cardinality(TokensOf(o)')
      BY <1>8, <2>2, FS_Subset
    <3>. QED  BY <2>1, <2>2, <2>3, <2>4, <3>1
  <2>5. CASE occurrences'[o] # occurrences[o]
    <3>1. o = Found /\ occurrences'[o] = occurrences[o] + 1 /\ OptionRole = "option"
      BY <1>4, <2>3, <2>5 DEF Counted
    <3>2. TokensOf(o) \cup {arg} \subseteq TokensOf(o)' /\ arg \notin TokensOf(o)
      BY <1>8, <1>9, <3>1
    <3>3. Cardinality(TokensOf(o) \cup {arg}) = Cardinality(TokensOf(o)) + 1
      BY <2>1, <3>2, FS_AddElement
    <3>4. Cardinality(TokensOf(o) \cup {arg}) <= Cardinality(TokensOf(o)')
      BY <2>2, <3>2, FS_Subset
    <3>. QED  BY <2>1, <2>2, <2>3, <3>1, <3>3, <3>4
  <2>. QED  BY <2>4, <2>5
<1>12. NothingLacking'
  <2>1. phase' = "loop" \/ (phase' = "done" /\ err' # "none")
    <3>1. CASE ApplyOption
      <4>1. \/ \E e : e # "none" /\ Fail(e)
            \/ UNCHANGED <<phase, err>>
        BY <3>1, ApplyOptionIs DEF ApplyTo
      <4>. QED  BY <1>2, <4>1 DEF Fail
    <3>. QED  BY <1>2, <3>1 DEF AppearedTooManyTimes, MissingValue, Fail
  <2>. QED  BY <2>1 DEF NothingLacking, Succeeded
<1>. QED  BY <1>7, <1>11, <1>12 DEF ReqInv, Repeatable

(* The last loops go over everything that cmd requires.                    *)
LEMMA CheckReq ==
  ASSUME ReqInv, OrderInv', CheckPassed \/ ApplyDefault \/ Succeed
  PROVE  ReqInv'
<1>1. TypeOK
  BY DEF ReqInv, OrderInv, FlowInv, LineInv
<1>2. /\ UNCHANGED <<args, cmd, occurrences, fate, local_arguments>> /\ phase = "check"
  BY DEF CheckPassed, ApplyDefault, Succeed, AtCheck
<1>3. Required' = Required /\ \A f : Lacking(f)' <=> Lacking(f)
  BY <1>2 DEF Required, Lacking
<1>4. DOMAIN Required = 1 .. Len(Required) /\ Len(Required) \in Nat /\ next \in Nat /\ next >= 1
  <2>1. cmd \in Commands /\ local_arguments \in Seq(Arguments) /\ next \in Nat \ {0}
    BY <1>1 DEF TypeOK
  <2>2. options[cmd] \in Seq(Options)
    BY <2>1, AppAssumption
  <2>3. Required \in Seq(Options \cup Arguments)
    BY <2>1, <2>2 DEF Required
  <2>. QED  BY <2>1, <2>3
<1>5. \A k \in DOMAIN Required :
        k < next /\ flag[Required[k]].default = Nil => ~Lacking(Required[k])
  BY <1>2 DEF ReqInv, NothingLacking
<1>6. NothingLacking'
  <2>1. CASE phase' = "done" /\ err' # "none"
    BY <2>1 DEF NothingLacking, Succeeded
  <2>2. CASE (CheckPassed \/ ApplyDefault) /\ phase' # "done"
    <3>1. /\ next' = next + 1 /\ phase' = "check"
          /\ ~Lacking(Required[next]) \/ flag[Required[next]].default # Nil
      <4>1. CASE CheckPassed
        BY <1>2, <4>1 DEF CheckPassed
      <4>2. CASE ApplyDefault
        BY <1>2, <2>2, <4>2 DEF ApplyDefault, Fail
      <4>. QED  BY <2>2, <4>1, <4>2
    <3>2. \A k \in DOMAIN Required : k < next' => k < next \/ k = next
      BY <1>4, <3>1
    <3>. QED  BY <1>3, <1>5, <3>1, <3>2 DEF NothingLacking
  <2>3. CASE Succeed
    <3>1. next \notin DOMAIN Required /\ phase' = "done"
      BY <2>3 DEF Succeed
    <3>2. \A k \in DOMAIN Required : k < next
      BY <1>4, <3>1
    <3>. QED  BY <1>3, <1>5, <3>1, <3>2 DEF NothingLacking
  <2>4. \/ phase' = "done" /\ err' # "none"
        \/ (CheckPassed \/ ApplyDefault) /\ phase' # "done"
        \/ Succeed
    BY <1>2 DEF CheckPassed, ApplyDefault, Fail
  <2>. QED  BY <2>1, <2>2, <2>3, <2>4
<1>7. FlagsOfTokens' /\ \A o \in Options : TokensOf(o) \subseteq TokensOf(o)'
  BY <1>2 DEF ReqInv, FlagsOfTokens, TokensOf, Positions
<1>. QED  BY <1>2, <1>6, <1>7, OptionsUntouched

LEMMA ReqInvInit == Init => ReqInv
<1> SUFFICES ASSUME Init PROVE ReqInv
  OBVIOUS
<1>1. OrderInv
  BY OrderInvInit
<1>2. TypeOK
  BY InitTypeOK
<1>3. phase = "visit" /\ \A f \in Flags : occurrences[f] = 0
  BY DEF Init
<1>4. FlagsOfTokens
  BY DEF Init, FlagsOfTokens, Positions
<1>5. \A o \in Options : occurrences[o] <= Cardinality(TokensOf(o))
  BY <1>2, <1>3, TokensFinite DEF Flags
<1>6. NothingLacking
  BY <1>3 DEF NothingLacking, Succeeded
<1>. QED  BY <1>1, <1>4, <1>5, <1>6 DEF ReqInv

LEMMA ReqInvStep == ReqInv /\ TypeOK' /\ [Next]_vars => ReqInv'
<1> SUFFICES ASSUME ReqInv, TypeOK', [Next]_vars PROVE ReqInv'
  OBVIOUS
<1>1. OrderInv'
  BY OrderInvStep DEF ReqInv
<1>2. CASE Next
  BY <1>1, <1>2, QuietReq, HandleArgumentReq, OptionReq, CheckReq DEF Next
<1>3. CASE UNCHANGED vars
  <2>1. /\ NothingLacking' <=> NothingLacking
        /\ FlagsOfTokens' <=> FlagsOfTokens
        /\ \A o : TokensOf(o)' = TokensOf(o)
    BY <1>3 DEF NothingLacking, Succeeded, Required, Lacking, FlagsOfTokens, TokensOf,
                Positions, vars
  <2>. QED  BY <1>1, <1>3, <2>1 DEF ReqInv, Repeatable, vars
<1>. QED  BY <1>2, <1>3

(* A parse that succeeds gave its command what it requires, each option    *)
(* with that many tokens of its own, each argument unless it is full first.*)
THEOREM RequiredGiven == Spec => []RequirementsMet
<1>1. ReqInv => RequirementsMet
  <2> SUFFICES ASSUME ReqInv, Succeeded PROVE RequirementsMet
    BY DEF RequirementsMet
  <2>1. TypeOK
    BY DEF ReqInv, OrderInv, FlowInv, LineInv
  <2>2. /\ options[cmd] \in Seq(Options) /\ arguments[cmd] \in Seq(Arguments)
        /\ local_arguments \in Seq(Arguments)
    BY <2>1, AppAssumption DEF TypeOK
  <2>3. \A k \in DOMAIN Required :
          flag[Required[k]].default = Nil => ~Lacking(Required[k])
    BY DEF ReqInv, NothingLacking, Succeeded
  <2>4. occurrences \in [Flags -> Nat]
    BY <2>1 DEF TypeOK
  <2>5. ASSUME NEW k \in DOMAIN options[cmd],
               ~Repeatable(options[cmd][k]), flag[options[cmd][k]].default = Nil
        PROVE  Cardinality(TokensOf(options[cmd][k])) >= flag[options[cmd][k]].min_count
    <3> DEFINE o == options[cmd][k]
    <3>1. o \in Options /\ o \in Flags
      BY <2>2 DEF Flags
    <3>2. k \in DOMAIN Required /\ Required[k] = o
      BY <2>2 DEF Required
    <3>3. ~Lacking(o)
      BY <2>3, <2>5, <3>2
    <3>4. occurrences[o] <= Cardinality(TokensOf(o))
      BY <2>5, <3>1 DEF ReqInv
    <3>5. /\ occurrences[o] \in Nat /\ Cardinality(TokensOf(o)) \in Nat
          /\ flag[o].min_count \in Nat
      BY <2>1, <2>4, <3>1, TokensFinite, FlagType
    <3>. QED  BY <3>3, <3>4, <3>5 DEF Lacking
  <2>6. ASSUME NEW k \in DOMAIN arguments[cmd],
               \/ flag[arguments[cmd][k]].max_count = Unbound
               \/ flag[arguments[cmd][k]].min_count <= flag[arguments[cmd][k]].max_count
        PROVE  occurrences[arguments[cmd][k]] >= flag[arguments[cmd][k]].min_count
    <3> DEFINE a == arguments[cmd][k]
               j == k - Left
    <3>1. a \in Arguments /\ a \in Flags
      BY <2>2 DEF Flags
    <3>2. occurrences[a] \in Nat /\ flag[a].min_count \in Nat
      BY <2>4, <3>1, FlagType
    <3>3. /\ Left \in Nat /\ Left = Len(arguments[cmd]) - Len(local_arguments)
          /\ Len(arguments[cmd]) \in Nat /\ Len(local_arguments) \in Nat
          /\ k \in 1 .. Len(arguments[cmd])
      <4>1. Left >= 0
        BY DEF ReqInv, OrderInv, HasCommand
      <4>. QED  BY <2>2, <4>1 DEF Left
    <3>4. CASE k <= Left
      <4>1. k \in 1 .. Left
        BY <3>3, <3>4
      <4>2. occurrences[a] = flag[a].max_count
        BY <4>1 DEF ReqInv, OrderInv, HasCommand
      <4>3. flag[a].max_count # Unbound
        BY <3>2, <4>2, NilAssumption
      <4>. QED  BY <2>6, <3>2, <4>2, <4>3
    <3>5. CASE k > Left
      <4>1. j \in 1 .. Len(local_arguments) /\ Left + j = k
        BY <3>3, <3>5
      <4>2. local_arguments[j] = a
        <5>1. j \in DOMAIN local_arguments
          BY <2>2, <4>1
        <5>2. local_arguments[j] = arguments[cmd][Left + j]
          BY <5>1 DEF ReqInv, OrderInv, HasCommand
        <5>. QED  BY <4>1, <5>2
      <4> HIDE DEF j
      <4>3. /\ Len(options[cmd]) + j \in DOMAIN Required
            /\ Required[Len(options[cmd]) + j] = local_arguments[j]
        BY <2>2, <4>1 DEF Required
      <4>4. flag[a].default = Nil
        BY <3>1, AppAssumption
      <4>5. ~Lacking(a)
        BY <2>3, <4>2, <4>3, <4>4
      <4>. QED  BY <3>2, <4>5 DEF Lacking
    <3>. QED  BY <3>3, <3>4, <3>5
  <2>. QED  BY <2>5, <2>6 DEF RequirementsMet
<1>. QED  BY ReqInvInit, ReqInvStep, <1>1, TypeCorrect, PTL DEF Spec

---------------------------------------------------------------------------
(* An option given too often is refused, and its message becomes a word.   *)

(* A step leaves a token alone, or gives a role to one that has no flag    *)
(* yet: that of an argument or of none, or in handle_option an option's.   *)
Plain(i) ==
  /\ fate[i].role \in {"unread", "positional"} /\ fate[i].flag \notin Options
  /\ fate'[i].role # "refused" /\ fate'[i].flag \notin Options

Optional(i) ==
  /\ fate[i].role = "unread" /\ fate[i].flag \notin Options
  /\ \/ AppearedTooManyTimes /\ fate'[i].role = "refused" /\ fate'[i].flag = Found
     \/ MissingValue \/ ApplyOption
  /\ AppearedTooManyTimes => i = arg
  /\ ~AppearedTooManyTimes => fate'[i].role \in {"option", "value"}

LEMMA MarkedSteps ==
  ASSUME ReqInv, NEW p \in Positions \cup {Message}, NEW role \in Roles \ {"refused"},
         NEW f, f \notin Options, fate' = Marked(p, role, f),
         p # Message => fate[p].role = "unread" \/ fate[p].role = "positional"
  PROVE  \A i \in Positions : fate'[i] = fate[i] \/ Plain(i)
<1>1. TypeOK /\ FlagsOfTokens
  BY DEF ReqInv, OrderInv, FlowInv, LineInv
<1>2. fate \in [Positions -> [role : Roles, flag : Flags \cup {Nil}]]
  BY <1>1 DEF TypeOK
<1>3. Nil \notin Options
  BY NilAssumption DEF Flags
<1>4. \A i \in Positions :
        \/ fate'[i] = fate[i]
        \/ i = p /\ p # Message /\ fate'[i].role = role /\ fate'[i].flag = f
  BY <1>2 DEF Marked
<1>. QED  BY <1>1, <1>3, <1>4 DEF Plain, FlagsOfTokens

LEMMA FateSteps ==
  ASSUME ReqInv, Next
  PROVE  args' = args /\ \A i \in Positions : fate'[i] = fate[i] \/ Plain(i) \/ Optional(i)
<1>1. TypeOK /\ LineInv /\ FlowInv /\ FlagsOfTokens
  BY DEF ReqInv, OrderInv, FlowInv, LineInv
<1>2. Nil \notin Options
  BY NilAssumption DEF Flags
<1>3. CASE \/ Visit \/ EndOfArgs \/ StartEating \/ RejectOption \/ UnknownCommand
           \/ LeaveUnparsed \/ EndOfArguments
           \/ CheckPassed \/ ApplyDefault \/ MissingRequired \/ Succeed
  BY <1>3 DEF Visit, EndOfArgs, StartEating, RejectOption, UnknownCommand, LeaveUnparsed,
              EndOfArguments, CheckPassed, ApplyDefault, MissingRequired, Succeed
<1>4. CASE Separator \/ Eat \/ EnterCommand
  <2>1. PICK role \in {"separator", "positional", "command"} : fate' = Marked(arg, role, Nil)
    BY <1>4 DEF Separator, Eat, EnterCommand
  <2>2. phase \in {"loop", "eat"} /\ arg # Done /\ args' = args
    BY <1>4 DEF Separator, Eat, EnterCommand, AtWord, InLoop
  <2>3. arg \in Positions \cup {Message}
    BY <1>1, <2>2 DEF TypeOK
  <2>4. arg # Message => fate[arg].role = "unread"
    BY <1>1, <2>2, <2>3, UnreadInHand
  <2>5. role \in Roles \ {"refused"}
    BY DEF Roles
  <2>6. \A i \in Positions : fate'[i] = fate[i] \/ Plain(i)
    BY <1>2, <2>1, <2>3, <2>4, <2>5, MarkedSteps
  <2>. QED  BY <2>2, <2>6
<1>5. CASE HandleArgument
  <2> DEFINE h == Head(local_arguments)
             p == positional[next]
  <2>1. local_arguments \in Seq(Arguments) /\ local_arguments # <<>> /\ next \in DOMAIN positional
    BY <1>1, <1>5, CmdArguments DEF HandleArgument, AtArgument
  <2>2. h \notin Options /\ p \in Positions \cup {Message}
        /\ (p # Message => fate[p].role = "positional")
    BY <1>1, <2>1, CmdArguments, AppAssumption DEF FlowInv
  <2>3. args' = args /\ fate' = Marked(p, "positional", h)
    BY <1>5 DEF HandleArgument
  <2>4. "positional" \in Roles \ {"refused"}
    BY DEF Roles
  <2> HIDE DEF h, p
  <2>5. \A i \in Positions : fate'[i] = fate[i] \/ Plain(i)
    BY <2>2, <2>3, <2>4, MarkedSteps
  <2>. QED  BY <2>3, <2>5
<1>6. CASE AppearedTooManyTimes \/ MissingValue \/ ApplyOption
  <2>1. /\ args' = args
        /\ \A i \in Positions :
             \/ fate'[i] = fate[i]
             \/ /\ i = arg /\ fate[i].role = "unread"
                /\ fate'[i] = [role |-> OptionRole, flag |-> Found]
             \/ fate[i].role = "unread" /\ fate'[i] = [role |-> "value", flag |-> Found]
    BY <1>6, OptionMarks
  <2>2. \A i \in Positions : fate[i].role = "unread" => fate[i].flag \notin Options
    BY <1>1, <1>2 DEF FlagsOfTokens
  <2>3. CASE AppearedTooManyTimes
    <3>1. fate' = Marked(arg, "refused", Found)
      BY <2>3 DEF AppearedTooManyTimes
    <3>2. fate \in [Positions -> [role : Roles, flag : Flags \cup {Nil}]]
      BY <1>1 DEF TypeOK
    <3>3. arg \in Positions /\ fate[arg].role = "unread"
      BY <1>6, OptionMarks
    <3>4. \A i \in Positions :
            \/ fate'[i] = fate[i]
            \/ i = arg /\ fate'[i] = [role |-> "refused", flag |-> Found]
      BY <3>1, <3>2 DEF Marked
    <3>. QED  BY <2>1, <2>2, <2>3, <3>3, <3>4 DEF Optional
  <2>4. CASE ~AppearedTooManyTimes
    <3>1. OptionRole = "option"
      BY <2>4 DEF OptionRole
    <3>. QED  BY <1>6, <2>1, <2>2, <2>4, <3>1 DEF Optional
  <2>. QED  BY <2>3, <2>4
<1>. QED  BY <1>3, <1>4, <1>5, <1>6 DEF Next

(* An option is only met while none has been refused.                      *)
LEMMA OptionsBeforeRefusal ==
  ASSUME ReqInv, AppearedTooManyTimes \/ MissingValue \/ ApplyOption
  PROVE  NoneRefused /\ arg \in Positions
<1>1. phase = "loop" /\ arg \in Positions /\ TypeOK
  BY OptionMarks DEF ReqInv, OrderInv, FlowInv, LineInv
<1>2. arg # Message
  BY <1>1, ArgsType DEF Positions, Message
<1>. QED  BY <1>1, <1>2 DEF ReqInv, OrderInv, FlowInv

(* A refused token keeps its role and its flag, and there is none before   *)
(* the option that appears too many times.                                 *)
LEMMA RefusedStays ==
  ASSUME ReqInv, Next
  PROVE  /\ \A i \in Positions : fate[i].role = "refused" => fate'[i] = fate[i]
         /\ ~AppearedTooManyTimes =>
              /\ \A i \in Positions : fate'[i].role = "refused" => fate'[i] = fate[i]
              /\ NoneRefused' <=> NoneRefused
         /\ AppearedTooManyTimes => ~NoneRefused'
<1>1. /\ Positions' = Positions
      /\ \A i \in Positions : fate'[i] = fate[i] \/ Plain(i) \/ Optional(i)
  BY FateSteps DEF Positions
<1>2. \A i \in Positions : fate[i].role = "refused" => fate'[i] = fate[i]
  BY <1>1 DEF Plain, Optional
<1>3. ~AppearedTooManyTimes =>
        \A i \in Positions : fate'[i].role = "refused" => fate'[i] = fate[i]
  BY <1>1 DEF Plain, Optional
<1>4. ~AppearedTooManyTimes => (NoneRefused' <=> NoneRefused)
  BY <1>1, <1>2, <1>3 DEF NoneRefused
<1>5. AppearedTooManyTimes => ~NoneRefused'
  <2> SUFFICES ASSUME AppearedTooManyTimes PROVE ~NoneRefused'
    OBVIOUS
  <2>1. arg \in Positions /\ fate'[arg] = [role |-> "refused", flag |-> Found]
    BY OptionMarks DEF OptionRole
  <2>2. fate'[arg].role = "refused"
    BY <2>1
  <2>. QED  BY <1>1, <2>1, <2>2 DEF NoneRefused
<1>. QED  BY <1>2, <1>3, <1>4, <1>5

(* The tokens of an option change only when it is applied.                 *)
LEMMA OptionTokensKept ==
  ASSUME ReqInv, Next, ~(MissingValue \/ ApplyOption), NEW o \in Options
  PROVE  TokensOf(o)' = TokensOf(o)
<1>1. /\ Positions' = Positions
      /\ \A i \in Positions : fate'[i] = fate[i] \/ Plain(i) \/ Optional(i)
  BY FateSteps DEF Positions
<1>2. \A i \in Positions :
        fate'[i].flag = o /\ fate'[i].role \in {"option", "positional"}
          <=> fate[i].flag = o /\ fate[i].role \in {"option", "positional"}
  BY <1>1 DEF Plain, Optional
<1>. QED  BY <1>1, <1>2 DEF TokensOf

---------------------------------------------------------------------------
(* The message is the first word, if it is one.                            *)
MessageRead == \E k \in DOMAIN positional : positional[k] = Message

WordsInv ==
  /\ phase \in {"visit", "loop"} => positional = <<>>
  /\ phase \in {"loop", "eat"} /\ arg = Message => positional = <<>>
  /\ \A k \in DOMAIN positional : positional[k] = Message => k = 1
  /\ phase \in {"loop", "eat"} => (~NoneRefused <=> arg = Message \/ MessageRead)
  /\ phase \in {"arguments", "check"} \/ Succeeded => (~NoneRefused <=> MessageRead)

LEMMA WordsLoop ==
  ASSUME ReqInv, WordsInv, Next, phase \in {"visit", "loop"}, phase' # "done" \/ err' = "none"
  PROVE  WordsInv'
<1>1. TypeOK /\ FlowInv
  BY DEF ReqInv, OrderInv, FlowInv, LineInv
<1>2. positional = <<>> /\ ~MessageRead
  BY DEF WordsInv, MessageRead
<1>3. \A i \in 0 .. Len(args) : NextArg(i) # Message
  BY <1>1, ArgsType DEF NextArg, Message, Done
<1>4. arg_index \in 0 .. Len(args)
  BY <1>1 DEF TypeOK
<1>5. ~AppearedTooManyTimes => (NoneRefused' <=> NoneRefused)
  BY RefusedStays
<1>6. CASE Visit
  BY <1>1, <1>3, <1>4, <1>5, <1>6 DEF Visit, WordsInv, MessageRead, FlowInv, Succeeded,
     AppearedTooManyTimes, OptionAccepted, AtOption, InLoop
<1>7. CASE EndOfArgs
  <2>1. /\ phase = "loop" /\ arg = Done /\ phase' = "arguments" /\ UNCHANGED <<positional, arg>>
        /\ ~AppearedTooManyTimes
    BY <1>7 DEF EndOfArgs, AppearedTooManyTimes, OptionAccepted, AtOption, InLoop
  <2>. QED  BY <1>2, <1>5, <2>1 DEF WordsInv, MessageRead, Done, Message
<1>8. CASE Separator
  <2>1. /\ phase = "loop" /\ arg # Message /\ phase' = "eat" /\ UNCHANGED positional
        /\ arg' = NextArg(arg_index) /\ ~AppearedTooManyTimes
    BY <1>8 DEF Separator, Token, InLoop, AppearedTooManyTimes, OptionAccepted, AtOption,
                IsOption, OptionForms
  <2>. QED  BY <1>2, <1>3, <1>4, <1>5, <2>1 DEF WordsInv, MessageRead, Succeeded
<1>9. CASE StartEating
  <2>1. /\ phase = "loop" /\ phase' = "eat" /\ UNCHANGED <<positional, arg>>
        /\ ~AppearedTooManyTimes
    BY <1>9 DEF StartEating, InLoop, AtWord, AppearedTooManyTimes, OptionAccepted, AtOption,
                IsOption, OptionForms
  <2>. QED  BY <1>2, <1>5, <2>1 DEF WordsInv, MessageRead, Succeeded
<1>10. CASE EnterCommand
  <2>1. phase' = "visit" /\ UNCHANGED positional
    BY <1>10 DEF EnterCommand
  <2>. QED  BY <1>2, <2>1 DEF WordsInv, Succeeded
<1>11. CASE AppearedTooManyTimes
  <2>1. phase' = phase /\ phase = "loop" /\ arg' = Message /\ UNCHANGED positional
    BY <1>11 DEF AppearedTooManyTimes, OptionAccepted, AtOption, InLoop
  <2>2. ~NoneRefused'
    BY <1>11, RefusedStays
  <2>. QED  BY <1>2, <2>1, <2>2 DEF WordsInv, Succeeded
<1>12. CASE ApplyOption
  <2> DEFINE j == IF TakesNextToken(Found) THEN NextRead(arg_index) ELSE arg_index
  <2>1. /\ phase = "loop" /\ UNCHANGED positional
        /\ phase' = phase /\ arg' = NextArg(j)
    <3>1. /\ phase = "loop" /\ UNCHANGED positional
          /\ \/ \E e : e # "none" /\ Fail(e)
             \/ phase' = phase /\ arg' = NextArg(j)
      BY <1>12, ApplyOptionIs DEF ApplyTo, OptionAccepted, AtOption, InLoop
    <3>. QED  BY <3>1 DEF Fail
  <2>2. j \in 0 .. Len(args)
    BY <1>1, <1>4, NextType
  <2>3. arg' # Message
    BY <1>3, <2>1, <2>2
  <2>4. ~AppearedTooManyTimes /\ NoneRefused
    BY <1>12, OptionsBeforeRefusal, ApplyOptionIs DEF ApplyTo, AppearedTooManyTimes
  <2>. QED  BY <1>2, <1>5, <2>1, <2>3, <2>4 DEF WordsInv, MessageRead, Succeeded
<1>. QED
  BY <1>6, <1>7, <1>8, <1>9, <1>10, <1>11, <1>12
  DEF Next, Eat, RejectOption, MissingValue, UnknownCommand, HandleArgument, LeaveUnparsed,
      EndOfArguments, CheckPassed, ApplyDefault, MissingRequired, Succeed, AtArgument, AtCheck, Fail

LEMMA WordsEat ==
  ASSUME ReqInv, WordsInv, Eat, Next
  PROVE  WordsInv'
<1>1. TypeOK
  BY DEF ReqInv, OrderInv, FlowInv, LineInv
<1>2. positional \in Seq(Positions \cup {Message}) /\ arg_index \in 0 .. Len(args)
  BY <1>1 DEF TypeOK
<1>3. arg' # Message
  BY <1>1, <1>2, ArgsType DEF Eat, NextArg, Message, Done
<1>4. NoneRefused' <=> NoneRefused
  <2>1. ~AppearedTooManyTimes
    BY DEF Eat, AppearedTooManyTimes, OptionAccepted, AtOption, InLoop
  <2>. QED  BY <2>1, RefusedStays
<1>5. phase = "eat" /\ phase' = "eat" /\ (~NoneRefused <=> arg = Message \/ MessageRead)
      /\ \A k \in DOMAIN positional : positional[k] = Message => k = 1
  BY DEF Eat, WordsInv
<1>6. CASE arg = Message
  <2>1. positional = <<>> /\ positional' = Append(positional, arg)
    BY <1>5, <1>6 DEF WordsInv, Eat, Token
  <2>2. positional' = <<Message>>
    BY <1>6, <2>1
  <2>3. MessageRead' /\ \A k \in DOMAIN positional' : k = 1
    BY <2>2 DEF MessageRead
  <2>. QED  BY <1>3, <1>4, <1>5, <1>6, <2>3 DEF WordsInv, Succeeded
<1>7. CASE arg # Message
  <2>1. /\ MessageRead' <=> MessageRead
        /\ \A k \in DOMAIN positional' : positional'[k] = Message => k = 1
    <3>1. CASE positional' = positional
      BY <1>5, <3>1 DEF MessageRead
    <3>2. CASE positional' = Append(positional, arg)
      <4>1. \A k \in DOMAIN positional' :
              (k \in DOMAIN positional /\ positional'[k] = positional[k]) \/ positional'[k] = arg
        BY <1>2, <3>2
      <4>2. \A k \in DOMAIN positional : k \in DOMAIN positional' /\ positional'[k] = positional[k]
        BY <1>2, <3>2
      <4>. QED  BY <1>5, <1>7, <4>1, <4>2 DEF MessageRead
    <3>. QED  BY <3>1, <3>2 DEF Eat
  <2>. QED  BY <1>3, <1>4, <1>5, <1>7, <2>1 DEF WordsInv, Succeeded
<1>. QED  BY <1>6, <1>7

LEMMA WordsLate ==
  ASSUME ReqInv, WordsInv, Next, UNCHANGED positional,
         \/ phase \in {"eat", "arguments", "check"} /\ ~Eat
         \/ phase' = "done" /\ err' # "none"
  PROVE  WordsInv'
<1>1. CASE phase' = "done" /\ err' # "none"
  BY <1>1 DEF WordsInv, Succeeded
<1>2. CASE phase \in {"eat", "arguments", "check"} /\ ~Eat
  <2>1. NoneRefused' <=> NoneRefused
    <3>1. ~AppearedTooManyTimes
      BY <1>2 DEF AppearedTooManyTimes, OptionAccepted, AtOption, InLoop
    <3>. QED  BY <3>1, RefusedStays
  <2>2. /\ phase = "eat" => arg = Done /\ phase' = "arguments"
        /\ phase' \in {"arguments", "check", "done"}
    BY <1>2, ApplyOptionIs
       DEF Next, Visit, EndOfArgs, Separator, RejectOption, AppearedTooManyTimes, MissingValue,
           EnterCommand, UnknownCommand, StartEating, HandleArgument, LeaveUnparsed,
           EndOfArguments, CheckPassed, ApplyDefault, MissingRequired, Succeed, OptionAccepted,
           AtOption, AtWord, InLoop, AtArgument, AtCheck, Fail
  <2>3. MessageRead' <=> MessageRead
    BY DEF MessageRead
  <2>4. ~NoneRefused <=> MessageRead
    BY <1>2, <2>2 DEF WordsInv, Done, Message
  <2>. QED  BY <2>1, <2>2, <2>3, <2>4 DEF WordsInv
<1>. QED  BY <1>1, <1>2

LEMMA WordsInvStep ==
  ASSUME ReqInv, WordsInv, Next
  PROVE  WordsInv'
<1>1. CASE phase \in {"visit", "loop"} /\ (phase' # "done" \/ err' = "none")
  BY <1>1, WordsLoop
<1>2. CASE phase \in {"visit", "loop"} /\ phase' = "done" /\ err' # "none"
  <2>1. UNCHANGED positional
    BY <1>2, ApplyOptionIs
       DEF Next, Visit, EndOfArgs, Separator, Eat, RejectOption, AppearedTooManyTimes,
           MissingValue, ApplyTo, EnterCommand, UnknownCommand, StartEating, HandleArgument,
           LeaveUnparsed, EndOfArguments, CheckPassed, ApplyDefault, MissingRequired, Succeed
  <2>. QED  BY <1>2, <2>1, WordsLate
<1>3. CASE Eat
  BY <1>3, WordsEat
<1>4. CASE phase \in {"eat", "arguments", "check"} /\ ~Eat
  <2>1. UNCHANGED positional
    BY <1>4, ApplyOptionIs
       DEF Next, Visit, EndOfArgs, Separator, RejectOption, AppearedTooManyTimes,
           MissingValue, ApplyTo, EnterCommand, UnknownCommand, StartEating, HandleArgument,
           LeaveUnparsed, EndOfArguments, CheckPassed, ApplyDefault, MissingRequired, Succeed
  <2>. QED  BY <1>4, <2>1, WordsLate
<1>5. phase \in {"visit", "loop", "eat", "arguments", "check"}
  BY ApplyOptionIs
     DEF Next, Visit, EndOfArgs, Separator, Eat, RejectOption, AppearedTooManyTimes,
         MissingValue, EnterCommand, UnknownCommand, StartEating, HandleArgument,
         LeaveUnparsed, EndOfArguments, CheckPassed, ApplyDefault, MissingRequired, Succeed,
         OptionAccepted, AtOption, AtWord, InLoop, AtArgument, AtCheck
<1>. QED  BY <1>1, <1>2, <1>3, <1>4, <1>5

---------------------------------------------------------------------------
(* A refused token is an option's that has as many as it may.              *)
RefusedFull ==
  \A i \in Positions : fate[i].role = "refused" =>
    /\ fate[i].flag \in Options
    /\ Cardinality(TokensOf(fate[i].flag)) = flag[fate[i].flag].max_count

ExcessInv == ReqInv /\ CountInv /\ WordsInv /\ RefusedFull

LEMMA RefusedFullStep ==
  ASSUME ReqInv, CountInv, RefusedFull, Next
  PROVE  RefusedFull'
<1>1. TypeOK /\ Positions' = Positions
  BY FateSteps DEF CountInv, Positions
<1>2. CASE AppearedTooManyTimes
  <2>1. NoneRefused /\ arg \in Positions /\ Found \in Options
    BY <1>2, OptionsBeforeRefusal, OptionMarks
  <2>2. ~MayOccur(Found) /\ ~(MissingValue \/ ApplyOption)
    BY <1>2, ApplyOptionIs DEF AppearedTooManyTimes, MissingValue, ApplyTo
  <2>3. ASSUME NEW o \in Options, o = Found
        PROVE  Cardinality(TokensOf(o)) = flag[o].max_count
    <3>1. ~Repeatable(o) /\ flag[o].max_count # Unbound /\ ~(occurrences[o] < flag[o].max_count)
      BY <2>2, <2>3 DEF MayOccur
    <3>2. o \in Flags /\ o \notin Arguments
      BY AppAssumption DEF Flags
    <3>3. /\ occurrences[o] <= flag[o].max_count
          /\ Cardinality(TokensOf(o)) <= occurrences[o]
          /\ occurrences[o] <= Cardinality(TokensOf(o))
      BY <3>1, <3>2 DEF CountInv, ReqInv
    <3>4. /\ flag[o].max_count \in Nat /\ occurrences[o] \in Nat
          /\ Cardinality(TokensOf(o)) \in Nat
      BY <1>1, <3>1, <3>2, FlagType, TokensFinite DEF TypeOK
    <3>. QED  BY <3>1, <3>3, <3>4
  <2>4. ASSUME NEW i \in Positions, fate'[i].role = "refused"
        PROVE  fate'[i].flag = Found
    <3>1. fate[i].role # "refused"
      BY <2>1 DEF NoneRefused
    <3>2. Plain(i) \/ Optional(i)
      BY <2>4, <3>1, FateSteps
    <3>. QED  BY <1>2, <2>2, <2>4, <3>2 DEF Plain, Optional
  <2>5. \A o \in Options : TokensOf(o)' = TokensOf(o)
    BY <2>2, OptionTokensKept
  <2>6. ASSUME NEW i \in Positions, fate'[i].role = "refused", NEW o, o = fate'[i].flag
        PROVE  o \in Options /\ Cardinality(TokensOf(o)') = flag[o].max_count
    BY <2>1, <2>3, <2>4, <2>5, <2>6
  <2>. QED  BY <1>1, <2>6 DEF RefusedFull
<1>3. CASE ~AppearedTooManyTimes
  <2>1. ASSUME NEW i \in Positions, fate'[i].role = "refused", NEW o, o = fate'[i].flag
        PROVE  o \in Options /\ Cardinality(TokensOf(o)') = flag[o].max_count
    <3>1. fate'[i] = fate[i] /\ fate[i].role = "refused"
      BY <1>3, <2>1, RefusedStays
    <3>2. o \in Options /\ Cardinality(TokensOf(o)) = flag[o].max_count
      BY <2>1, <3>1 DEF RefusedFull
    <3>3. ~(MissingValue \/ ApplyOption)
      BY <3>1, OptionsBeforeRefusal DEF NoneRefused
    <3>4. TokensOf(o)' = TokensOf(o)
      BY <3>2, <3>3, OptionTokensKept
    <3>. QED  BY <3>2, <3>4
  <2>. QED  BY <1>1, <2>1 DEF RefusedFull
<1>. QED  BY <1>2, <1>3

LEMMA ExcessInvInit == Init => ExcessInv
<1> SUFFICES ASSUME Init PROVE ExcessInv
  OBVIOUS
<1>1. ReqInv /\ CountInv
  BY ReqInvInit, InitCountInv
<1>2. NoneRefused /\ positional = <<>> /\ phase = "visit"
  BY DEF Init, NoneRefused, Positions
<1>. QED  BY <1>1, <1>2 DEF ExcessInv, WordsInv, RefusedFull, NoneRefused, Succeeded

LEMMA ExcessInvStep == ExcessInv /\ TypeOK' /\ [Next]_vars => ExcessInv'
<1> SUFFICES ASSUME ExcessInv, TypeOK', [Next]_vars PROVE ExcessInv'
  OBVIOUS
<1>1. ReqInv' /\ CountInv'
  BY ReqInvStep, CountInvStep DEF ExcessInv
<1>2. CASE Next
  BY <1>1, <1>2, WordsInvStep, RefusedFullStep DEF ExcessInv
<1>3. CASE UNCHANGED vars
  <2>1. WordsInv' <=> WordsInv
    BY <1>3 DEF WordsInv, NoneRefused, MessageRead, Succeeded, Positions, vars
  <2>2. RefusedFull' <=> RefusedFull
    BY <1>3 DEF RefusedFull, TokensOf, Positions, vars
  <2>. QED  BY <1>1, <2>1, <2>2 DEF ExcessInv
<1>. QED  BY <1>2, <1>3

(* No flag whose occurrences are counted is applied beyond its max_count;  *)
(* and an option given once more is refused, is no error, and makes the    *)
(* rest of the line words, the first of them the text of its message.      *)
THEOREM CountsBounded == Spec => []ExcessEndsOptions
<1>1. ExcessInv => ExcessEndsOptions
  <2> SUFFICES ASSUME ExcessInv PROVE ExcessEndsOptions
    OBVIOUS
  <2>1. TypeOK /\ FlowInv
    BY DEF ExcessInv, ReqInv, OrderInv, FlowInv, LineInv
  <2>2. ASSUME NEW f \in Flags, Capped(f)
        PROVE  Cardinality(TokensOf(f)) <= flag[f].max_count
    <3>1. /\ Cardinality(TokensOf(f)) <= occurrences[f]
          /\ occurrences[f] <= flag[f].max_count
      BY <2>2 DEF ExcessInv, CountInv, Capped, CanTake
    <3>2. /\ flag[f].max_count \in Nat /\ occurrences[f] \in Nat
          /\ Cardinality(TokensOf(f)) \in Nat
      BY <2>1, <2>2, FlagType, TokensFinite DEF TypeOK, Capped
    <3>. QED  BY <3>1, <3>2
  <2>3. ASSUME NEW i \in Positions, fate[i].role = "refused"
        PROVE  /\ Cardinality(TokensOf(fate[i].flag)) = flag[fate[i].flag].max_count
               /\ ReadAsWords(i)
    <3>1. Cardinality(TokensOf(fate[i].flag)) = flag[fate[i].flag].max_count
      BY <2>3 DEF ExcessInv, RefusedFull
    <3>2. ReadAsWords(i)
      <4>1. Flow!WellFormed(RoleOf)
        BY <2>1 DEF FlowInv
      <4>2. DOMAIN RoleOf = Positions /\ \A j \in Positions : RoleOf[j] = fate[j].role
        BY DEF RoleOf
      <4>3. \A j \in Positions : i < j => RoleOf[j] \in {"positional", "separator", "unread"}
        BY <2>3, <4>1, <4>2 DEF Flow!WellFormed
      <4>4. i \in Int /\ \A j \in Positions : j \in Int
        BY <2>1, ArgsType DEF Positions
      <4>. QED  BY <4>2, <4>3, <4>4 DEF ReadAsWords
    <3>. QED  BY <3>1, <3>2
  <2>4. ASSUME phase \in {"arguments", "check"} \/ Succeeded, NEW k \in DOMAIN positional
        PROVE  positional[k] = Message <=> k = 1 /\ \E i \in Positions : fate[i].role = "refused"
    BY <2>4 DEF ExcessInv, WordsInv, MessageRead, NoneRefused
  <2>. QED  BY <2>2, <2>3, <2>4 DEF ExcessEndsOptions
<1>. QED  BY ExcessInvInit, ExcessInvStep, <1>1, TypeCorrect, PTL DEF Spec

---------------------------------------------------------------------------
(* The context holds what the line said.                                   *)

(* A number above all of a set comes after all of them.                    *)
LEMMA NthOfMore ==
  ASSUME NEW S, IsFiniteSet(S), S \subseteq Int, NEW x \in Int, \A y \in S : y < x
  PROVE  /\ Cardinality(S) \in Nat /\ Cardinality(S \cup {x}) = Cardinality(S) + 1
         /\ \A k \in 1 .. Cardinality(S) : Nth(S \cup {x}, k) = Nth(S, k)
         /\ Nth(S \cup {x}, Cardinality(S) + 1) = x
<1> DEFINE T == S \cup {x}
           n == Cardinality(S)
<1>1. x \notin S
  OBVIOUS
<1>2. n \in Nat /\ Cardinality(T) = n + 1
  BY <1>1, FS_CardinalityType, FS_AddElement
<1>3. {z \in T : z < x} = S
  <2>1. ~(x < x)
    OBVIOUS
  <2>. QED  BY <2>1
<1>4. \A y \in S : {z \in T : z < y} = {z \in S : z < y}
  OBVIOUS
<1>5. ASSUME NEW y \in S
      PROVE  Cardinality({z \in S : z < y}) # n
  <2>1. {z \in S : z < y} \subseteq S /\ y \notin {z \in S : z < y}
    OBVIOUS
  <2>2. {z \in S : z < y} # S
    BY <2>1
  <2>. QED  BY <2>1, <2>2, FS_Subset
<1>6. ASSUME NEW k \in 1 .. n
      PROVE  Nth(T, k) = Nth(S, k)
  <2>1. Cardinality({z \in T : z < x}) # k - 1
    BY <1>2, <1>3
  <2>2. {y \in T : Cardinality({z \in T : z < y}) = k - 1}
          = {y \in S : Cardinality({z \in S : z < y}) = k - 1}
    BY <1>4, <2>1
  <2>. QED  BY <2>2 DEF Nth
<1>7. Nth(T, n + 1) = x
  <2>1. \A y \in S : Cardinality({z \in T : z < y}) # n
    BY <1>4, <1>5
  <2>2. {y \in T : Cardinality({z \in T : z < y}) = n} = {x}
    BY <1>3, <2>1
  <2>3. (n + 1) - 1 = n
    BY <1>2
  <2>. QED  BY <2>2, <2>3 DEF Nth
<1>. QED  BY <1>2, <1>6, <1>7

(* Every place of a set of tokens is one of its tokens.                    *)
Ranked(S) == \A k \in 1 .. Cardinality(S) : Nth(S, k) \in S

LEMMA RankedMore ==
  ASSUME NEW S, IsFiniteSet(S), S \subseteq Int, NEW x \in Int, \A y \in S : y < x, Ranked(S)
  PROVE  Ranked(S \cup {x})
<1> DEFINE n == Cardinality(S)
<1>1. n \in Nat /\ Cardinality(S \cup {x}) = n + 1 /\ Nth(S \cup {x}, n + 1) = x
      /\ \A k \in 1 .. n : Nth(S \cup {x}, k) = Nth(S, k)
  BY NthOfMore
<1>2. \A k \in 1 .. n : Nth(S, k) \in S
  BY DEF Ranked
<1> HIDE DEF n
<1>3. \A k \in 1 .. n + 1 : k \in 1 .. n \/ k = n + 1
  BY <1>1
<1>. QED  BY <1>1, <1>2, <1>3 DEF Ranked

(* What a token carries does not change once it has a role.                *)
LEMMA ValueAtKept ==
  ASSUME NEW i, args' = args, fate'[i].role = fate[i].role
  PROVE  ValueAt(i)' = ValueAt(i)
BY DEF ValueAt, Text, Token

LEMMA GivenKept ==
  ASSUME NEW S, Ranked(S), args' = args, \A i \in S : fate'[i].role = fate[i].role
  PROVE  Given(S)' = Given(S)
<1>1. \A k \in 1 .. Cardinality(S) : ValueAt(Nth(S, k))' = ValueAt(Nth(S, k))
  BY ValueAtKept DEF Ranked
<1>. QED  BY <1>1 DEF Given

LEMMA GivenType ==
  ASSUME TypeOK, NEW S \in SUBSET Positions
  PROVE  \E V : Given(S) \in Seq(V)
<1> DEFINE n == Cardinality(S)
           V == {ValueAt(Nth(S, k)) : k \in 1 .. n}
<1>1. n \in Nat
  BY PositionsFinite
<1>2. Given(S) \in [1 .. n -> V]
  BY DEF Given
<1> HIDE DEF n, V
<1>3. Given(S) \in Seq(V)
  BY <1>1, <1>2
<1>. QED  BY <1>3

LEMMA GivenOnceMore ==
  ASSUME TypeOK, args' = args, NEW S \in SUBSET Positions, NEW p \in Positions,
         \A i \in S : i < p, Ranked(S), \A i \in S : fate'[i].role = fate[i].role
  PROVE  Given(S \cup {p})' = Append(Given(S), ValueAt(p)')
<1>1. PICK T : T = S \cup {p}
  OBVIOUS
<1>2. p \in Int /\ IsFiniteSet(S) /\ S \subseteq Int
  BY PositionsFinite
<1>3. Given(S) = [k \in 1 .. Cardinality(S) |-> ValueAt(Nth(S, k))]
  BY DEF Given
<1>4. Given(T)' = [k \in 1 .. Cardinality(T) |-> ValueAt(Nth(T, k))']
  BY DEF Given
<1>5. /\ Cardinality(S) \in Nat /\ Cardinality(T) = Cardinality(S) + 1
      /\ \A k \in 1 .. Cardinality(S) : Nth(T, k) = Nth(S, k)
      /\ Nth(T, Cardinality(S) + 1) = p
  BY <1>1, <1>2, NthOfMore
<1> DEFINE n == Cardinality(S)
<1>6. \A k \in 1 .. n : ValueAt(Nth(S, k))' = ValueAt(Nth(S, k))
  BY ValueAtKept DEF Ranked
<1> HIDE DEF n
<1>7. n \in Nat /\ Len(Given(S)) = n
  BY <1>3, <1>5 DEF n
<1>8. \A k \in 1 .. n : ValueAt(Nth(T, k))' = Given(S)[k]
  <2>1. \A k \in 1 .. n : Nth(T, k) = Nth(S, k) /\ Given(S)[k] = ValueAt(Nth(S, k))
    BY <1>3, <1>5 DEF n
  <2>2. \A k \in 1 .. n : ValueAt(Nth(T, k))' = ValueAt(Nth(S, k))'
    BY <2>1
  <2>. QED  BY <1>6, <2>1, <2>2
<1>9. ValueAt(Nth(T, n + 1))' = ValueAt(p)'
  BY <1>5 DEF n
<1>10. Given(T)' = [k \in 1 .. n + 1 |-> ValueAt(Nth(T, k))']
  BY <1>4, <1>5 DEF n
<1>11. PICK v : v = ValueAt(p)'
  OBVIOUS
<1>12. PICK s : s = Given(S)
  OBVIOUS
<1> DEFINE V == {s[k] : k \in 1 .. n} \cup {v}
<1>13. s \in Seq(V) /\ v \in V /\ Len(s) = n
  <2>1. s = [k \in 1 .. n |-> s[k]]
    BY <1>3, <1>12 DEF n
  <2>2. v \in V /\ \A k \in 1 .. n : s[k] \in V
    OBVIOUS
  <2> HIDE DEF V
  <2>3. s \in [1 .. n -> V]
    BY <2>1, <2>2
  <2>4. s \in Seq(V)
    BY <1>7, <2>3
  <2>. QED  BY <1>7, <1>12, <2>2, <2>4
<1> HIDE DEF V
<1>14. /\ DOMAIN Append(s, v) = 1 .. n + 1
       /\ \A k \in 1 .. n : Append(s, v)[k] = s[k]
       /\ Append(s, v)[n + 1] = v
  BY <1>7, <1>13
<1>15. Append(s, v) = [k \in 1 .. n + 1 |-> Append(s, v)[k]]
  <2>1. Append(s, v) \in Seq(V) /\ Len(Append(s, v)) = n + 1
    BY <1>7, <1>13
  <2>2. Append(s, v) \in [1 .. n + 1 -> V]
    BY <2>1, LenProperties
  <2>. QED  BY <2>2
<1>16. \A k \in 1 .. n + 1 : ValueAt(Nth(T, k))' = Append(s, v)[k]
  <2>1. \A k \in 1 .. n + 1 : k \in 1 .. n \/ k = n + 1
    BY <1>7
  <2>. QED  BY <1>8, <1>9, <1>11, <1>12, <1>14, <2>1
<1>. QED  BY <1>1, <1>10, <1>11, <1>12, <1>15, <1>16

(* The last values of each key, once v is given too.                       *)
LEMMA LastOfMore ==
  ASSUME NEW V, NEW s \in Seq(V), NEW v \in V
  PROVE  LastOfEachKey(Append(s, v)) = {x \in LastOfEachKey(s) : KeyOf[x] # KeyOf[v]} \cup {v}
<1> DEFINE n == Len(s)
           t == Append(s, v)
<1>1. n \in Nat /\ DOMAIN s = 1 .. n
  OBVIOUS
<1>2. DOMAIN t = 1 .. n + 1 /\ (\A k \in 1 .. n : t[k] = s[k]) /\ t[n + 1] = v
  OBVIOUS
<1> HIDE DEF n, t
<1> DEFINE L(r, j) == \A k \in DOMAIN r : KeyOf[r[k]] = KeyOf[r[j]] => k <= j
<1>3. L(t, n + 1)
  BY <1>1, <1>2
<1>4. ASSUME NEW j \in 1 .. n
      PROVE  L(t, j) <=> L(s, j) /\ KeyOf[s[j]] # KeyOf[v]
  <2>1. ~(n + 1 <= j) /\ n + 1 \in 1 .. n + 1 /\ \A k \in 1 .. n + 1 : k \in 1 .. n \/ k = n + 1
    BY <1>1
  <2>2. 1 .. n \subseteq 1 .. n + 1
    BY <1>1
  <2>. QED  BY <1>1, <1>2, <2>1, <2>2
<1>5. 1 .. n + 1 = 1 .. n \cup {n + 1}
  BY <1>1
<1>6. LastOfEachKey(t) = {t[i] : i \in {j \in 1 .. n + 1 : L(t, j)}}
  BY <1>2 DEF LastOfEachKey
<1>7. LastOfEachKey(s) = {s[i] : i \in {j \in 1 .. n : L(s, j)}}
  BY <1>1 DEF LastOfEachKey
<1> HIDE DEF L
<1>8. ASSUME NEW x \in LastOfEachKey(t)
      PROVE  x = v \/ (x \in LastOfEachKey(s) /\ KeyOf[x] # KeyOf[v])
  <2>1. PICK j \in 1 .. n + 1 : L(t, j) /\ x = t[j]
    BY <1>6, <1>8
  <2>2. CASE j = n + 1
    BY <1>2, <2>1, <2>2
  <2>3. CASE j \in 1 .. n
    BY <1>2, <1>4, <1>7, <2>1, <2>3
  <2>. QED  BY <1>5, <2>2, <2>3
<1>9. v \in LastOfEachKey(t)
  BY <1>2, <1>3, <1>5, <1>6
<1>10. ASSUME NEW x \in LastOfEachKey(s), KeyOf[x] # KeyOf[v]
       PROVE  x \in LastOfEachKey(t)
  <2>1. PICK j \in 1 .. n : L(s, j) /\ x = s[j]
    BY <1>7, <1>10
  <2>2. L(t, j) /\ t[j] = x /\ j \in 1 .. n + 1
    BY <1>2, <1>4, <1>5, <1>10, <2>1
  <2>. QED  BY <1>6, <2>2
<1>. QED  BY <1>8, <1>9, <1>10 DEF t

(* What a field of that type holds when s was given: it is never taken for *)
(* one that was given nothing.                                             *)
Holds(type, y, s) == Gathered(type, y, s) /\ (s # <<>> => ~Falsy(y))

(* apply, given one value more.                                            *)
LEMMA StoreGathers ==
  ASSUME NEW type \in ReaderTypes, type # "tuple", NEW y, NEW v,
         type = "single" => v # FalseValue,
         NEW V, NEW s \in Seq(V), Holds(type, y, s)
  PROVE  Holds(type, Store(type, y, v), Append(s, v))
<1> DEFINE W == V \cup {v}
           t == Append(s, v)
<1>1. s \in Seq(W) /\ v \in W
  BY SeqMonotonic
<1>2. /\ t # <<>> /\ (s = <<>> => t = <<v>> /\ t[1] = v /\ Len(t) = 1)
      /\ s # <<>> => Len(t) # 1
      /\ Len(s) = 1 => s = <<s[1]>>
  <2>1. Len(t) = Len(s) + 1 /\ Len(s) \in Nat /\ (Len(s) = 0 => s = <<>>)
    BY <1>1, EmptySeq
  <2>2. t # <<>>
    BY <2>1, EmptySeq
  <2>3. s = <<>> => t = <<v>> /\ t[1] = v /\ Len(t) = 1
    OBVIOUS
  <2>4. Len(s) = 1 => s = <<s[1]>>
    OBVIOUS
  <2>. QED  BY <2>1, <2>2, <2>3, <2>4
<1>3. \A r, k : ~Falsy(Table(r, k)) /\ Table(r, k).items = r /\ Table(r, k).keyed = k
  BY DEF Falsy, Table, Absent, Scalar
<1>4. Falsy(Absent)
  BY DEF Falsy
<1>5. LastOfEachKey(t) = {u \in LastOfEachKey(s) : KeyOf[u] # KeyOf[v]} \cup {v}
  <2> HIDE DEF W
  <2>. QED  BY <1>1, LastOfMore
<1>6. \A u : Scalar(u).items = <<u>> /\ Scalar(u).keyed = {}
  BY DEF Scalar
<1> SUFFICES Holds(type, Store(type, y, v), t)
  OBVIOUS
<1>7. CASE s = <<>>
  <2>1. Store(type, y, v) = FirstValue(type, v)
    BY <1>4, <1>7 DEF Store, Holds, Gathered
  <2>2. CASE type = "single"
    <3>1. Store(type, y, v) = Scalar(v)
      BY <2>1, <2>2 DEF FirstValue
    <3>2. ~Falsy(Scalar(v))
      <4>1. Scalar(v).items = <<v>> /\ Scalar(v).kind = "scalar"
        BY DEF Scalar
      <4>2. Scalar(FalseValue).items = <<FalseValue>> /\ Absent.kind = "nil"
        BY DEF Scalar, Absent
      <4>3. <<v>> # <<FalseValue>>
        BY <2>2
      <4>. QED  BY <4>1, <4>2, <4>3 DEF Falsy
    <3> HIDE DEF W, t
    <3>. QED  BY <1>2, <1>7, <2>2, <3>1, <3>2 DEF Holds, Gathered
  <2>3. CASE type = "map"
    <3>1. Store(type, y, v) = Table(<<>>, {v})
      BY <2>1, <2>3 DEF FirstValue
    <3>2. LastOfEachKey(t) = {v}
      <4>1. LastOfEachKey(s) = {}
        BY <1>7 DEF LastOfEachKey
      <4>. QED  BY <1>5, <4>1
    <3> HIDE DEF W, t
    <3>. QED  BY <1>2, <1>3, <2>3, <3>1, <3>2 DEF Holds, Gathered
  <2>4. CASE type \in {"list", "tuple-list"}
    <3>1. Store(type, y, v) = Table(<<v>>, {})
      BY <2>1, <2>4 DEF FirstValue
    <3> HIDE DEF W, t
    <3>. QED  BY <1>2, <1>3, <1>7, <2>4, <3>1 DEF Holds, Gathered
  <2>. QED  BY <2>2, <2>3, <2>4 DEF ReaderTypes
<1>8. CASE s # <<>>
  <2>1. ~Falsy(y)
    BY <1>8 DEF Holds
  <2>2. CASE type = "map"
    <3>1. y = Table(<<>>, LastOfEachKey(s))
      BY <1>8, <2>2 DEF Holds, Gathered
    <3>2. Store(type, y, v) = Table(<<>>, SetKey(LastOfEachKey(s), v))
      BY <1>3, <2>1, <2>2, <3>1 DEF Store
    <3>3. SetKey(LastOfEachKey(s), v) = LastOfEachKey(t)
      BY <1>5 DEF SetKey
    <3> HIDE DEF W, t
    <3>. QED  BY <1>2, <1>3, <2>2, <3>2, <3>3 DEF Holds, Gathered
  <2>3. CASE type # "map"
    <3>1. Store(type, y, v) = Table(Append(y.items, v), y.keyed)
      BY <2>1, <2>3 DEF Store
    <3>2. y.items = s /\ y.keyed = {}
      <4>1. y = Table(s, {}) \/ (y = Scalar(s[1]) /\ Len(s) = 1)
        BY <1>8, <2>3 DEF Holds, Gathered, ReaderTypes
      <4>. QED  BY <1>2, <1>3, <1>6, <4>1
    <3>3. Store(type, y, v) = Table(t, {})
      BY <3>1, <3>2
    <3> HIDE DEF W, t
    <3>. QED  BY <1>2, <1>3, <1>8, <2>3, <3>3 DEF Holds, Gathered
  <2>. QED  BY <2>2, <2>3
<1>. QED  BY <1>7, <1>8

---------------------------------------------------------------------------
(* A field x of that type holds what the tokens read for it gave.          *)
FieldInv(type, x) ==
  Ranked(FedAt(x)) /\ Holds(type, ctx[x], Given(FedAt(x)))

ContextInv ==
  /\ ExcessInv
  /\ err = "none" =>
       \A f \in Flags : FromTheLine(Field(f)) => FieldInv(flag[f].type, Field(f))

(* A step that reads no token for the field x.                             *)
SameFed(x) ==
  /\ FedAt(x)' = FedAt(x)
  /\ \A i \in FedAt(x) : fate'[i].role = fate[i].role

(* One that reads the token p for it.                                      *)
OneMoreFed(x, p) ==
  /\ FedAt(x)' = FedAt(x) \cup {p}
  /\ \A i \in FedAt(x) : i < p /\ fate'[i].role = fate[i].role

LEMMA FieldKept ==
  ASSUME NEW x, NEW type, args' = args, ctx'[x] = ctx[x], SameFed(x), FieldInv(type, x)
  PROVE  FieldInv(type, x)'
<1>1. PICK S : S = FedAt(x)
  OBVIOUS
<1>2. FedAt(x)' = S
  BY <1>1 DEF SameFed
<1>3. Given(S)' = Given(S)
  BY <1>1, GivenKept DEF SameFed, FieldInv
<1>4. Given(FedAt(x))' = Given(S)'
  BY <1>2 DEF Given
<1>. QED  BY <1>1, <1>2, <1>3, <1>4 DEF FieldInv

LEMMA FieldGrows ==
  ASSUME TypeOK, NEW x, NEW type \in ReaderTypes, type # "tuple", NEW p \in Positions,
         NEW v, type = "single" => v # FalseValue, args' = args, OneMoreFed(x, p),
         v = ValueAt(p)', ctx'[x] = Store(type, ctx[x], v), FieldInv(type, x)
  PROVE  FieldInv(type, x)'
<1>1. PICK S : S = FedAt(x)
  OBVIOUS
<1>2. PICK T : T = S \cup {p}
  OBVIOUS
<1>3. FedAt(x)' = T /\ S \in SUBSET Positions
  BY <1>1, <1>2 DEF OneMoreFed, FedAt
<1>4. Ranked(S) /\ Holds(type, ctx[x], Given(S))
  BY <1>1 DEF FieldInv
<1>5. Given(T)' = Append(Given(S), v)
  <2>1. \A i \in S : i < p /\ fate'[i].role = fate[i].role
    BY <1>1 DEF OneMoreFed
  <2>2. Given(S \cup {p})' = Append(Given(S), ValueAt(p)')
    BY <1>3, <1>4, <2>1, GivenOnceMore
  <2>3. Given(T)' = Given(S \cup {p})'
    BY <1>2 DEF Given
  <2>. QED  BY <2>2, <2>3
<1>6. Given(FedAt(x))' = Given(T)'
  BY <1>3 DEF Given
<1>7. PICK V : Given(S) \in Seq(V)
  BY <1>3, GivenType
<1>8. Holds(type, ctx'[x], Append(Given(S), v))
  BY <1>4, <1>7, StoreGathers
<1>9. Ranked(T)
  <2>1. IsFiniteSet(S) /\ S \subseteq Int /\ p \in Int /\ \A i \in S : i < p
    BY <1>1, <1>3, PositionsFinite DEF OneMoreFed
  <2>. QED  BY <1>2, <1>4, <2>1, RankedMore
<1>. QED  BY <1>3, <1>5, <1>6, <1>8, <1>9 DEF FieldInv

---------------------------------------------------------------------------
(* What apply leaves of a field the line fills.                            *)
LEMMA AfterElsewhere ==
  ASSUME NEW f \in Flags, NEW c \in After(f), NEW x \in LineFields
  PROVE  c[x] = ctx[x]
<1>1. CASE c = ctx
  BY <1>1
<1>2. CASE c # ctx
  <2>1. PICK w \in writes[f] : c = Written(w)
    BY <1>2 DEF After
  <2>2. x \in Fields /\ x \notin DOMAIN w
    BY DEF LineFields
  <2>. QED  BY <2>1, <2>2 DEF Written
<1>. QED  BY <1>1, <1>2

LEMMA StoredElsewhere ==
  ASSUME TypeOK, NEW f \in Flags, NEW text, NEW c \in After(f), NEW x \in LineFields
  PROVE  Stored(f, text, c)[x]
           = IF x = Field(f) THEN Store(flag[f].type, ctx[x], Value(f, text)) ELSE ctx[x]
<1>1. c \in [Fields -> CtxValues] /\ c[x] = ctx[x] /\ x \in Fields
  BY AfterType, AfterElsewhere DEF LineFields
<1>. QED  BY <1>1 DEF Stored

LEMMA OutcomeElsewhere ==
  ASSUME TypeOK, NEW f \in Flags, NEW text \in Values \cup {Nil}, NEW out \in Outcomes(f, text),
         NEW x \in LineFields
  PROVE  /\ x # Field(f) => out.ctx[x] = ctx[x]
         /\ x = Field(f) /\ out.err = "none" =>
              /\ text \in flag[f].accepts
              /\ out.ctx[x] = Store(flag[f].type, ctx[x], text)
<1>1. \A e, c : Outcome(e, c).err = e /\ Outcome(e, c).ctx = c
  BY DEF Outcome
<1>2. x = Field(f) => ~flag[f].action /\ flag[f].default = Nil /\ flag[f].requires_arg
  BY DEF LineFields, Feeders, Keeps
<1>3. CASE ~Readable(f, text)
  <2>1. out = Outcome("invalid value", ctx)
    BY <1>3, OutcomeIs
  <2>2. out.ctx = ctx /\ out.err = "invalid value"
    BY <1>1, <2>1
  <2>. QED  BY <2>2
<1>4. CASE Readable(f, text)
  <2>1. PICK c \in After(f) :
          \/ out = Applied(f, text, c)
          \/ HasCallback(f) /\ out \in {Outcome("callback", c), Outcome("raised", c)}
    BY <1>4, OutcomeIs, Zenon
  <2>2. c[x] = ctx[x]
    BY AfterElsewhere
  <2>3. \/ out.ctx = c /\ (x = Field(f) => out.err # "none")
        \/ out.ctx = Stored(f, text, c)
    <3>1. CASE out = Applied(f, text, c)
      <4>1. \/ flag[f].action /\ out = Outcome("none", c)
            \/ out = Outcome("raised", c)
            \/ out = Outcome("none", Stored(f, text, c))
        BY <3>1 DEF Applied
      <4>. QED  BY <1>1, <1>2, <4>1
    <3>2. CASE out \in {Outcome("callback", c), Outcome("raised", c)}
      BY <1>1, <3>2
    <3>. QED  BY <2>1, <3>1, <3>2
  <2>4. x = Field(f) => Value(f, text) = text /\ text \in flag[f].accepts
    BY <1>2, <1>4 DEF Value, Readable
  <2>. QED  BY <2>2, <2>3, <2>4, StoredElsewhere
<1>. QED  BY <1>3, <1>4

(* The flags that share a field of the line.                               *)
LEMMA FieldFlags ==
  ASSUME NEW f \in Flags, NEW g \in Flags, Field(f) = Field(g), Field(f) \in LineFields
  PROVE  /\ flag[f].type = flag[g].type /\ flag[f].type \in ReaderTypes \ {"tuple"}
         /\ flag[f].type = "single" => FalseValue \notin flag[f].accepts
         /\ flag[f].requires_arg
<1>1. f \in Feeders[Field(f)] /\ g \in Feeders[Field(f)]
  BY FieldType DEF Feeders
<1>2. flag[f].type \in ReaderTypes
  BY AppAssumption DEF FlagTable
<1>. QED  BY <1>1, <1>2 DEF LineFields, Keeps

---------------------------------------------------------------------------
(* What a step does to the tokens read for a field.                        *)

(* A parse that goes on has not failed.                                    *)
LEMMA Running ==
  ASSUME ExcessInv, Next
  PROVE  TypeOK /\ ReqInv /\ WordsInv /\ args' = args /\ Positions' = Positions /\ err = "none"
<1>1. TypeOK /\ ReqInv /\ WordsInv /\ FlowInv
  BY DEF ExcessInv, ReqInv, OrderInv, FlowInv, LineInv
<1>2. phase \in {"visit", "loop", "eat", "arguments", "check"}
  BY ApplyOptionIs
     DEF Next, Visit, EndOfArgs, Separator, Eat, RejectOption, AppearedTooManyTimes, MissingValue,
         EnterCommand, UnknownCommand, StartEating, HandleArgument, LeaveUnparsed,
         EndOfArguments, CheckPassed, ApplyDefault, MissingRequired, Succeed,
         OptionAccepted, AtOption, AtWord, InLoop, AtArgument, AtCheck
<1>3. args' = args
  BY <1>1, FateSteps
<1>. QED  BY <1>1, <1>2, <1>3 DEF FlowInv, Positions

LEMMA FromTheLineBefore ==
  ASSUME ReqInv, Next, NEW x, FromTheLine(x)'
  PROVE  FromTheLine(x)
<1>1. \A i \in Positions : fate[i].role = "refused" => fate'[i] = fate[i]
  BY RefusedStays
<1>2. Positions' = Positions
  BY FateSteps DEF Positions
<1>. QED  BY <1>1, <1>2 DEF FromTheLine

(* Every token read for a flag of the field stays that, and one more at    *)
(* most joins them.                                                        *)
LEMMA SameFedIs ==
  ASSUME NEW x, Positions' = Positions,
         \A i \in Positions :
           \/ fate'[i] = fate[i]
           \/ /\ ~(fate[i].flag \in Feeders[x] /\ fate[i].role \in {"option", "positional"})
              /\ ~(fate'[i].flag \in Feeders[x] /\ fate'[i].role \in {"option", "positional"})
  PROVE  SameFed(x)
BY DEF SameFed, FedAt

LEMMA OneMoreFedIs ==
  ASSUME NEW x, Positions' = Positions, NEW p \in Positions,
         fate'[p].flag \in Feeders[x], fate'[p].role \in {"option", "positional"},
         \A i \in FedAt(x) : i < p /\ i # p,
         \A i \in Positions \ {p} :
           \/ fate'[i] = fate[i]
           \/ /\ ~(fate[i].flag \in Feeders[x] /\ fate[i].role \in {"option", "positional"})
              /\ ~(fate'[i].flag \in Feeders[x] /\ fate'[i].role \in {"option", "positional"})
  PROVE  OneMoreFed(x, p)
<1>1. \A i \in Positions \ {p} : i \in FedAt(x)' <=> i \in FedAt(x)
  BY DEF FedAt
<1>2. p \in FedAt(x)'
  BY DEF FedAt
<1>3. FedAt(x)' \subseteq Positions /\ FedAt(x) \subseteq Positions
  BY DEF FedAt
<1>4. FedAt(x)' = FedAt(x) \cup {p}
  BY <1>1, <1>2, <1>3
<1>5. \A i \in FedAt(x) : fate'[i].role = fate[i].role
  BY <1>3 DEF FedAt
<1>. QED  BY <1>4, <1>5 DEF OneMoreFed

Quiet ==
  \/ Visit \/ EndOfArgs \/ StartEating \/ RejectOption \/ UnknownCommand
  \/ Separator \/ Eat \/ EnterCommand \/ AppearedTooManyTimes
  \/ LeaveUnparsed \/ EndOfArguments \/ MissingRequired
  \/ CheckPassed \/ ApplyDefault \/ Succeed

LEMMA QuietFields ==
  ASSUME ExcessInv, Next, Quiet, NEW x \in Fields
  PROVE  SameFed(x)
<1>1. TypeOK /\ ReqInv /\ Positions' = Positions /\ LineInv
  BY Running DEF ReqInv, OrderInv, FlowInv
<1>2. Nil \notin Feeders[x]
  BY NilAssumption DEF Feeders
<1>3. CASE Separator \/ Eat \/ EnterCommand \/ AppearedTooManyTimes
  <2>1. PICK role, f : fate' = Marked(arg, role, f) /\ (f = Nil \/ role = "refused")
    BY <1>3 DEF Separator, Eat, EnterCommand, AppearedTooManyTimes
  <2>2. phase \in {"loop", "eat"} /\ arg # Done
    BY <1>3 DEF Separator, Eat, EnterCommand, AppearedTooManyTimes, OptionAccepted, AtOption,
                AtWord, InLoop
  <2>3. arg \in Positions => fate[arg].role = "unread"
    BY <1>1, <2>2, UnreadInHand
  <2>4. \A i \in Positions :
          \/ fate'[i] = fate[i]
          \/ i = arg /\ fate'[i] = [role |-> role, flag |-> f]
    BY <1>1, <2>1 DEF Marked, TypeOK
  <2>5. \A i : fate'[i] = [role |-> role, flag |-> f] =>
                 fate'[i].role = role /\ fate'[i].flag = f
    OBVIOUS
  <2>. QED  BY <1>1, <1>2, <2>1, <2>3, <2>4, <2>5, SameFedIs
<1>4. CASE ~(Separator \/ Eat \/ EnterCommand \/ AppearedTooManyTimes)
  <2>1. fate' = fate
    BY <1>4 DEF Quiet, Visit, EndOfArgs, StartEating, RejectOption, UnknownCommand, LeaveUnparsed,
                EndOfArguments, MissingRequired, CheckPassed, ApplyDefault, Succeed
  <2>. QED  BY <1>1, <2>1, SameFedIs
<1>. QED  BY <1>3, <1>4

(* The positional token handle_arguments has come to was in no field yet,  *)
(* and comes behind all that are in one.                                   *)
LEMMA TokenInTurn ==
  ASSUME ExcessInv, HandleArgument, NEW p, p = positional[next], p # Message
  PROVE  /\ p \in Positions /\ fate[p].role = "positional" /\ fate[p].flag = Nil
         /\ \A x \in Fields : \A i \in FedAt(x) : i < p /\ i # p
<1>1. TypeOK /\ FlowInv /\ OrderInv
  BY DEF ExcessInv, ReqInv, OrderInv, FlowInv, LineInv
<1>2. phase = "arguments" /\ next \in DOMAIN positional /\ next \in Nat
  BY <1>1 DEF HandleArgument, AtArgument, TypeOK
<1>3. p \in Positions /\ fate[p].role = "positional"
  BY <1>1, <1>2, CmdArguments DEF FlowInv
<1>4. Positions \subseteq Nat /\ Message \notin Positions
  BY <1>1, PositionsFinite, ArgsType DEF Positions, Message
<1>5. \A i \in Positions : Taken(i) => i < p
  <2> SUFFICES ASSUME NEW i \in Positions, Taken(i) PROVE i < p
    OBVIOUS
  <2>1. PICK k \in DOMAIN positional : k < next /\ positional[k] = i
    BY <1>1, <1>2 DEF OrderInv
  <2>. QED  BY <1>1, <1>2, <1>4, <2>1 DEF OrderInv
<1>6. fate[p].flag = Nil
  BY <1>3, <1>4, <1>5 DEF Taken
<1>7. \A i \in Positions : fate[i].role = "option" => i < p
  <2> SUFFICES ASSUME NEW i \in Positions, fate[i].role = "option" PROVE i < p
    OBVIOUS
  <2>1. Flow!WellFormed(RoleOf)
    BY <1>1 DEF FlowInv
  <2>2. DOMAIN RoleOf = Positions /\ \A j \in Positions : RoleOf[j] = fate[j].role
    BY DEF RoleOf
  <2>3. ~(p < i)
    BY <1>3, <2>1, <2>2 DEF Flow!WellFormed
  <2>4. i # p
    BY <1>3
  <2>. QED  BY <1>3, <1>4, <2>3, <2>4
<1>8. \A x \in Fields : Nil \notin Feeders[x]
  BY NilAssumption DEF Feeders
<1>9. \A x \in Fields : \A i \in FedAt(x) : i \in Positions /\ (Taken(i) \/ fate[i].role = "option")
  BY <1>8 DEF FedAt, Taken
<1>. QED  BY <1>3, <1>4, <1>5, <1>6, <1>7, <1>9

(* handle_arguments applies the first argument that can take a token.      *)
LEMMA HandleArgumentFields ==
  ASSUME ContextInv, Next, HandleArgument, err' = "none", NEW g \in Flags, FromTheLine(Field(g))'
  PROVE  FieldInv(flag[g].type, Field(g))'
<1> DEFINE x == Field(g)
<1>1. /\ TypeOK /\ ReqInv /\ WordsInv /\ args' = args /\ Positions' = Positions /\ err = "none"
      /\ ExcessInv
  BY Running DEF ContextInv
<1>2. x \in LineFields /\ FromTheLine(x) /\ FieldInv(flag[g].type, x) /\ x \in Fields
  BY <1>1, FromTheLineBefore, FieldType DEF ContextInv, FromTheLine
<1>3. PICK h \in Arguments : h = Head(local_arguments)
  <2>1. local_arguments # <<>>
    BY DEF HandleArgument
  <2>. QED  BY <1>1, <2>1, CmdArguments
<1>4. PICK p : p = positional[next]
  OBVIOUS
<1>5. PICK out \in Outcomes(h, Text(p)) : ctx' = out.ctx /\ out.err = "none"
  BY <1>3, <1>4 DEF HandleArgument, Fail
<1>6. fate' = Marked(p, "positional", h) /\ h \in Flags
  BY <1>3, <1>4 DEF HandleArgument, Flags
<1>7. p # Message => p \in Positions /\ fate[p].role = "positional" /\ fate[p].flag = Nil
                     /\ \A i \in FedAt(x) : i < p /\ i # p
  BY <1>1, <1>2, <1>4, TokenInTurn
<1>8. Text(p) \in Values
  <2>1. p = Message \/ p \in Positions
    BY <1>7
  <2>. QED  BY <1>1, <2>1, TokenType
<1>9. Nil \notin Feeders[x]
  BY <1>2, NilAssumption DEF Feeders
<1>10. \A i \in Positions :
        \/ fate'[i] = fate[i] /\ (i # p \/ p = Message)
        \/ i = p /\ p # Message /\ fate'[i].role = "positional" /\ fate'[i].flag = h
  BY <1>1, <1>6 DEF Marked, TypeOK
<1> HIDE DEF x
<1>11. CASE x # Field(h)
  <2>1. ctx'[x] = ctx[x]
    BY <1>1, <1>2, <1>5, <1>6, <1>8, <1>11, OutcomeElsewhere
  <2>2. h \notin Feeders[x]
    BY <1>2, <1>11 DEF Feeders
  <2>3. SameFed(x)
    BY <1>1, <1>7, <1>9, <1>10, <2>2, SameFedIs
  <2>. QED  BY <1>1, <1>2, <2>1, <2>3, FieldKept DEF x
<1>12. CASE x = Field(h)
  <2>1. h \in Feeders[x]
    BY <1>2, <1>6, <1>12 DEF Feeders
  <2>2. NoneRefused
    BY <1>2, <1>3, <2>1 DEF FromTheLine, NoneRefused
  <2>3. p # Message
    <3>1. phase = "arguments" /\ next \in DOMAIN positional
      BY DEF HandleArgument, AtArgument
    <3>. QED  BY <1>1, <1>4, <2>2, <3>1 DEF WordsInv, MessageRead
  <2>4. p \in Positions /\ fate'[p].role = "positional" /\ fate'[p].flag = h
    BY <1>7, <1>10, <2>3
  <2>5. OneMoreFed(x, p)
    BY <1>1, <1>7, <1>10, <2>1, <2>3, <2>4, OneMoreFedIs
  <2>6. Text(p) \in flag[h].accepts /\ ctx'[x] = Store(flag[h].type, ctx[x], Text(p))
    BY <1>1, <1>2, <1>5, <1>6, <1>8, <1>12, OutcomeElsewhere
  <2>7. /\ flag[h].type = flag[g].type /\ flag[g].type \in ReaderTypes /\ flag[g].type # "tuple"
        /\ flag[h].type = "single" => FalseValue \notin flag[h].accepts
    BY <1>2, <1>6, <1>12, FieldFlags DEF x
  <2>8. Text(p) = ValueAt(p)'
    BY <1>1, <2>4 DEF ValueAt, Text, Token
  <2>9. flag[g].type = "single" => Text(p) # FalseValue
    BY <2>6, <2>7
  <2>10. PICK v : v = Text(p)
    OBVIOUS
  <2>. QED  BY <1>1, <1>2, <2>4, <2>5, <2>6, <2>7, <2>8, <2>9, <2>10, FieldGrows DEF x
<1>. QED  BY <1>11, <1>12

(* A default goes to a field the line does not fill.                       *)
LEMMA ApplyDefaultFields ==
  ASSUME TypeOK, ApplyDefault, err' = "none", NEW x \in LineFields
  PROVE  ctx'[x] = ctx[x]
<1>1. PICK f : f = Required[next]
  OBVIOUS
<1>2. f \in Flags
  <2>1. cmd \in Commands /\ local_arguments \in Seq(Arguments) /\ next \in DOMAIN Required
    BY DEF TypeOK, ApplyDefault, AtCheck
  <2>2. options[cmd] \in Seq(Options)
    BY <2>1, AppAssumption
  <2>3. Required \in Seq(Flags)
    BY <2>1, <2>2 DEF Required, Flags
  <2>. QED  BY <1>1, <2>1, <2>3
<1>3. PICK out \in Outcomes(f, Nil) : ctx' = out.ctx
  BY <1>1 DEF ApplyDefault
<1>4. flag[f].default # Nil
  BY <1>1 DEF ApplyDefault
<1>5. x # Field(f)
  BY <1>2, <1>4 DEF LineFields, Feeders, Keeps
<1>. QED  BY <1>2, <1>3, <1>5, OutcomeElsewhere

(* apply is given what the option's token carries, or the next one holds.  *)
LEMMA AppliedValue ==
  ASSUME ReqInv, ApplyOption, err' = "none", NEW f, f = Found
  PROVE  \E text \in Values \cup {Nil} : \E out \in Outcomes(f, text) :
           ctx' = out.ctx /\ out.err = "none" /\ (flag[f].requires_arg => text = ValueAt(arg))
<1> DEFINE text == IF TakesNextToken(Found) THEN Text(NextArg(arg_index)) ELSE Sought.value
<1>1. TypeOK /\ arg \in Positions /\ arg = arg_index /\ arg \in Nat
      /\ fate[arg].role = "unread"
  <2>1. TypeOK
    BY DEF ReqInv, OrderInv, FlowInv, LineInv
  <2>. QED  BY <2>1, OptionMarks, PositionsFinite
<1>2. TakesNextToken(Found) => NextArg(arg_index) \in Positions /\ NextArg(arg_index) = arg + 1
  <2>1. TakesNextToken(Found) => NextArg(arg_index) # Done
    BY ApplyOptionIs DEF ApplyTo
  <2>2. Len(args) \in Nat /\ arg_index \in 0 .. Len(args)
    BY <1>1, ArgsType DEF TypeOK
  <2>. QED  BY <1>1, <2>1, <2>2, NextType DEF NextArg
<1>3. Sought.value \in Values \cup {Nil}
  BY <1>1, TokenType, LexedType DEF Sought
<1>4. text \in Values \cup {Nil}
  <2>1. CASE TakesNextToken(Found)
    <3>1. Text(NextArg(arg_index)) \in Values
      BY <1>1, <1>2, <2>1, TokenType
    <3>. QED  BY <2>1, <3>1
  <2>2. CASE ~TakesNextToken(Found)
    BY <1>3, <2>2
  <2>. QED  BY <2>1, <2>2
<1>5. flag[f].requires_arg => text = ValueAt(arg)
  <2>1. Token(arg) = args[arg]
    <3>1. arg # Message
      BY <1>1 DEF Message
    <3>. QED  BY <3>1 DEF Token
  <2>2. Sought.value = Lexed(args[arg]).value
    BY <2>1 DEF Sought
  <2>. QED  BY <1>1, <1>2, <2>2 DEF TakesNextToken, ValueAt
<1>6. PICK out \in Outcomes(f, text) :
        /\ ctx' = out.ctx
        /\ IF out.err # "none" THEN Fail(out.err) ELSE UNCHANGED err
  BY ApplyOptionIs DEF ApplyTo
<1> HIDE DEF text
<1>7. out.err = "none"
  BY <1>6 DEF Fail
<1>. QED  BY <1>4, <1>5, <1>6, <1>7

(* apply is given one value more for the option found.                     *)
LEMMA ApplyOptionFields ==
  ASSUME ContextInv, Next, ApplyOption, err' = "none", NEW g \in Flags, FromTheLine(Field(g))'
  PROVE  FieldInv(flag[g].type, Field(g))'
<1> DEFINE x == Field(g)
<1>1. /\ TypeOK /\ ReqInv /\ args' = args /\ Positions' = Positions /\ err = "none"
  BY Running DEF ContextInv
<1>2. x \in LineFields /\ FromTheLine(x) /\ FieldInv(flag[g].type, x) /\ x \in Fields
  BY <1>1, FromTheLineBefore, FieldType DEF ContextInv, FromTheLine
<1>3. PICK f \in Options : f = Found
  BY <1>1, OptionMarks
<1>4. f \in Flags /\ OptionRole = "option"
  BY <1>3, ApplyOptionIs DEF Flags, OptionRole, AppearedTooManyTimes, ApplyTo
<1>5. PICK text \in Values \cup {Nil} : \E out \in Outcomes(f, text) :
        ctx' = out.ctx /\ out.err = "none" /\ (flag[f].requires_arg => text = ValueAt(arg))
  BY <1>1, <1>3, AppliedValue
<1>6. PICK out \in Outcomes(f, text) : ctx' = out.ctx /\ out.err = "none"
  BY <1>5
<1>7. /\ arg \in Positions /\ fate[arg].role = "unread" /\ fate'[arg] = [role |-> "option", flag |-> f]
      /\ \A i \in Positions : Read(i) => i < arg
      /\ \A i \in Positions \ {arg} :
           \/ fate'[i] = fate[i]
           \/ fate[i].role = "unread" /\ fate'[i] = [role |-> "value", flag |-> f]
  BY <1>1, <1>3, <1>4, OptionMarks
<1>8. fate'[arg].role = "option" /\ fate'[arg].flag = f
  BY <1>7
<1>9. \A i \in Positions \ {arg} :
        fate'[i] = fate[i] \/ (fate[i].role = "unread" /\ fate'[i].role = "value")
  <2>1. \A i : fate'[i] = [role |-> "value", flag |-> f] => fate'[i].role = "value"
    OBVIOUS
  <2>. QED  BY <1>7, <2>1
<1> HIDE DEF x
<1>10. CASE x # Field(f)
  <2>1. ctx'[x] = ctx[x]
    BY <1>1, <1>2, <1>4, <1>6, <1>10, OutcomeElsewhere
  <2>2. f \notin Feeders[x]
    BY <1>2, <1>10 DEF Feeders
  <2>3. SameFed(x)
    BY <1>1, <1>7, <1>8, <1>9, <2>2, SameFedIs
  <2>. QED  BY <1>1, <1>2, <2>1, <2>3, FieldKept DEF x
<1>11. CASE x = Field(f)
  <2>1. f \in Feeders[x]
    BY <1>2, <1>4, <1>11 DEF Feeders
  <2>2. \A i \in FedAt(x) : i < arg /\ i # arg
    BY <1>7 DEF FedAt, Read
  <2>3. OneMoreFed(x, arg)
    BY <1>1, <1>7, <1>8, <1>9, <2>1, <2>2, OneMoreFedIs
  <2>4. /\ flag[f].type = flag[g].type /\ flag[g].type \in ReaderTypes /\ flag[g].type # "tuple"
        /\ flag[f].type = "single" => FalseValue \notin flag[f].accepts
        /\ flag[f].requires_arg
    BY <1>2, <1>4, <1>11, FieldFlags DEF x
  <2>5. text \in flag[f].accepts /\ ctx'[x] = Store(flag[f].type, ctx[x], text)
    BY <1>1, <1>2, <1>4, <1>6, <1>11, OutcomeElsewhere
  <2>6. PICK p \in Positions : p = arg
    BY <1>7
  <2>7. text = ValueAt(p)'
    <3>1. text = ValueAt(p) /\ fate[p].role # "positional" /\ fate'[p].role # "positional"
      BY <1>5, <1>7, <1>8, <2>4, <2>6
    <3>. QED  BY <1>1, <3>1 DEF ValueAt, Text, Token
  <2>8. flag[g].type = "single" => text # FalseValue
    BY <2>4, <2>5
  <2>9. OneMoreFed(x, p)
    BY <2>3, <2>6
  <2>. QED  BY <1>1, <1>2, <2>4, <2>5, <2>7, <2>8, <2>9, FieldGrows DEF x
<1>. QED  BY <1>10, <1>11

---------------------------------------------------------------------------
LEMMA ContextInvInit == Init => ContextInv
<1> SUFFICES ASSUME Init PROVE ContextInv
  OBVIOUS
<1>1. ExcessInv
  BY ExcessInvInit
<1>2. ASSUME NEW x \in Fields
      PROVE  FedAt(x) = {} /\ ctx[x] = Absent
  BY DEF Init, FedAt, Positions
<1>3. Ranked({}) /\ Given({}) = <<>>
  <2>1. Cardinality({}) = 0
    BY FS_EmptySet
  <2>. QED  BY <2>1 DEF Ranked, Given
<1>4. \A f \in Flags : FieldInv(flag[f].type, Field(f))
  BY <1>2, <1>3, FieldType DEF FieldInv, Holds, Gathered
<1>. QED  BY <1>1, <1>4 DEF ContextInv

LEMMA ContextInvStep == ContextInv /\ TypeOK' /\ [Next]_vars => ContextInv'
<1> SUFFICES ASSUME ContextInv, TypeOK', [Next]_vars PROVE ContextInv'
  OBVIOUS
<1>1. ExcessInv /\ ExcessInv'
  BY ExcessInvStep DEF ContextInv
<1>2. CASE Next
  <2> SUFFICES ASSUME err' = "none", NEW g \in Flags, FromTheLine(Field(g))'
               PROVE  FieldInv(flag[g].type, Field(g))'
    BY <1>1 DEF ContextInv
  <2>1. CASE HandleArgument
    BY <1>2, <2>1, HandleArgumentFields
  <2>2. CASE ApplyOption
    BY <1>2, <2>2, ApplyOptionFields
  <2>3. CASE MissingValue
    BY <2>3 DEF MissingValue, Fail
  <2>4. CASE Quiet
    <3>1. /\ TypeOK /\ ReqInv /\ args' = args /\ err = "none"
      BY <1>1, <1>2, Running
    <3>2. Field(g) \in LineFields /\ FromTheLine(Field(g)) /\ Field(g) \in Fields
      BY <1>2, <3>1, FromTheLineBefore, FieldType DEF FromTheLine
    <3>3. FieldInv(flag[g].type, Field(g))
      BY <3>1, <3>2 DEF ContextInv
    <3>4. SameFed(Field(g))
      BY <1>1, <1>2, <2>4, <3>2, QuietFields
    <3>5. ctx'[Field(g)] = ctx[Field(g)]
      <4>1. CASE ApplyDefault
        BY <3>1, <3>2, <4>1, ApplyDefaultFields
      <4>2. CASE ~ApplyDefault
        BY <2>4, <4>2 DEF Quiet, Visit, EndOfArgs, StartEating, RejectOption, UnknownCommand,
                          Separator, Eat, EnterCommand, AppearedTooManyTimes, LeaveUnparsed,
                          EndOfArguments, MissingRequired, CheckPassed, Succeed
      <4>. QED  BY <4>1, <4>2
    <3>. QED  BY <3>1, <3>3, <3>4, <3>5, FieldKept
  <2>. QED  BY <1>2, <2>1, <2>2, <2>3, <2>4 DEF Next, Quiet
<1>3. CASE UNCHANGED vars
  <2>1. ctx' = ctx /\ args' = args /\ fate' = fate /\ err' = err /\ Positions' = Positions
    BY <1>3 DEF vars, Positions
  <2>2. \A x : SameFed(x)
    BY <2>1, SameFedIs
  <2>3. ASSUME err' = "none", NEW g \in Flags, FromTheLine(Field(g))'
        PROVE  FieldInv(flag[g].type, Field(g))'
    <3>1. FromTheLine(Field(g))
      BY <2>1, <2>3 DEF FromTheLine
    <3>2. FieldInv(flag[g].type, Field(g))
      BY <2>1, <2>3, <3>1 DEF ContextInv
    <3>. QED  BY <2>1, <2>2, <3>2, FieldKept
  <2>. QED  BY <1>1, <2>3 DEF ContextInv
<1>. QED  BY <1>2, <1>3

(* What apply gathers in a field of the context is what the line said, in  *)
(* order, for all the flags that share it, options and arguments, as long  *)
(* as the parse has not failed.                                            *)
THEOREM ValuesGathered == Spec => []ContextAsGiven
<1>1. ContextInv => ContextAsGiven
  BY DEF ContextInv, ContextAsGiven, FieldInv, Holds
<1>. QED  BY ContextInvInit, ContextInvStep, <1>1, TypeCorrect, PTL DEF Spec
=============================================================================
