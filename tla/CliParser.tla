----------------------------- MODULE CliParser -----------------------------
(***************************************************************************)
(* std.cli.parser: one call of parse(cmd, args), the recursive-descent     *)
(* pass of std.lua over a command line.  A step is one turn of one of the  *)
(* parser's loops.                                                         *)
(*                                                                         *)
(* A token of the command line is known by its position in args.  Its text *)
(* is abstract: the form it is written in, the name it spells and the      *)
(* value it carries.                                                       *)
(***************************************************************************)
EXTENDS Integers, Sequences, FiniteSets

CONSTANTS
  Commands,     \* the command tables of the application
  Options,      \* the option flags of all the commands
  Arguments,    \* the positional argument flags of all the commands
  Root,         \* the command parse is called with
  options,      \* command -> its options that are not global, in order
  globals,      \* command -> its global options, in order
  arguments,    \* command -> its arguments, in order
  commands,     \* command -> its sub-commands, in order
  called,       \* command -> the names that select it: name and aliases
  flag,         \* flag -> its properties, as std.cli.flag leaves them
  Names,        \* the names that tokens and flags can spell
  Hyphenated,   \* those with a '-' inside
  Garbled,      \* what the name of --name=a:b is taken to be (name=a)
  Values,       \* abstract texts and values
  TrueValue,    \* what the reader of a 'flag' option returns
  FalseValue,   \* the boolean false
  OptionText,   \* the text of a token starting with '-', read as a value
  MessageText,  \* the text of an error message, read as a value
  KeyOf,        \* value -> the key it sets in an option of type map
  writes,       \* flag -> what a run of its callbacks may put in the context
  ArgLists,     \* the command lines considered
  Unbound,      \* max_count of a flag with no upper limit (nil)
  Nil

Flags == Options \cup Arguments

ReaderTypes == {"single", "tuple", "list", "tuple-list", "map"}

FlagTable ==
  [long : Names, short : Names \cup {Nil}, type : ReaderTypes,
   requires_arg : BOOLEAN, min_count : Nat, max_count : Nat \cup {Unbound},
   default : Values \cup {Nil}, accepts : SUBSET Values,
   validate : BOOLEAN, action : BOOLEAN]

OptionForms == {"-S", "-SV", "--L", "--L=V", "--L:V", "--L=V:W"}

Tokens == [form : OptionForms \cup {"word", "--"},
           name : Names \cup {Garbled}, val : Values]

ASSUME NilAssumption ==
  /\ Nil \notin Names \cup Values \cup Flags \cup Commands \cup {Garbled}
  /\ Unbound \notin Nat
ASSUME NameAssumption == Garbled \notin Names /\ Hyphenated \subseteq Names
ASSUME ValueAssumption ==
  /\ {TrueValue, FalseValue, OptionText, MessageText} \subseteq Values
  /\ KeyOf \in [Values -> Names]
ASSUME AppAssumption ==
  /\ Root \in Commands
  /\ Options \cap Arguments = {}
  /\ options \in [Commands -> Seq(Options)]
  /\ globals \in [Commands -> Seq(Options)]
  /\ arguments \in [Commands -> Seq(Arguments)]
  /\ commands \in [Commands -> Seq(Commands)]
  /\ called \in [Commands -> SUBSET Names]
  /\ flag \in [Flags -> FlagTable]
  /\ \A f \in Flags :
       flag[f].default # Nil => f \in Options /\ flag[f].type = "single"
(* A flag is a table of its own, listed once among the arguments.          *)
ASSUME DistinctAssumption ==
  \A c \in Commands : \A i, j \in DOMAIN arguments[c] :
    arguments[c][i] = arguments[c][j] => i = j
ASSUME ArgsAssumption == ArgLists \subseteq Seq(Tokens)

VARIABLES
  args,            \* the command line being parsed
  arg_index,       \* how many tokens next_arg has handed out
  cmd,             \* the command being visited
  global_options,  \* the global options of the commands visited so far
  local_arguments, \* the arguments of cmd that can take another token
  positional,      \* the local table "arguments": positions of positional tokens
  occurrences,     \* flag -> how often it was counted; 0 stands for nil
  ctx,             \* the context: field -> what it holds
  unparsed,        \* ctx._ : the positional tokens no argument took
  arg,             \* the token in hand: its position, Done or Message
  phase,           \* the loop the parser is in
  next,            \* the index of that loop
  err,             \* the error returned, "none" if there is none
  fate             \* history: what became of every token

vars == <<args, arg_index, cmd, global_options, local_arguments, positional,
          occurrences, ctx, unparsed, arg, phase, next, err, fate>>

Done    == 0    \* next_arg returned nil
Message == -1   \* handle_option returned the text of a message

Roles ==
  {"unread", "option", "value", "command", "refused", "separator", "positional"}

(* The token in hand.  A message is read again as if it were a word.       *)
Token(p) ==
  IF p = Message
    THEN [form |-> "word", name |-> Garbled, val |-> MessageText]
    ELSE args[p]

Text(p) == IF Token(p).form = "word" THEN Token(p).val ELSE OptionText

IsOption(p) == Token(p).form \in OptionForms

(* next_arg, called with i tokens handed out.                              *)
NextArg(i) == IF i < Len(args) THEN i + 1 ELSE Done

(* Mutants: the index runs past the end, or stops one short of it.         *)
NextReadPastEnd(i) == i + 1
NextReadShort(i) == IF i + 1 < Len(args) THEN i + 1 ELSE i

NextRead(i) == IF i < Len(args) THEN i + 1 ELSE i

---------------------------------------------------------------------------
(* find_option: the patterns a token is matched against, in order.  A long *)
(* name with a '-' inside matches none of them, and --name=a:b matches the *)
(* pattern of --name:value first.                                          *)
Lexed(tok) ==
  IF tok.form \notin {"-S", "-SV"} /\ tok.name \in Hyphenated
    THEN [name |-> Nil, value |-> Nil]
    ELSE [name  |-> IF tok.form = "--L=V:W" THEN Garbled ELSE tok.name,
          value |-> IF tok.form \in {"-S", "--L"} THEN Nil ELSE tok.val]

(* array.find: the first element of seq with an index in hits, or nil.     *)
FirstOf(seq, hits) ==
  LET first == {i \in hits : \A j \in hits : i <= j}
  IN  IF first # {} THEN seq[CHOOSE i \in first : TRUE] ELSE Nil

FindOption(seq, name) ==
  FirstOf(seq, {i \in DOMAIN seq : name \in {flag[seq[i]].long, flag[seq[i]].short}})

(* find_by_name: the first local option, else the first global one.        *)
FindByName(name) == FindOption(options[cmd] \o global_options, name)

FindCommand(name) ==
  FirstOf(commands[cmd], {i \in DOMAIN commands[cmd] : name \in called[commands[cmd][i]]})

---------------------------------------------------------------------------
(* handle_occurrence *)
Repeatable(f) == f \in Options /\ flag[f].type \in {"list", "map", "tuple-list"}

(* Mutant: one occurrence too many.                                        *)
MayOccurOnceMore(f) ==
  IF Repeatable(f) \/ flag[f].max_count = Unbound
    THEN TRUE ELSE occurrences[f] <= flag[f].max_count

MayOccur(f) ==
  IF Repeatable(f) \/ flag[f].max_count = Unbound
    THEN TRUE ELSE occurrences[f] < flag[f].max_count

Counted(f) ==
  IF Repeatable(f) \/ ~MayOccur(f)
    THEN occurrences
    ELSE [occurrences EXCEPT ![f] = @ + 1]

---------------------------------------------------------------------------
(* apply: the fields of ctx.  A table has a sequence of items and, under   *)
(* keys, the values of a map; the pair a tuple reader returns is a table   *)
(* of two parts.  Flags of one name share a field.                         *)
Items == Values \cup (Values \X {1, 2})
CtxValues ==
  [kind : {"nil", "scalar", "table"}, items : Seq(Items), keyed : SUBSET Values]

Field(f) == flag[f].long
Fields   == {Field(f) : f \in Flags}

ASSUME WritesAssumption ==
  \A f \in Flags : \A w \in writes[f] :
    DOMAIN w \subseteq Fields /\ \A x \in DOMAIN w : w[x] \in CtxValues

Absent      == [kind |-> "nil", items |-> <<>>, keyed |-> {}]
Scalar(v)   == [kind |-> "scalar", items |-> <<v>>, keyed |-> {}]
Table(s, k) == [kind |-> "table", items |-> s, keyed |-> k]

Falsy(x) == x = Absent \/ x = Scalar(FalseValue)

(* Mutant: a key keeps its first value.                                    *)
SetNewKey(keyed, v) ==
  IF \E u \in keyed : KeyOf[u] = KeyOf[v] THEN keyed ELSE keyed \cup {v}

SetKey(keyed, v) == {u \in keyed : KeyOf[u] # KeyOf[v]} \cup {v}

(* The value apply hands to the context the first time.                    *)
FirstValue(type, v) ==
  CASE type = "single" -> Scalar(v)
    [] type = "tuple"  -> Table(<< <<v, 1>>, <<v, 2>> >>, {})
    [] type = "map"    -> Table(<<>>, {v})
    [] OTHER           -> Table(<<v>>, {})

Store(type, old, v) ==
  IF Falsy(old) THEN FirstValue(type, v)
  ELSE IF type = "map" THEN Table(old.items, SetKey(old.keyed, v))
  ELSE Table(Append(old.items, v), old.keyed)

(* The value apply works with: a default takes the place of what was read, *)
(* and a reader that requires no argument returns true.                    *)
Value(f, text) ==
  IF flag[f].default # Nil THEN flag[f].default
  ELSE IF flag[f].requires_arg THEN text
  ELSE TrueValue

Readable(f, text) ==
  flag[f].default # Nil \/ ~flag[f].requires_arg \/ text \in flag[f].accepts

(* validate and action are the application's: they are given the context,  *)
(* may write it, return an error or raise one.                             *)
HasCallback(f) == flag[f].validate \/ flag[f].action

Errors(f) == IF HasCallback(f) THEN {"callback", "raised"} ELSE {}

Written(w) == [x \in Fields |-> IF x \in DOMAIN w THEN w[x] ELSE ctx[x]]

After(f) ==
  {ctx} \cup (IF HasCallback(f) THEN {Written(w) : w \in writes[f]} ELSE {})

(* A list or a map cannot be merged into a value that is no table.         *)
Jams(f, c) ==
  /\ flag[f].type \in {"list", "tuple-list", "map"}
  /\ c[Field(f)].kind = "scalar" /\ ~Falsy(c[Field(f)])

Stored(f, text, c) ==
  [c EXCEPT ![Field(f)] = Store(flag[f].type, @, Value(f, text))]

(* What apply(f, text) can return, with the ctx it leaves behind.          *)
Outcome(e, c) == [err |-> e, ctx |-> c]

Applied(f, text, c) ==
  IF flag[f].action THEN Outcome("none", c)
  ELSE IF Jams(f, c) THEN Outcome("raised", c)
  ELSE Outcome("none", Stored(f, text, c))

Outcomes(f, text) ==
  IF ~Readable(f, text) THEN {Outcome("invalid value", ctx)}
  ELSE UNION {{Applied(f, text, c)} \cup {Outcome(e, c) : e \in Errors(f)} : c \in After(f)}

---------------------------------------------------------------------------
Init ==
  /\ args \in ArgLists
  /\ arg_index = 0
  /\ cmd = Root
  /\ global_options = <<>>
  /\ local_arguments = <<>>
  /\ positional = <<>>
  /\ occurrences = [f \in Flags |-> 0]
  /\ ctx = [x \in Fields |-> Absent]
  /\ unparsed = <<>>
  /\ arg = Done
  /\ phase = "visit"
  /\ next = 1
  /\ err = "none"
  /\ fate = [i \in 1 .. Len(args) |-> [role |-> "unread", flag |-> Nil]]

Marked(p, role, f) ==
  IF p = Message THEN fate ELSE [fate EXCEPT ![p] = [role |-> role, flag |-> f]]

(* parse returns an error, or lets one through that was raised.            *)
Fail(e) == phase' = "done" /\ err' = e

(* visit(c): collect the flags of c and fetch its first token.             *)
Visit ==
  /\ phase = "visit"
  /\ global_options' = global_options \o globals[cmd]
  /\ local_arguments' = arguments[cmd]
  /\ positional' = <<>>
  /\ arg' = NextArg(arg_index)
  /\ arg_index' = NextRead(arg_index)
  /\ phase' = "loop"
  /\ UNCHANGED <<args, cmd, occurrences, ctx, unparsed, next, err, fate>>

(* Mutant: options and commands are still seen while eating.               *)
InAnyLoop == phase \in {"loop", "eat"} /\ arg # Done

InLoop == phase = "loop" /\ arg # Done

(* The loops that hand tokens out end when next_arg returns nil.           *)
EndOfArgs ==
  /\ phase \in {"loop", "eat"}
  /\ arg = Done
  /\ phase' = "arguments"
  /\ next' = 1
  /\ UNCHANGED <<args, arg_index, cmd, global_options, local_arguments,
                 positional, occurrences, ctx, unparsed, arg, err, fate>>

(* '--' ends the options.                                                  *)
Separator ==
  /\ InLoop
  /\ Token(arg).form = "--"
  /\ fate' = Marked(arg, "separator", Nil)
  /\ arg' = NextArg(arg_index)
  /\ arg_index' = NextRead(arg_index)
  /\ phase' = "eat"
  /\ UNCHANGED <<args, cmd, global_options, local_arguments, positional,
                 occurrences, ctx, unparsed, next, err>>

(* One turn of eat_all: from here on every token but '--' is positional.   *)
Eat ==
  /\ phase = "eat"
  /\ arg # Done
  /\ IF Token(arg).form = "--"
       THEN /\ fate' = Marked(arg, "separator", Nil)
            /\ UNCHANGED positional
       ELSE /\ fate' = Marked(arg, "positional", Nil)
            /\ positional' = Append(positional, arg)
  /\ arg' = NextArg(arg_index)
  /\ arg_index' = NextRead(arg_index)
  /\ UNCHANGED <<args, cmd, global_options, local_arguments, occurrences, ctx,
                 unparsed, phase, next, err>>

---------------------------------------------------------------------------
(* handle_option, by the way it ends.                                      *)
Sought == Lexed(Token(arg))
Found  == FindByName(Sought.name)

AtOption == InLoop /\ IsOption(arg)

(* find_option fails: no such option, or a value for one that takes none.  *)
RejectOption ==
  /\ AtOption
  /\ IF Found = Nil THEN Fail("unknown option")
     ELSE /\ Sought.value # Nil
          /\ ~flag[Found].requires_arg
          /\ Fail("invalid argument")
  /\ UNCHANGED <<args, arg_index, cmd, global_options, local_arguments,
                 positional, occurrences, ctx, unparsed, arg, next, fate>>

OptionAccepted ==
  /\ AtOption
  /\ Found # Nil
  /\ Sought.value = Nil \/ flag[Found].requires_arg

(* The message is returned where the caller expects the next token, and no *)
(* error with it: the loop goes on with the message in hand.               *)
AppearedTooManyTimes ==
  /\ OptionAccepted
  /\ ~MayOccur(Found)
  /\ fate' = Marked(arg, "refused", Found)
  /\ arg' = Message
  /\ UNCHANGED <<args, arg_index, cmd, global_options, local_arguments,
                 positional, occurrences, ctx, unparsed, phase, next, err>>

(* value or next_arg() *)
TakesNextToken(f) == flag[f].requires_arg /\ Sought.value = Nil

MissingValue ==
  /\ OptionAccepted
  /\ MayOccur(Found)
  /\ TakesNextToken(Found)
  /\ NextArg(arg_index) = Done
  /\ occurrences' = Counted(Found)
  /\ fate' = Marked(arg, "option", Found)
  /\ Fail("missing value")
  /\ UNCHANGED <<args, arg_index, cmd, global_options, local_arguments,
                 positional, ctx, unparsed, arg, next>>

(* f takes its value and is applied; i is the number of tokens handed out  *)
(* once the value has been read.                                           *)
ApplyTo(f) ==
  LET i    == IF TakesNextToken(f) THEN NextRead(arg_index) ELSE arg_index
      text == IF TakesNextToken(f) THEN Text(NextArg(arg_index)) ELSE Sought.value
      read == Marked(arg, "option", f)
  IN
  /\ MayOccur(f)
  /\ TakesNextToken(f) => NextArg(arg_index) # Done
  /\ occurrences' = Counted(f)
  /\ fate' = IF TakesNextToken(f)
               THEN [read EXCEPT ![i] = [role |-> "value", flag |-> f]]
               ELSE read
  /\ \E out \in Outcomes(f, text) :
       /\ ctx' = out.ctx
       /\ IF out.err # "none"
            THEN /\ Fail(out.err)
                 /\ arg_index' = i
                 /\ UNCHANGED arg
            ELSE /\ arg' = NextArg(i)
                 /\ arg_index' = NextRead(i)
                 /\ UNCHANGED <<phase, err>>
  /\ UNCHANGED <<args, cmd, global_options, local_arguments, positional,
                 unparsed, next>>

ApplyOption == OptionAccepted /\ \E f \in {Found} : ApplyTo(f)

---------------------------------------------------------------------------
AtWord == InLoop /\ Token(arg).form = "word"

(* return visit(sub_command): the checks on what cmd requires are skipped. *)
EnterCommand ==
  /\ AtWord
  /\ FindCommand(Token(arg).name) # Nil
  /\ cmd' = FindCommand(Token(arg).name)
  /\ fate' = Marked(arg, "command", Nil)
  /\ phase' = "visit"
  /\ UNCHANGED <<args, arg_index, global_options, local_arguments, positional,
                 occurrences, ctx, unparsed, arg, next, err>>

UnknownCommand ==
  /\ AtWord
  /\ FindCommand(Token(arg).name) = Nil
  /\ local_arguments = <<>> /\ commands[cmd] # <<>>
  /\ Fail("unknown command")
  /\ UNCHANGED <<args, arg_index, cmd, global_options, local_arguments,
                 positional, occurrences, ctx, unparsed, arg, next, fate>>

(* The first positional token: it and all that follow are eaten.           *)
StartEating ==
  /\ AtWord
  /\ FindCommand(Token(arg).name) = Nil
  /\ local_arguments # <<>> \/ commands[cmd] = <<>>
  /\ phase' = "eat"
  /\ UNCHANGED <<args, arg_index, cmd, global_options, local_arguments,
                 positional, occurrences, ctx, unparsed, arg, next, err, fate>>

---------------------------------------------------------------------------
(* handle_arguments: the positional tokens go to the arguments in order;   *)
(* an argument is left once it has been given max_count of them.           *)
AtArgument == phase = "arguments" /\ next \in DOMAIN positional

(* Mutant: an argument is left as soon as it has enough tokens.            *)
FullAtMinimum(a) == Counted(a)[a] >= flag[a].min_count

Full(a) ==
  LET n == Counted(a)[a] IN n > 0 /\ n = flag[a].max_count

HandleArgument ==
  /\ AtArgument
  /\ local_arguments # <<>>
  /\ LET a == Head(local_arguments)
         p == positional[next]
     IN /\ occurrences' = Counted(a)
        /\ local_arguments' = IF Full(a) THEN Tail(local_arguments) ELSE local_arguments
        /\ fate' = Marked(p, "positional", a)
        /\ \E out \in Outcomes(a, Text(p)) :
             /\ ctx' = out.ctx
             /\ IF out.err # "none"
                  THEN Fail(out.err) /\ UNCHANGED next
                  ELSE next' = next + 1 /\ UNCHANGED <<phase, err>>
  /\ UNCHANGED <<args, arg_index, cmd, global_options, positional, unparsed, arg>>

LeaveUnparsed ==
  /\ AtArgument
  /\ local_arguments = <<>>
  /\ unparsed' = Append(unparsed, positional[next])
  /\ next' = next + 1
  /\ UNCHANGED <<args, arg_index, cmd, global_options, local_arguments,
                 positional, occurrences, ctx, arg, phase, err, fate>>

(* Mutant: the loop waits for one token more.                              *)
EndOfArgumentsLate ==
  /\ phase = "arguments"
  /\ next > Len(positional) + 1
  /\ phase' = "check"
  /\ next' = 1
  /\ UNCHANGED <<args, arg_index, cmd, global_options, local_arguments,
                 positional, occurrences, ctx, unparsed, arg, err, fate>>

EndOfArguments ==
  /\ phase = "arguments"
  /\ next \notin DOMAIN positional
  /\ phase' = "check"
  /\ next' = 1
  /\ UNCHANGED <<args, arg_index, cmd, global_options, local_arguments,
                 positional, occurrences, ctx, unparsed, arg, err, fate>>

---------------------------------------------------------------------------
(* What the last two loops check: the options of cmd, then the arguments   *)
(* of cmd that were not filled.                                            *)
Required == options[cmd] \o local_arguments

AtCheck == phase = "check" /\ next \in DOMAIN Required

(* Mutant: one occurrence too few is enough.                               *)
LackingTwo(f) == flag[f].min_count > occurrences[f] + 1

Lacking(f) == flag[f].min_count > occurrences[f]

CheckPassed ==
  /\ AtCheck
  /\ ~Lacking(Required[next])
  /\ next' = next + 1
  /\ UNCHANGED <<args, arg_index, cmd, global_options, local_arguments,
                 positional, occurrences, ctx, unparsed, arg, phase, err, fate>>

(* The default of a missing flag is applied; what apply returns is lost,   *)
(* what it raises is not.                                                  *)
ApplyDefault ==
  /\ AtCheck
  /\ LET f == Required[next]
     IN /\ Lacking(f)
        /\ flag[f].default # Nil
        /\ \E out \in Outcomes(f, Nil) :
             /\ ctx' = out.ctx
             /\ IF out.err = "raised"
                  THEN Fail("raised") /\ UNCHANGED next
                  ELSE next' = next + 1 /\ UNCHANGED <<phase, err>>
  /\ UNCHANGED <<args, arg_index, cmd, global_options, local_arguments,
                 positional, occurrences, unparsed, arg, fate>>

MissingRequired ==
  /\ AtCheck
  /\ Lacking(Required[next])
  /\ flag[Required[next]].default = Nil
  /\ Fail("missing required")
  /\ UNCHANGED <<args, arg_index, cmd, global_options, local_arguments,
                 positional, occurrences, ctx, unparsed, arg, next, fate>>

Succeed ==
  /\ phase = "check"
  /\ next \notin DOMAIN Required
  /\ phase' = "done"
  /\ UNCHANGED <<args, arg_index, cmd, global_options, local_arguments,
                 positional, occurrences, ctx, unparsed, arg, next, err, fate>>

Next ==
  \/ Visit \/ EndOfArgs \/ Separator \/ Eat
  \/ ApplyOption \/ RejectOption \/ AppearedTooManyTimes \/ MissingValue
  \/ EnterCommand \/ UnknownCommand \/ StartEating
  \/ HandleArgument \/ LeaveUnparsed \/ EndOfArguments
  \/ CheckPassed \/ ApplyDefault \/ MissingRequired \/ Succeed

(* parse is one call that runs to its return: the caller's thread keeps    *)
(* taking its steps.                                                       *)
Spec == Init /\ [][Next]_vars /\ WF_vars(Next)
---------------------------------------------------------------------------
(* The variables of parse keep their types.                                *)
Positions == 1 .. Len(args)

TypeOK ==
  /\ args \in Seq(Tokens)
  /\ arg_index \in 0 .. Len(args)
  /\ cmd \in Commands
  /\ global_options \in Seq(Options)
  /\ local_arguments \in Seq(Arguments)
  /\ positional \in Seq(Positions \cup {Message})
  /\ occurrences \in [Flags -> Nat]
  /\ ctx \in [Fields -> CtxValues]
  /\ unparsed \in Seq(Positions \cup {Message})
  /\ arg \in Positions \cup {Done, Message}
  /\ phase \in {"visit", "loop", "eat", "arguments", "check", "done"}
  /\ next \in Nat \ {0}
  /\ err \in {"none", "unknown option", "invalid argument", "missing value",
              "invalid value", "callback", "raised", "unknown command",
              "missing required"}
  /\ fate \in [Positions -> [role : Roles, flag : Flags \cup {Nil}]]

Read(i)     == fate[i].role # "unread"
Succeeded   == phase = "done" /\ err = "none"

(* The tokens read for a flag, but for values and those refused.           *)
TokensOf(f) ==
  {i \in Positions : fate[i].flag = f /\ fate[i].role \in {"option", "positional"}}

(* No token is skipped or read twice: the tokens that have a role are the  *)
(* first ones, up to the token in hand, and when parse leaves its reading  *)
(* loops for good every token has one.  This is the bookkeeping that       *)
(* next_arg, eat_all and the value an option takes share.                  *)
ReadInOrder ==
  /\ \A i \in Positions : Read(i) => i <= arg_index
  /\ phase \in {"loop", "eat"} => \A i \in 1 .. arg_index : Read(i) <=> i # arg
  /\ phase \in {"loop", "eat"} /\ arg \in Positions => arg = arg_index
  /\ phase \in {"arguments", "check"} \/ Succeeded => \A i \in Positions : Read(i)

(* What max_count does.  No option whose reader takes a value at a time,   *)
(* and no argument that can take a token, is applied more often than its   *)
(* max_count.  An option given once more is not applied and is no error:   *)
(* it ends the options, all that follows is read as words, and the text of *)
(* the message is the first of them, as it is in no other parse.           *)
Capped(f) ==
  flag[f].max_count # Unbound /\ ~Repeatable(f) /\ (f \in Arguments => flag[f].max_count > 0)

ReadAsWords(i) ==
  \A j \in Positions : j > i => fate[j].role \in {"unread", "separator", "positional"}

ExcessEndsOptions ==
  /\ \A f \in Flags : Capped(f) => Cardinality(TokensOf(f)) <= flag[f].max_count
  /\ \A i \in Positions :
       fate[i].role = "refused" =>
         /\ Cardinality(TokensOf(fate[i].flag)) = flag[fate[i].flag].max_count
         /\ ReadAsWords(i)
  /\ phase \in {"arguments", "check"} \/ Succeeded =>
       \A k \in DOMAIN positional :
         positional[k] = Message <=> k = 1 /\ \E i \in Positions : fate[i].role = "refused"

(* The positional tokens fill the arguments of the command in order: a     *)
(* token never goes to an argument before the one the previous token went  *)
(* to, an argument is passed over only when full, and what is left         *)
(* unparsed comes after every token an argument took.                      *)
PlaceOf(a) == {k \in DOMAIN arguments[cmd] : arguments[cmd][k] = a}

FilledInOrder ==
  LET taken(i) == fate[i].role = "positional" /\ fate[i].flag # Nil
  IN  /\ \A i, j \in Positions :
           taken(i) /\ taken(j) /\ i < j =>
             \A k \in PlaceOf(fate[i].flag), l \in PlaceOf(fate[j].flag) :
               /\ k <= l
               /\ \A m \in k .. (l - 1) :
                    LET a == arguments[cmd][m] IN occurrences[a] = flag[a].max_count
      /\ \A i \in Positions, u \in DOMAIN unparsed :
           taken(i) /\ unparsed[u] # Message => i < unparsed[u]

(* A parse that succeeds gave the command that received it everything the  *)
(* command requires: each of its options and arguments was on the line     *)
(* min_count times, or has a default.  (Options whose readers gather       *)
(* values are never counted; an argument that is full before it reaches    *)
(* min_count is not looked at.)                                            *)
RequirementsMet ==
  Succeeded =>
    /\ \A k \in DOMAIN options[cmd] :
         LET o == options[cmd][k]
         IN  ~Repeatable(o) /\ flag[o].default = Nil =>
               Cardinality(TokensOf(o)) >= flag[o].min_count
    /\ \A k \in DOMAIN arguments[cmd] :
         LET a == arguments[cmd][k]
         IN  flag[a].max_count = Unbound \/ flag[a].min_count <= flag[a].max_count =>
               occurrences[a] >= flag[a].min_count

(* The flags that share each field, and the tokens read for them.          *)
Feeders == [x \in Fields |-> {f \in Flags : Field(f) = x}]

FedAt(x) ==
  {i \in Positions : fate[i].flag \in Feeders[x] /\ fate[i].role \in {"option", "positional"}}

(* The value a token carries, or the one behind it.                        *)
ValueAt(i) ==
  IF fate[i].role = "positional" THEN Text(i)
  ELSE IF Lexed(args[i]).value # Nil THEN Lexed(args[i]).value
  ELSE Text(i + 1)

(* The k-th smallest number of S.                                          *)
Nth(S, k) == CHOOSE x \in {y \in S : Cardinality({z \in S : z < y}) = k - 1} : TRUE

Given(S) == [k \in 1 .. Cardinality(S) |-> ValueAt(Nth(S, k))]

LastOfEachKey(s) ==
  {s[i] : i \in {j \in DOMAIN s : \A k \in DOMAIN s : KeyOf[s[k]] = KeyOf[s[j]] => k <= j}}

(* The flags whose values the context keeps, and the fields that only such *)
(* flags fill, all of one type, and that no callback writes.  What takes   *)
(* the place of a refused option is a value no token carries: it can be    *)
(* given to an argument.                                                   *)
Keeps(f) ==
  /\ ~flag[f].action /\ flag[f].default = Nil /\ flag[f].requires_arg
  /\ flag[f].type # "tuple"
  /\ flag[f].type = "single" => FalseValue \notin flag[f].accepts

LineFields ==
  {x \in Fields :
     /\ \A f \in Feeders[x] : Keeps(f)
     /\ \A f, g \in Feeders[x] : flag[f].type = flag[g].type
     /\ \A f \in Flags : \A w \in writes[f] : x \notin DOMAIN w}

FromTheLine(x) ==
  /\ x \in LineFields
  /\ Feeders[x] \cap Arguments # {} => \A i \in Positions : fate[i].role # "refused"

(* What a field y of that type holds when s was given for it.              *)
Gathered(type, y, s) ==
  /\ s = <<>> => y = Absent
  /\ s # <<>> /\ type = "single" => y = IF Len(s) = 1 THEN Scalar(s[1]) ELSE Table(s, {})
  /\ s # <<>> /\ type \in {"list", "tuple-list"} => y = Table(s, {})
  /\ s # <<>> /\ type = "map" => y = Table(<<>>, LastOfEachKey(s))

(* What apply gathers in a field of the context is what the line said for  *)
(* the flags that share it, options of several commands and arguments, in  *)
(* order: a field of list type holds every value given, one of map type    *)
(* the last value given for each key, and one of a single value that value *)
(* or, when more were given, the list of them; at every point of a parse   *)
(* that has not failed.                                                    *)
ContextAsGiven ==
  err = "none" =>
    \A f \in Flags :
      FromTheLine(Field(f)) =>
        Gathered(flag[f].type, ctx[Field(f)], Given(FedAt(Field(f))))

(* parse returns, whatever the command line and the callbacks do.          *)
Terminates == <>(phase = "done")

(* A parse is a reading of its command line in the sense of TokenFlow.     *)
Flow == INSTANCE TokenFlow WITH
  size    <- Len(args),
  role    <- [i \in Positions |-> fate[i].role],
  verdict <- IF phase # "done" THEN "running" ELSE IF err = "none" THEN "ok" ELSE "error"

ReadsTheLine == Flow!Spec

---------------------------------------------------------------------------
(* What makes ReadInOrder and ExcessEndsOptions inductive.                 *)

(* A command is visited once everything before its first token was read,   *)
(* and no token is in hand only when the line is used up.                  *)
LineInv ==
  /\ TypeOK
  /\ ReadInOrder
  /\ phase = "visit" => \A i \in 1 .. arg_index : Read(i)
  /\ phase \in {"loop", "eat"} /\ arg = Done => arg_index = Len(args)

(* Arguments are counted only once the line has been read, each token a    *)
(* flag is applied for is counted, and the arguments in local_arguments    *)
(* are different flags with room for a token.                              *)
CanTake(a) == flag[a].max_count = Unbound \/ flag[a].max_count > 0

HasRoom(a) == flag[a].max_count = Unbound \/ occurrences[a] < flag[a].max_count

CountInv ==
  /\ TypeOK
  /\ \A f \in Flags :
       flag[f].max_count # Unbound => occurrences[f] <= flag[f].max_count
  /\ \A f \in Flags :
       ~Repeatable(f) /\ (f \in Arguments => CanTake(f)) =>
         Cardinality(TokensOf(f)) <= occurrences[f]
  /\ phase \in {"visit", "loop", "eat"} => \A a \in Arguments : occurrences[a] = 0
  /\ phase \in {"loop", "eat", "arguments"} =>
       /\ \A i, j \in DOMAIN local_arguments :
            local_arguments[i] = local_arguments[j] => i = j
       /\ \A i \in DOMAIN local_arguments :
            CanTake(local_arguments[i]) => HasRoom(local_arguments[i])

---------------------------------------------------------------------------
(* A statement of the tests that this code does not keep.                  *)

(* cli_cmd_spec.lua: int has the default -1, the line says --int=1, and    *)
(* the context holds 1.  A default stands in for a value not given.        *)
GivenValueWins ==
  Succeeded => \A f \in Options :
    flag[f].type = "single" /\ ~flag[f].action /\ flag[f].requires_arg
      /\ Feeders[Field(f)] = {f} /\ TokensOf(f) # {} /\ flag[f].max_count = 1
      => ctx[Field(f)] = Scalar(Given(TokensOf(f))[1])
=============================================================================
