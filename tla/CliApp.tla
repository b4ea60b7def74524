------------------------------- MODULE CliApp -------------------------------
(***************************************************************************)
(* std.cli.cmd: run(app, args), called any number of times on one          *)
(* application.  Every run first rewrites the tree of commands: set_parent *)
(* goes down the tree, copies what children take from their parents, and   *)
(* adds the help and version flags.  Then the line is parsed (what matters *)
(* here is the command the parse ends in and the options met on the way:   *)
(* CliParser has the rest) and the action of that command is run.          *)
(*                                                                         *)
(* A command is known by its path.                                         *)
(***************************************************************************)
EXTENDS Integers, Sequences, FiniteSets

CONSTANTS
  App,          \* path of the application, <<name>>
  Names,        \* what commands and options are called
  Own,          \* path -> the commands and options it is defined with
  Versioned,    \* the paths of commands that have a version
  Failing,      \* the paths of commands whose action returns an error
  short,        \* the name of an option -> its short name
  HideChoices,  \* hide_help and hide_version as given to cli.app
  Lines,        \* the command lines: sequences of tokens
  MaxRuns,      \* bound: runs of the application
  Nil

Entry(k, n) == [kind |-> k, name |-> n]
Entries == [kind : {"option", "command"}, name : Names]
Distinct(k) == \A i, j \in DOMAIN k : k[i] = k[j] => i = j

HelpOption    == Entry("option", "help")
VersionOption == Entry("option", "version")
HelpCommand   == Entry("command", "help")
VersionCommand == Entry("command", "version")

(* The paths there are: those of the definition and what may be added.     *)
Paths == DOMAIN Own \cup {Append(c, n) : c \in DOMAIN Own, n \in {"help", "version"}}
Child(c, e) == Append(c, e.name)

ASSUME AppAssumption ==
  /\ {"help", "version", "other"} \subseteq Names
  /\ \A c \in DOMAIN Own : Own[c] \in Seq(Entries) /\ Distinct(Own[c])
  /\ short[HelpOption.name] = "h" /\ short[VersionOption.name] = "V"
  /\ App \in DOMAIN Own /\ Versioned \subseteq DOMAIN Own
  /\ HideChoices \subseteq [help : BOOLEAN, version : BOOLEAN]
  /\ Nil \notin Paths
  /\ \A c \in DOMAIN Own : \A i \in DOMAIN Own[c] :
       Own[c][i].kind = "command" => Child(c, Own[c][i]) \in DOMAIN Own

(* A path goes down the tree from the application, command by command.     *)
ASSUME TreeAssumption ==
  /\ DOMAIN Own \subseteq Seq(Names) \ {<<>>} /\ Len(App) = 1
  /\ \A c \in DOMAIN Own :
       /\ SubSeq(c, 1, 1) = App
       /\ \A k \in 1 .. Len(c) - 1 :
            LET up == SubSeq(c, 1, k)
            IN  /\ up \in DOMAIN Own
                /\ \E i \in DOMAIN Own[up] : Own[up][i] = Entry("command", c[k + 1])

VARIABLES
  kids,      \* path -> the options and commands in the array part of the table
  parent,    \* path -> its parent
  wired,     \* path -> whether it has exit, writer and error_writer
  hidden,    \* path -> [help, version]: hide_help and hide_version
  stack,     \* the calls of set_parent and of the set-up of flags to come
  phase,     \* where run is
  line,      \* the arguments of this run
  rest,      \* what the parser has not read of them
  target,    \* the command the parse is in
  topic,     \* ctx.command, read by the help command
  err,       \* err in run
  printed,   \* what this run printed
  exits,     \* the exit codes this run passed to exit
  runs,      \* runs completed
  outcomes   \* history: line -> what its runs did, from the second run on

tree == <<kids, parent, wired, hidden>>
out  == <<printed, exits>>
vars == <<tree, stack, phase, line, rest, target, topic, err, out, runs, outcomes>>

Has(c, e) == \E i \in DOMAIN kids[c] : kids[c][i] = e
HasCommands(k) == \E i \in DOMAIN k : k[i].kind = "command"

Init ==
  /\ kids = [c \in Paths |-> IF c \in DOMAIN Own THEN Own[c] ELSE <<>>]
  /\ parent = [c \in Paths |-> Nil]
  /\ wired = [c \in Paths |-> c = App]
  /\ \E h \in HideChoices : hidden =
       [c \in Paths |-> IF c = App THEN h ELSE [help |-> FALSE, version |-> FALSE]]
  /\ stack = <<>> /\ phase = "idle" /\ line = <<>> /\ rest = <<>>
  /\ target = App /\ topic = Nil /\ err = FALSE
  /\ printed = <<>> /\ exits = <<>> /\ runs = 0
  /\ outcomes = [l \in Lines |-> {}]

---------------------------------------------------------------------------
(* run: set_parent(cmd).                                                   *)
Visit(c, p) == [call |-> "set_parent", cmd |-> c, parent |-> p]
Flags(c)    == [call |-> "flags", cmd |-> c, parent |-> Nil]

(* Mutant: the context is shared by the runs.                              *)
RunStale(l) ==
  /\ phase = "idle" /\ runs < MaxRuns
  /\ line' = l /\ rest' = l
  /\ stack' = <<Visit(App, Nil)>> /\ phase' = "setup"
  /\ target' = App /\ err' = FALSE
  /\ printed' = <<>> /\ exits' = <<>>
  /\ UNCHANGED <<tree, topic, runs, outcomes>>

Run(l) ==
  /\ phase = "idle" /\ runs < MaxRuns
  /\ line' = l /\ rest' = l
  /\ stack' = <<Visit(App, Nil)>> /\ phase' = "setup"
  /\ target' = App /\ topic' = Nil /\ err' = FALSE
  /\ printed' = <<>> /\ exits' = <<>>
  /\ UNCHANGED <<tree, runs, outcomes>>

(* What set_parent gives a command that has a parent.                      *)
Wire(c, p) ==
  /\ parent' = [parent EXCEPT ![c] = p]
  /\ IF p = Nil THEN UNCHANGED <<wired, hidden>>
     ELSE /\ wired' = [wired EXCEPT ![c] = wired[p]]
          /\ hidden' = [hidden EXCEPT ![c] = hidden[p]]

Pass == [call |-> "none", cmd |-> App, parent |-> Nil]

(* The loop over what c has: a call for every command.                     *)
Loop(c) ==
  [i \in DOMAIN kids[c] |->
     IF kids[c][i].kind = "command" THEN Visit(Child(c, kids[c][i]), c) ELSE Pass]

SetParent ==
  LET top == Head(stack) IN
  /\ phase = "setup" /\ stack # <<>> /\ top.call = "set_parent"
  /\ Wire(top.cmd, top.parent)
  /\ stack' = Loop(top.cmd) \o <<Flags(top.cmd)>> \o Tail(stack)
  /\ UNCHANGED <<kids, phase, line, rest, target, topic, err, out, runs, outcomes>>

PassOption ==
  /\ phase = "setup" /\ stack # <<>> /\ Head(stack).call = "none"
  /\ stack' = Tail(stack)
  /\ UNCHANGED <<tree, phase, line, rest, target, topic, err, out, runs, outcomes>>

(* An option stands for that of the same long or the same short name, a    *)
(* command only for that of the same name.                                 *)
StandsFor(x, e) ==
  x = e \/ (x.kind = "option" /\ e.kind = "option" /\ short[x.name] = short[e.name])

(* Mutant: what is there is not looked for.                                *)
MissingAlways(k, e) == <<e>>

Missing(k, e) == IF \E i \in DOMAIN k : StandsFor(k[i], e) THEN <<>> ELSE <<e>>

(* setup_version_flags: what is in the array part of c afterwards.         *)
WithVersion(c) ==
  IF c \notin Versioned \/ hidden[c].version THEN kids[c]
  ELSE kids[c] \o Missing(kids[c], VersionOption)
               \o Missing(kids[c], VersionCommand)

(* setup_help_flags; the version command counts as a child.                *)
HelpAdded(c, k) ==
  ~ hidden[c].help /\ HasCommands(k) /\ Missing(k, HelpCommand) # <<>>

WithHelp(c, k) ==
  IF hidden[c].help THEN k
  ELSE k \o Missing(k, HelpOption)
         \o IF HelpAdded(c, k) THEN <<HelpCommand>> ELSE <<>>

(* Mutant: the help command is not given its parent.                       *)
SetupFlagsUnwired ==
  LET top == Head(stack)  c == top.cmd IN
  /\ phase = "setup" /\ stack # <<>> /\ top.call = "flags"
  /\ kids' = [kids EXCEPT ![c] = WithHelp(c, WithVersion(c))]
  /\ stack' = Tail(stack)
  /\ UNCHANGED <<parent, wired, hidden, phase, line, rest, target, topic, err, out,
                 runs, outcomes>>

(* The help command is given its parent at once, the version command not.  *)
SetupFlags ==
  LET top == Head(stack)  c == top.cmd  k == WithVersion(c) IN
  /\ phase = "setup" /\ stack # <<>> /\ top.call = "flags"
  /\ kids' = [kids EXCEPT ![c] = WithHelp(c, k)]
  /\ IF HelpAdded(c, k) THEN Wire(Child(c, HelpCommand), c)
     ELSE UNCHANGED <<parent, wired, hidden>>
  /\ stack' = Tail(stack)
  /\ UNCHANGED <<phase, line, rest, target, topic, err, out, runs, outcomes>>

Parse ==
  /\ phase = "setup" /\ stack = <<>> /\ phase' = "parse"
  /\ UNCHANGED <<tree, stack, line, rest, target, topic, err, out, runs, outcomes>>

---------------------------------------------------------------------------
(* parser.parse.                                                           *)
Reading == phase = "parse" /\ rest # <<>>
parsed == <<tree, stack, line, runs, outcomes>>

IsWord(t) == t \notin {"--help", "--version", "--other"}
OptionOf(t) == Entry("option", CASE t = "--help" -> "help"
                                 [] t = "--version" -> "version"
                                 [] OTHER -> "other")

ReadCommand ==
  LET e == Entry("command", Head(rest)) IN
  /\ Reading /\ IsWord(Head(rest)) /\ Has(target, e)
  /\ target' = Child(target, e) /\ rest' = Tail(rest)
  /\ UNCHANGED <<parsed, phase, topic, err, out>>

(* The actions of --help and --version run in the middle of the parse.     *)
(* The exit function ends the process, or returns and run goes on.         *)
Exit(code, next) ==
  /\ exits' = Append(exits, code)
  /\ phase' \in {next, "over"}

(* handle_occurrence lets --help and --version of a command pass once: the *)
(* message of a second one is read as a word, which names no command.      *)
MetTwice(t) ==
  /\ ~ IsWord(t)
  /\ \E i \in DOMAIN printed : printed[i] = <<OptionOf(t).name, target>>

ReadOption ==
  /\ Reading /\ ~ IsWord(Head(rest)) /\ Has(target, OptionOf(Head(rest)))
  /\ ~ MetTwice(Head(rest))
  /\ rest' = Tail(rest)
  /\ IF OptionOf(Head(rest)).name = "other" THEN UNCHANGED <<out, phase>>
     ELSE /\ printed' = Append(printed, <<OptionOf(Head(rest)).name, target>>)
          /\ Exit(0, phase)
  /\ UNCHANGED <<parsed, target, topic, err>>

(* A word that names no command is an argument where there are no          *)
(* commands; the help command takes the first as its topic.                *)
ReadArguments ==
  /\ Reading /\ (IsWord(Head(rest)) \/ MetTwice(Head(rest)))
  /\ ~ HasCommands(kids[target])
  /\ rest' = <<>>
  /\ topic' = IF target \notin DOMAIN Own /\ target[Len(target)] = "help"
              THEN Head(rest) ELSE topic
  /\ UNCHANGED <<parsed, phase, target, err, out>>

Unknown ==
  IF IsWord(Head(rest))
    THEN HasCommands(kids[target]) /\ ~ Has(target, Entry("command", Head(rest)))
    ELSE IF MetTwice(Head(rest)) THEN HasCommands(kids[target])
    ELSE ~ Has(target, OptionOf(Head(rest)))

(* parse returns an error: print_error calls error_writer and raises when  *)
(* it is nil.                                                              *)
ParseFails ==
  /\ Reading /\ Unknown
  /\ err' = TRUE
  /\ IF wired[target] THEN phase' = "exit" /\ printed' = Append(printed, <<"error", target>>)
     ELSE phase' = "raised" /\ UNCHANGED printed
  /\ UNCHANGED <<parsed, rest, target, topic, exits>>

---------------------------------------------------------------------------
(* The action of the command the parse ended in.                           *)
Ready == phase = "parse" /\ rest = <<>>

OwnAction ==
  /\ Ready /\ target \in DOMAIN Own /\ phase' = "exit"
  /\ err' = (target \in Failing)
  /\ printed' = IF target \in Failing THEN Append(printed, <<"error", target>>)
                ELSE printed
  /\ UNCHANGED <<parsed, rest, target, topic, exits>>

VersionAction ==
  /\ Ready /\ target \notin DOMAIN Own /\ target[Len(target)] = "version"
  /\ printed' = Append(printed, <<"version", SubSeq(target, 1, Len(target) - 1)>>)
  /\ phase' = "exit"
  /\ UNCHANGED <<parsed, rest, target, topic, err, exits>>

(* The action of help calls exit itself, and run calls it again when it    *)
(* returns.  Where there is no topic the action returns what exit does,    *)
(* which run takes for an error unless it is nil or false.                 *)
HelpAction ==
  LET cmd == SubSeq(target, 1, Len(target) - 1)
      e == Entry("command", topic)
  IN
  /\ Ready /\ target \notin DOMAIN Own /\ target[Len(target)] = "help"
  /\ err' = (topic = Nil /\ target \in Failing)
  /\ CASE topic = Nil ->
            /\ Exit(0, "exit")
            /\ LET shown == Append(printed, <<"help", cmd>>) IN
               printed' = IF target \in Failing THEN Append(shown, <<"error", target>>)
                          ELSE shown
       [] topic # Nil /\ Has(cmd, e) ->
            printed' = Append(printed, <<"help", Child(cmd, e)>>) /\ Exit(0, "exit")
       [] OTHER ->
            printed' = Append(printed, <<"usage", cmd>>) /\ Exit(1, "exit")
  /\ UNCHANGED <<parsed, rest, target, topic>>

---------------------------------------------------------------------------
(* exit(target_cmd, err): a command without exit lets run return.          *)
ExitRun ==
  /\ phase = "exit"
  /\ IF wired[target] THEN Exit(IF err THEN 1 ELSE 0, "done")
     ELSE phase' = "done" /\ UNCHANGED exits
  /\ UNCHANGED <<parsed, rest, target, topic, err, printed>>

(* run has returned or raised.                                             *)
Outcome == [how |-> phase, printed |-> printed, exits |-> exits]

Return ==
  /\ phase \in {"done", "raised"}
  /\ phase' = "idle" /\ runs' = runs + 1
  /\ outcomes' = IF runs = 0 THEN outcomes
                 ELSE [outcomes EXCEPT ![line] = @ \cup {Outcome}]
  /\ UNCHANGED <<tree, stack, line, rest, target, topic, err, out>>

Next ==
  \/ \E l \in Lines : Run(l)
  \/ SetParent \/ PassOption \/ SetupFlags \/ Parse
  \/ ReadCommand \/ ReadOption \/ ReadArguments \/ ParseFails
  \/ OwnAction \/ VersionAction \/ HelpAction
  \/ ExitRun \/ Return

(* A run goes on until it returns: there is one thread.                    *)
Spec == Init /\ [][Next]_vars /\ WF_vars(Next)

---------------------------------------------------------------------------
(* However often the application is run, no command has two flags of the   *)
(* same kind and name (setup_help_flags, setup_version_flags).             *)
NoDuplicates ==
  \A c \in Paths : Distinct(kids[c])

(* When the line is parsed, every command that can be entered hangs from   *)
(* its parent and has its exit and error_writer, but for a version command *)
(* that this run added (set_parent).                                       *)
TreeWired ==
  phase = "parse" => \A c \in Paths : \A i \in DOMAIN kids[c] :
    LET e == kids[c][i] IN
    (e.kind = "command" /\ (e = VersionCommand => runs > 0 \/ Child(c, e) \in DOMAIN Own)) =>
      parent[Child(c, e)] = c /\ wired[Child(c, e)]

(* From the second run on, a line does the same thing every time: nothing  *)
(* an earlier run left in the tables shows.                                *)
RunsAgree == runs > 2 => \A l \in Lines : Cardinality(outcomes[l]) <= 1
=============================================================================
