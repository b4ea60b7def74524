# A verification development for std.lua

std.lua is a set of Lua libraries: command lines, collections, text, classes,
internationalisation, and C modules for paths, files, clocks and memory. This
directory keeps TLA+ specifications of the parts that hold state or carry an
algorithm, the TLC configurations that check them on small instances, and TLAPS
proofs of the theorems that matter most. Paths below are those of the repository,
with `src/` in front of the Lua library's `std/`.

## 1. The system

Every module of the library runs on the thread of its caller. There are no
threads, no timers and no messages: what makes the code hard to test is

  * sequences of calls on an object that keeps state between them (a parser that
    moves between three loops, a bundle loaded once, a directory handle, the table of
    registered checks);
  * callbacks of the program in the middle of an operation (actions of options,
    classifiers, registered checks of arguments);
  * the host: the file system, the directories and the variables that other threads and
    processes change, the allocator that refuses, the collector that closes what the
    program has dropped.

| Component | State it keeps | Operations | What is hard |
|---|---|---|---|
| `cli/parser.lua` | position on the line, occurrences, context, current command, actions to run | `parse`: options in four spellings, commands, arguments, final checks | three loops over one line; results that mean either a token or an error; counts against limits; defaults against given values |
| `cli/flag.lua`, `cli/reader.lua` | the flags, a table of readers built once per type | `option`, `argument`, `command`, `create` | types nested in types; counts that disagree |
| `cli/cmd.lua`, `cli.lua` | the tree of commands, rewritten on every run | `run`, `set_parent`, help and version flags, `exit` | actions that run in the middle of the parse; a second run over the same tree |
| `cli/help.lua`, `cli/util.lua` | none | help text | layout only |
| `i18n.lua` | the locale, classifiers; per bundle: name, mode, package, and once loaded strings and classifier | `add_bundle`, `set_locale`, `set_classifier`, `L`, `Ln` | what is fixed at the first use, strings shared by bundles and written on a miss |
| `oo.lua` | classes, mixins, instances: tables with chains of parents | `class`, `mixin`, `new`, `super`, `is_a`, `includes` | lookups along two chains |
| `func.lua` | caches of memoized calls and compiled lambdas | `memoize`, `lambda` | keys that are nil |
| `stopwatch.lua`, `sleep.c`, `time.c` | running, start, elapsed | `start`, `stop`, `reset`, `restart`, `sleep` | sequences of calls; clock; interrupted sleeps |
| `fs_entries.c`, `libfs_entries_*.c` | a handle on a directory stream | `entries`, `next`, `close`, `__gc`, `__close` | a handle closed twice; an address used again |
| `fs*.c`, `libfs_*.c` | files of the host | `copy_file`, `rename`, `remove_*`, `exists`, ... | tests and acts with other processes in between; copies that fail half-way |
| `liballocator.c`, `libstr.c` | headers of blocks, on the stack or the heap | `alloc`, `realloc`, `free`, `concat` | the block that is on the stack; the retry after a failure |
| `path.c`, `libpath*.c` | none | parts of a path and their replacement, `combine`, `full_path`, `normalize`, `starts_with`, `ends_with` | offsets counted down to the root; dots, roots and drives; tokenizers from both ends |
| `env.c`, `libenv_*.c`, `system_*.c` | the environment of the process | strings of the host of unknown length | the string changes between two requests; the buffer that grows |
| `checks.c`, `liberror.c` | the registered checks | `check_types`, `check_type`, `check_option`, `check_arg`, `register_type`, `unregister_type` | alternatives decided at three places; checks of the program called in the middle |
| `array.lua`, `tablex.lua`, `stringx.lua`, `text.lua`, `version.lua` | none, some work in place | collections and text | indices at the ends, negative indices, in-place moves |
| `shapes.lua`, `predicates.lua`, `convert.lua` | none | validators | combinations of validators |
| `inflector.lua`, `pretty.lua`, `hash.c`, `term/*`, `iox.lua`, `osx.lua`, `re.lua`, `debugx.lua` | none or the host's | formatting, thin wrappers | little or nothing a model would reach |

How they interact: `cli.run` (cmd.lua) rewrites the tree of commands, hands it to
`parser.parse`, which calls the readers and the actions of the flags, and then runs the
action of the command it ended in. `fs.entries` tests the path and hands out
a handle that the collector closes too. `i18n` loads bundles with `require`. The C
modules take their buffers from `liballocator`. `checks` looks into the frame of the
function that called it, and calls the checks that the program has registered. `array` is used by most of
the Lua modules.


## 2. The modules

| Module | Models | Kind |
|---|---|---|
| `CliParser` | `parse` of `cli/parser.lua`, step by step | detailed |
| `TokenFlow` | what a parser of command lines promises about its tokens | abstract, implemented by `CliParser` |
| `CliParserProofs` | theorems about `CliParser` | proofs |
| `CliApp` | `run` of `cli/cmd.lua`, called again and again | detailed |
| `CliAppProofs` | theorems about `CliApp` | proofs |
| `FsEntries` | directory handles, `fs_entries.c` and `libfs_entries_*.c` | detailed, two platforms |
| `FsEntriesProofs` | theorems about `FsEntries` | proofs |
| `FsFiles` | `copy_file`, `rename`, removal and tests, one system call a step | detailed |
| `FsFilesProofs` | theorems about `FsFiles` | proofs |
| `I18n` | bundles, classifiers, `L` and `Ln` of `i18n.lua` | detailed |
| `I18nProofs` | theorems about `I18n` | proofs |
| `Path` | what the functions of `path.c` and `libpath*.c` compute, on both platforms | operators |
| `PathProgram` | a program that works on one path, and the loops of `starts_with` and `ends_with` | detailed, over `Path` |
| `PathProofs` | theorems about `Path` and `PathProgram` | proofs |
| `Checks` | `checks.c`: arguments against descriptors, registered checks | detailed |
| `ChecksProofs` | theorems about `Checks` | proofs |
| `Allocator` | blocks of `liballocator.c`, on the C stack or from the Lua state | operators over the heap |
| `HostStrings` | ten functions of `env`, `path` and `system` that ask the host for a string | detailed, over `Allocator` |
| `HostStringsProofs` | theorems about `HostStrings` with `Allocator` | proofs |
| `MC...` | the instances that TLC checks | instances |

Every definition that begins with "Mutant" in its comment is a plausible mistake
in the code; it is used by no specification. `PROJECT.json` says which property
each one breaks.

### CliParser

The variables are the locals of `parse` and `visit` under their own names
(`arg_index`, `occurrences`, `ctx`, `local_arguments`, `global_options`, ...; the
local table `arguments` is `positional`), the token in hand `arg`, and a control
state `phase`: `visit` (the head of `visit`), `loop` and `eat` (its `while` and
`eat_all`), `arguments` (`handle_arguments`), `check` (the two final loops) and
`done`. `fate` is a history variable: what became of each token.

Each pass through a loop is one action, with the calls it makes: `ApplyOption` is
`handle_option` with `find_option`, `handle_occurrence` and `apply`;
`HandleArgument` is `handle_argument` with the same. `ctx` is kept by field, as in
`parser.lua:114`: an option of a command and one of its sub-command, or an option and an argument,
that have one name share what is stored (`Field`, `Store`). `Outcomes` is `apply`: the set
of contexts and errors it can end with, given that callbacks (`validate`, `action`)
are the program's: they may write the context (`writes`), succeed, return an error or raise one, and
apply raises of itself when it is to merge a list or a map into something that is no table (`Jams`).
A quirk worth knowing when reading it:
`handle_option` returns the text about an option that appeared too often where the caller expects the next
token, so that the text is parsed as a word (`Message`); the token has the role `refused`.
The field `_` of the context is `unparsed`: an argument that is itself called `_` is taken to be none (`:283` would write
over it), and the keys of a map to be no indices of a list.

Tokens are records of a form (word, `--name`, `--name=value`, `-n`, ...) and a name or
a value; texts are model values. Readers are sets of accepted values with a type
(single, list, map, tuple-list). A long name with a hyphen (`Hyphenated`) is matched by no pattern, and what
is looked for is then nil: `find_by_name(nil)` finds the first option without a short name, if there is one.

`TokenFlow` is the promise of a parser in general: tokens are read left to right, each
once, they form a sentence of `(option [value] | command)* [refused] (positional | separator)*`,
and success means that the line was used up. `ReadsTheLine` in `CliParser` says
that it implements `TokenFlow`: `role` is what `fate` says, `verdict` is `phase` and `err`.

### CliApp

The tree of commands is known by paths; `kids`, `parent`, `wired` (has `exit`,
`writer`, `error_writer`) and `hidden` are fields of the commands' tables. `Run` starts
`run`, `stack` holds the calls of `set_parent` and of the set-ups of flags to come, so
that `SetParent` and `SetupFlags` visit the tree in the order of the
recursion. `Loop` puts a frame on it for each entry of a table, also for an option, which `PassOption`
takes off: the loop of the code looks at options and passes over them. The parse is reduced to the commands it enters and the options it meets:
`ReadOption` runs the actions of `--help` and `--version` in the middle of it, once for each command: the message about a
second one is read as a word (`MetTwice`). An `exit`
that is called either ends the process (`over`) or, a function of the program, returns; the help command hands on what it
returns, which `run` takes for an error unless it is nil or false (`Failing`, `HelpAction`). An option of the tree stands for
`--help` or `--version` when it has the long or the short name (`StandsFor`); a command only by its name, as in the
code, which looks at no alias when it adds the help and the version command (`cmd.lua:59`, `:120`). Lines spell options by their long names,
and `--other` stands for an option without a limit.
`outcomes` is a history variable: what each line did, from the second run on.

### FsEntries

`stream` is the host: which addresses hold an open stream, and which names are still to
come from it. An address that was given back may be used for the next stream. `dir`,
`closed`, `found` are the fields of `entries_t`. `Next...` are the branches of
`read_dir_next`; `Close` is `h:close()` and `__close`, `Collect` is `__gc`. The
variable `platform`, chosen in `Init`, says which build runs: the two differ in where
`closed` is set (`CloseUnix`, `CloseWindows`) and in the first name, which Windows reads
on opening. An operation on an address that is not
open is undefined: it fails, aborts the process, or acts on the stream that is there
now. `EntriesRaises` is `lua_newuserdata` failing after the stream was opened.

### FsFiles

Callers share names (`node`), inodes with a kind and a content, and take one system call
a step: `copy_file` is `OpenSrc`/`NoSrc`, `CreateDst`/`OpenDst`/`NoDst`,
`ReadChunk`/`ReadEnd`/`ReadFails`, `WriteChunk`/`WriteFails` as in the loop of
`fsL_copy_file`; `remove_directory` tests and removes in two steps. Writes may be short.
The module models the Unix build other than macOS. There `fs_file.c:49` calls
`fsL_remove_file`, the function that `libfs_unix.c:104` names
`fsL_delete_file`; the model takes the two for the same function.

### I18n

The variables are the module's locals (`current_locale`, `classifiers`) and the fields of
the bundles' records (`mode`, `package`, `strings`, `classify`). `strings[n]` names a
table by package and locale, because `require` returns the same table to every bundle of
a package: `entry` holds what is in it, `metatable` the mode that the last
`setmetatable` gave it. `L`, `LnSingular` and `LnPlural` are what a call writes, `Singular`
and `Counted` what it returns. A call that raises changes nothing and is no step, except
`Call`, which registers the bundle before its strings fail to load.

### Path and PathProgram

A path is a sequence of characters and an offset is the code's, from 0. `RootLength`,
`SplitPath` (with `FileOffset`, `DirLength`, `ExtOffset`) and the tokenizers follow the
scans of `libpath*.c`; `platform` says which of `libpath_unix.c` and `libpath_win.c` is
built. A `size_t` that is counted below zero would show as an offset out of order. What
the code reads behind a string is the character `"junk"`. `Resolve` is the loop of the Unix
`pathL_full_path` on the buffer, character by character, because that is what it does;
`ResolvesComponents` holds it against resolving the components one by one.

In `PathProgram` a program replaces and takes parts of one path, in any order, so that
functions meet the results of others. `StartsWith` and `EndsWith` begin a comparison, `Turn` is one
turn of its loop: `MostComparisonsEnd` is liveness because one of the loops does not end.

### Checks

`checkers` is the table under `checkers_ref`, `call` what the C functions have in their locals and
on the stack: the argument `arg`, the alternative `alt`, the frame looked into. `NoMore`, `Look` and
`NothingAsked` are the head of `check_types`' two loops, `TryFast` is `type_match_one_fast`, `TryOwn` is
`type_match_one_slow` up to the call of a registered check, which is the
program's: `CheckerSays` and `CheckerRaises` end it, and while it runs `RegisterType` and
`UnregisterType` may happen (`Outside`). `checked`, `said` and `kept` are history: what was
accepted on which answers, and which registered checks stayed. The strings of a descriptor are parsed: a
descriptor is its alternatives, its `?` and its `:`.

### Allocator and HostStrings

`heap` is what the allocator of the Lua state has given, block by block with its size;
`foreign` becomes true when it is handed a block that is none of those, or a wrong size.
`Alloc`, `Malloc`, `Grown` and `Freed` are the functions of `liballocator.c`; a block counts
the word before it. The allocator may give a block at once, give it after the collector has run
(`gives_late`), or refuse for good (`Refused`), and the code raises.

`Functions` lists the ten functions with the sizes of their buffers, from the source, and the
way each of them asks again; they are alike enough for one set of actions. A string
is its length: `Change` is another thread or process that changes it at any time between two requests.
`had` is history: the strings the host has had since the call began. A call begins only
when nothing is left over from the one before, so a program that has lost a block makes no further
call: what a call leaves is seen at its own end.

## 3. The runs

| Run | Question | Result |
|---|---|---|
| `cli_tree` | lines made from 14 tokens, for an application with a sub-command, options and an argument that share a field and callbacks that write the context, and for a flat command with tuples, booleans and maps: are tokens read once, requirements met, arguments filled in order, does what was given gather in its fields, what becomes of an option given too often, and does it return? | holds; an option given too often is no error (see below) |
| `cli_runs` | four runs over 20 lines, with an `exit` that ends the process, returns, or returns a value: are flags added once, is every command wired, and do equal lines do equal things? | holds |
| `fs_entries` | two handles, two addresses, both platforms: are streams and handles paired, is nothing skipped, is every stream given back? | holds; on Unix as long as no handle is closed by hand |
| `fs_copy` | two callers, three calls on three names: does an exclusive copy touch only its own file, is a fresh copy exact? | holds |
| `i18n` | two bundles over two packages with plurals missing: are the program's strings kept, do answers follow the bundle's own file, mode and classifier, and stay? | answers are the bundle's own as long as it shares its strings with no other, and stay in any case but one, which `AnswersStable` names |
| `path` | every short path: do the parts make up the path, do `full_path` and `normalize` do what working on the components does, are the answers of the comparisons right? | holds, with the exceptions that the properties name |
| `checks` | functions with parameters, varargs and a self against descriptors of every shape: was what is accepted asked for, is what is refused not, is no argument passed over, while checks register and unregister others? | holds for the alternatives that count (`Counted`); see `checks_alternatives` |
| `host_strings` | ten functions, the code's buffers, strings that change and an allocator that refuses: is nothing overrun, was what is returned there, is everything given back? | holds, with the exceptions that the properties name |
| `cli_default`, `fs_unix_close`, `path_ends_with`, `checks_alternatives` | each states one sentence of the documentation or one test | violated; see "findings" in `PROJECT.json` |

### Where the code and its words part

Met while modelling; the model does in each case what the code does, and there is no run for it.

Command lines:

  * `cli.lua:140-141` says that `max_count` is the "maximum number of times the option can appear". An option that appears
    once more is not applied, but is no error either: `parser.lua:200` returns the message alone, the loop takes it for the next token, and the
    parse may succeed with the message as its first word and every later option read as a word.
    `ExcessEndsOptions` says exactly that, so that it passes on what the code does and not on what the words say;
  * `parser.lua:165` counts no occurrence of a list, map or tuple-list option, so that the
    `min_count` of `cli.lua:139` is never reached at `:287`, nor its `max_count` at `:171`;
  * flags of one name, of a command and its sub-command for one, fill one field of the context (`parser.lua:114`); a list or a map that
    meets a single value there raises (`:127`, `:134`);
  * what a command requires is not looked at once a sub-command was entered (`:266`);
  * the patterns of `parser.lua:66-76` read no long name with a hyphen in it, which `flag.lua:69` accepts;
  * `cmd.lua:150`: on the first run a command made by the version set-up has
    no `exit`, which `cli.lua:32` promises to call.

Files and texts:

  * `libfs_unix.c:45` takes a short write for a good one: a copy on a full disk, or one cut by a signal, returns true on a
    truncated file, where `fs_file.c:22` says that true means success. `FreshCopyExact` sets short writes apart (`clean`);
  * `copy_file` writes over an existing file without truncating it, and `rename` replaces the
    destination on Unix; `exists` returns nil, not false, for a path that is not there;
  * `libfs_unix.c:170` tests `S_ISREG` where `fs.c:103` says symbolic link;
  * `fs_dir.c:42` removes, in a second step, whatever has taken the place of the directory tested;
  * `i18n.lua:218` sets the metatable of strings that another bundle may have, whose mode,
    promised at `:109`, it replaces. `Alone` in `AnswersOwn` sets this case apart.

Paths:

  * `path.c:321`: the stem of a name behind a directory is longer than it should be, and without an
    extension it goes on behind the end of the string;
  * `libpath.c:118`: the period that begins an extension is not found right behind the first
    character of the file name;
  * `path.c:708`: `starts_with` is said to test for a prefix, and is true only for paths of the same components: `starts_with("/a/b", "/a")` is false.
    `AnswersRight` asks of it what words and code agree on, that it is true of prefixes only and of every path with the same components;
  * `path.c:147`: the new root is optional in the words, and refused when nil in the code;
  * `set_file_stem` drops the period before the extension of a path with a directory;
  * `libpath_win.c:165` looks at the characters from the start of the path where it should begin
    behind the root: a Windows path with a root may keep runs of separators. `NormalizesOnce` asks nothing about separators there;
  * `libpath.c:50` compares without regard to case, on Unix too;
  * `full_path("")` does not raise, as `path.c:567` says it does;
  * `is_separator` of an index beyond the path reads there.

Checks:

  * `type_error`, documented at `checks.c:583`, is not exported;
  * a table with a `__type` is refused by `table`;
  * `check_types` takes a descriptor of `?` alone, which `check_type` calls invalid.

Strings of the host:

  * `liballocator.c:105`: a block on the C stack that is made larger is freed with the allocator of the state;
  * `liballocator.c:59`: the request that is repeated after a collection does not name the block
    that was to be made larger, which is lost;
  * `system_win.c:156` leaves the token open, `:163` the buffer allocated;
  * `libpath_win.c:302` does not look at the length in the second answer: what is returned may never have been written;
  * `libenv_win.c:98` takes an empty variable for an error, and `libenv_win.c:85` one for absent
    if the last error says so;
  * `checkers_ref` (`checks.c:24`), `t0` of `time.c` and `__liballocator_size` are shared by all the Lua states of a process.

### Bounds, and why they are enough

  * `MaxArgs = 3`, `MaxFlatArgs = 5` tokens on a line. Three tokens are an option with a
    separate value and a word or a command after it, or two occurrences of one option and
    a command; five words fill two arguments of at most two tokens and leave one unparsed.
    Among the flags of the sub-command one shares its field with an option of the application and one with an argument.
  * `MaxRuns = 4`. The first run adds flags, the second adds flags to the flags
    added; two more compare runs of a settled tree.
  * `MaxOrphans = 1` failure of the allocator, two addresses, two handles: a handle made
    after another's stream was closed, at its address.
  * `MaxCalls = 3` calls by two callers, four inodes, files of three and four units and
    a buffer of two: a copy with a full and a partial chunk while the other caller copies,
    renames or removes.
  * Two bundles, a locale with a country, its language and the default one: every way to
    find or miss strings and a classifier, and two bundles on one table. Each miss
    is written once, so nothing in `I18n` needs a bound.
  * `MaxInput = 6` characters on Unix: a root, a component, `..` and a separator at either end.
    On Windows `MaxBody = 2` characters behind every kind of root. `MaxLen = 5` bounds the paths that the program makes
    out of others, so that joining does not go on for ever. Letters have no meaning to the code,
    apart from their case in a comparison: two of one letter are enough.
  * In `Checks` three alternatives, two parameters and one vararg: an alternative before and behind the
    one that decides, an argument before and behind the one that fails. Nothing needs a bound.
  * `HostStrings` has the code's own sizes; the lengths are those at both sides of each (259 and
    260, 1023 and 1024), 0, 6000 for a buffer that grows more than once. `MaxBlocks = 3` bounds
    the blocks that a string which grows again and again loses.

`CHECK_DEADLOCK FALSE` is set where the system really stops: the parse ends, the process
exits, the bounded number of calls is used up, every further call raises, a path has grown to `MaxLen`.
`Checks` and `HostStrings` are checked for deadlock.

### Fairness

`parse` and `run` are single calls on the caller's thread, so `WF_vars(Next)`:
the thread takes its next step. Callbacks of the program may fail but return.
For directory handles, only the collector is assumed fair, per handle: it comes to what
the program has dropped (`lua_close` does at the latest). In `PathProgram` a comparison that was begun takes its
next turn, in `Checks` a call its next step and a check of the program's ends, in `HostStrings` a
function that was called goes on, while the string may change before every request: that
`CallsEnd` holds there rests on the buffer being larger after every request. Nothing
else is assumed of the program or the host.

## 4. The proofs

All theorems are for every value of the constants that satisfies the named
assumptions (of `CliParser` and `CliApp` each `AppAssumption`, of `CliApp` also `TreeAssumption`, of `CliParser` also `NilAssumption`, `NameAssumption`,
`ValueAssumption`, `DistinctAssumption`, `ArgsAssumption`, `WritesAssumption`; `EntriesAssumption`, `FilesAssumption`, `I18nAssumption`,
`ChecksAssumption`, `SizesAssumption`, `StringsAssumption`; of `Path` `CharactersAssumption`, `PathAssumption`, `CwdAssumption`, `NamesAssumption`). They say that values which stand for different things are
different (`None` is no quantity of `I18n`), that sets have the elements the code has, that the commands of an
application are a tree (`TreeAssumption`: whoever is in it is reached from the application), in `FilesAssumption` that
an inode which no name has reached yet is empty, and in `CwdAssumption` that `getcwd` answers with a path from the root.

  * `CliParserProofs!TypeCorrect`: `Spec => []TypeOK`; every other proof about `CliParser` uses it.
  * `CliParserProofs!TokensReadInOrder`: `Spec => []ReadInOrder`. `ReadInOrder` speaks
    of the loops only. Inductive is `LineInv`, which adds that a command
    is visited with everything before its first token read (`phase = "visit"`), and that no
    token is in hand only when the line is used up: without the first, `EnterCommand` could
    start over; without the second, `EndOfArgs` could leave tokens.
  * `CliParserProofs!CountsBounded`: `Spec => []ExcessEndsOptions`. Inductive is `ExcessInv`: `CountInv`, that the arguments
    in `local_arguments` are distinct and have room for one more, that before
    the arguments are filled none was counted, and that a flag's tokens are no more
    than its occurrences; `WordsInv`, that the message is in hand or the first of the words once an option was refused, and only then;
    `RefusedFull`, that the option refused has as many tokens as it may; and `ReqInv`, by which its occurrences are no more than its tokens.
    The cardinality lemmas rest on `FiniteSetTheorems`.
  * `CliParserProofs!LineRead`: `Spec => ReadsTheLine`, the refinement: every step of `CliParser` is a step of
    `TokenFlow` or a stutter. Inductive is `FlowInv`: `LineInv`, an error ends the parse, no token is an
    argument or a separator while options are read, what is in `positional` has that role, and the roles so far form
    a sentence. `RoleOf` and `Verdict` are the mapping; one lemma per action says which token of the abstract line it takes.
  * `CliParserProofs!ArgumentsInOrder`: `Spec => []FilledInOrder`. Inductive is `OrderInv`: the indices in `positional`
    grow, what was taken lies before the index in hand and belongs to an argument no later than the first
    that is left, the arguments left are a tail of those declared, those before it are full, and once a token is left over no argument is.
  * `CliParserProofs!RequiredGiven`: `Spec => []RequirementsMet`. Inductive is `ReqInv`, on top of `OrderInv`: every
    token marked as a flag's counts for it, a flag that is not repeatable has no more occurrences than tokens, and a
    parse that ends well has nothing lacking.
  * `CliParserProofs!ValuesGathered`: `Spec => []ContextAsGiven`. Inductive is `ContextInv`, on top of `ExcessInv`: at every step
    short of an error, what a field holds is what the tokens read so far for all the flags that share it said (`Gathered`, `FedAt`), and a field that was given a value is
    never one that the code takes for absent (`Holds`). `Given` picks the k-th token by how many come before it (`Nth`), so that the token in hand, which is behind
    all that were read (`OptionMarks`, from `ReadInOrder`), adds one value at the end.
  * `CliAppProofs!FlagsOnce`: `Spec => []NoDuplicates`, for any tree and any number of runs. Inductive
    is `KidsInv` (the type of `kids` and `NoDuplicates`); the work is in the lemma that adding
    what is missing keeps a sequence free of doubles, twice for each set-up.
  * `CliAppProofs!TreeIsWired`: `Spec => []TreeWired`, for a tree of any depth. Inductive is `WireInv`: during the set-up
    each command in a table is wired, or a call on the stack is above it (`Due`), or it is a version command of the first
    run (`Late`). `Descend` says that a call that is above a command leaves one that is, or was its own. `Looks` says that only
    the first run finds a version command missing: without it, a later run could add one and leave it unwired.
  * `CliAppProofs!LinesAgree`: `Spec => []RunsAgree`, for any tree and any lines. `FillInv` (on top of `WireInv`) says when the tables stop growing:
    each command of the tree has its flags, or an option that stands for them (`Stood`, `Full`), or a call on the stack will come to it (`Coming`), or it was itself added by the first
    run, which is why the second run still adds (`Since`). With the tables settled a run is a function of its line: `Onward` is
    the next state of a run that goes on, and `Comes(l, x)` says that x is reached from the beginning of `l` by it. Inductive is `AgreeInv`: the run under way and every recorded outcome
    come of their line; that a line comes to one end only is an induction over the steps (`Climb`).
  * `FsEntriesProofs!EntriesTypeCorrect`: `Spec => []TypeOK`.
  * `FsEntriesProofs!StreamsOwned` and `!IteratorsApart`: `Spec => []OneOwner` and `[]OwnEntries`.
    Inductive is `EntriesInv`, which adds that an orphan stays open, that a handle
    not yet used is blank, and that what is still to come from a stream belongs to the path of
    its owner and was not returned before.
  * `FsEntriesProofs!ListingsComplete`: `Spec => []NothingSkipped`. Inductive is `ListInv`: as long as nothing undefined
    was done, each name of the path was given or is still to come from the handle's own stream, and a listing that
    is complete belongs to a closed handle. `EntriesInv` carries it: without one owner per stream, another handle could read the names away.
  * `FsFilesProofs!FilesTypeCorrect` and `!WritesOwn`: `Spec => []TypeOK` and the action property `OnlyOwnWrites`. Inductive
    is `FilesInv`: an inode not yet made has no name and no content, and what a copy holds open fits the step it is at.
  * `FsFilesProofs!CopyExact`: `Spec => FreshCopyExact`. Inductive is `ExactInv`: while a fresh copy runs undisturbed, the
    destination is the part of the source before the chunk in hand, the chunk is the next part, and the offset
    is where both end.
  * `I18nProofs!TextsStay`: `Spec => []TextsKept`. Inductive is `TextsInv` (`TextsKept` and the
    domain of `entry`), by way of a lemma that every step only adds entries (`OnlyGrows`).
  * `I18nProofs!BundlesTypeCorrect`, `!AnswersFromFile` and `!AnswersLast`: `[]TypeOK`, `[]AnswersOwn` and `AnswersStable`. Inductive
    is `BundlesInv`: `TextsInv`, a loaded bundle has strings of its own package, a table that no other bundle has is
    wired for its bundle's mode, what is in a table beyond its file was put there by a miss, and for forms the classifiers can ask for.
  * `ChecksProofs`: `[]TypeOK`, `[]AcceptedMatch`, `[]EveryArgumentChecked` and `[]RefusedRightly`, from one
    inductive invariant, `ChecksInv`. It adds to the four that what was accepted is what was given, argument by
    argument (`Passed`; without it the count says nothing about which), and, while alternatives are tried, that
    none of those before the present one is what the value is and each check among them that stayed was asked (`NotYet`). From it a
    value of a basic type is refused at the first alternative or not at all.
    A check that is unregistered leaves `kept`, so that `NotYet` survives it; one that is
    registered late never enters it.
  * `HostStringsProofs`: `BlocksInv` says what a call at each step holds, a converted name, a buffer, or neither, that
    the two are different blocks, and how many elements the buffer has: type correctness and
    `NeverOverrun` follow. `StringsInv` adds what the answer a function took was compared with: from it
    `StringWasThere`. `TidyInv` adds that every block of the heap is one that the call holds or one that was lost
    (`lost`, the blocks that `liballocator.c:59` forgets), but for the functions that `AllGivenBack` excepts by name: `GivesBack`.
  * `HostStringsProofs!OwnBlocks`: `Spec => OnlyOwnBlocks`, for a `Threshold` of at most 1024 (the code's is 1024). Inductive is `StackInv`:
    a buffer on the C stack that is still to be made larger is the first one, of MAX_PATH characters, as every later one is past the
    threshold. With a higher threshold the statement would be about other functions too.
  * `PathProofs!PathsOnly`: `Spec => []PathType`. The offsets at which a part is cut lie inside the path
    (`SplitType`), and what is put together of paths is one again. The theorems below need no more of the state.
  * `PathProofs!OffsetsInOrder`: `Spec => []SplitOrdered`, for a path of any length over any characters, on both platforms. It is a fact about
    `SplitPath` at any path. The scans are a first or a last element of a set of offsets; that there is one, for a set that is
    not empty, comes from finite sets being well-founded under inclusion (`FiniteSetTheorems`).
  * `PathProofs!PartsFound`: `Spec => []PartsReadBack`, from lemmas that say what `SplitPath` finds in a path put together of a
    front and a name: the same root, the parent where the front ends, the file name where the name begins.
  * `PathProofs!NormalizedOnce`: `Spec => []NormalizesOnce`. `Collapsed` takes the characters it keeps by their order
    (`InOrder`); the lemmas say which character of the path each one comes from (`OriginsAre`), so that no two
    separators are left side by side, a second pass keeps every index, and each component of the result is one of the path (`TokenKept`).
  * `PathProofs!RightAnswers`: `Spec => []AnswersRight`. Inductive is `AnswersInv`: a comparison under way belongs to the path in hand, its turn
    takes the next components of both sides (it knows when starts_with is true exactly, `Right`, and `AnswersRight` follows: `RightlyAnswered`), and what has been passed of either is equal (`FrontPassed`, from the front; `BackPassed`,
    from the back). `TokenNextIs` and `TokenNextBackIs` say that a call of the scanner takes exactly the first, or the
    last, of the components that are still to come.
  * `PathProofs!ComponentsResolved`: `Spec => []ResolvesComponents`, for any path and any current directory. It is an induction over the
    characters: after those before n, `k` components have begun (`Latest`), and what `Resolve` has written is the way walked through
    them, with as much of the last one as was seen (`Held`; `Midway` inside a component, where a "." or a ".." is being passed over or a name
    written). `TurnIs` says what becomes of each character, `UpIs` that going back to the last separator is
    going up one component. Both recursive functions are opened by the lemma `Recursion`.

Only model-checked: liveness (`Terminates`, `MostComparisonsEnd`, `CallsEnd` of `Checks`
and of `HostStrings`, `AllGivenBack` of `FsEntries`), which is out of the prover's reach. Every safety
invariant and every action property that a run checks is proved.

## 5. The plan

Done: `CliParser` with `TokenFlow`; `FsEntries`; `FsFiles`; `CliApp`; `I18n`; `Path`; `Checks`; `Allocator` with
`HostStrings`; proofs about all of them. What would come next, in this order:

 1. `Oo`: a lookup agrees with the chain of classes and mixins, when classes are reopened between lookups.
 2. `CliReader` with `CliFlag`: types nested in types.

## 6. What is not modelled

Text layout (`help`, `util`, `text`, `pretty`, `inflector`), hashing, the conversion of encodings, and thin
wrappers of the host (`system` but for two functions, `iox`, `osx`, `fs.meta`, `term`, `time`, `sleep`) keep no state and
promise little a model would reach. `stopwatch` has three fields and operations of one or two
assignments: a model would restate them. `array`, `tablex`, `stringx`, `version` and `shapes` are functions of
their arguments with nothing between two calls, which the tests of `src/spec` compare with known answers. `oo`,
`func`, `flag` and `reader` set up tables once; of the last two the parser's model has what it reads of them.

Within the modelled parts: the wording of messages, suggestions for unknown commands, the Lua stack of `checks.c`
(what is left on it is never read), the host's own resolution of a path, the Windows variants of `FsFiles`, and, in `CliApp`,
everything about arguments that `CliParser` has. `PROJECT.json` lists every component with its status.
