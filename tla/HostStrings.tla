---------------------------- MODULE HostStrings ----------------------------
(***************************************************************************)
(* The functions that ask the host for a string of which they do not know  *)
(* the length: the current directory, a full or canonical path, an         *)
(* environment variable, the user's directory, the name of the process.    *)
(* Each asks with a buffer and, when the string does not fit, gets a       *)
(* larger one from the allocator and asks again; meanwhile other threads   *)
(* and processes change the string.                                        *)
(*                                                                         *)
(* A string is its length, in characters; Gone stands for there being none. *)
(***************************************************************************)
EXTENDS Allocator

CONSTANTS
  Lengths,  \* of the strings of the host
  Gone,
  Junk,     \* what is read from a buffer nobody has filled
  MaxBlocks \* bound on the blocks alive when one is to be made larger

ASSUME StringsAssumption ==
  Lengths \subseteq Nat /\ Gone \notin Nat /\ MaxBlocks \in Nat

VARIABLES
  world,  \* the string that the host would answer with
  call    \* the call being made, None between two calls

vars == <<heap, foreign, world, call>>

F(name, how, place, cap, width, has) ==
  [name |-> name, how |-> how, local |-> place = "array", cap |-> cap, width |-> width,
   key |-> "key" \in has, handle |-> "handle" \in has]

(* What a function does when its buffer is short: make it twice as large    *)
(* (doubles), as large as it is told (told), that only once (once), or     *)
(* give up (fixed); what it asks with first, an array of its own or a      *)
(* block, of how many characters of what width; and whether it has a name  *)
(* to convert (key) and something to open and close (handle).              *)
Functions ==
  {F("push_cwd", "doubles", "array", 1024, 1, {}),
   F("process_name", "doubles", "array", 1024, 2, {}),
   F("unix_process_name", "fixed", "block", 4096, 1, {}),
   F("unix_get_current_dir", "fixed", "array", 4096, 1, {}),
   F("get_current_dir", "told", "block", 260, 2, {}),
   F("user_dir", "told", "block", 260, 2, {"handle"}),
   F("get_var", "told", "block", 1024, 2, {"key"}),
   F("full_path", "told", "block", 512, 2, {"key"}),
   F("canonicalize", "once", "array", 512, 2, {"key", "handle"}),
   F("user_home", "once", "array", 1024, 2, {"handle"})}

(* Only a variable can be empty.                                           *)
Strings(f) == {Gone} \cup {n \in Lengths : n # 0 \/ f.name = "get_var"}

Init ==
  /\ heap = << >> /\ foreign = FALSE
  /\ world \in Lengths \cup {Gone} /\ call = None

(* As history: had, the strings the host has had since the call began, and *)
(* lost, the blocks that the host refused to make larger at first.         *)
Begin(f) ==
  /\ call = None /\ DOMAIN heap = {} /\ world \in Strings(f)
  /\ call' = [fn |-> f, step |-> "key", key |-> None, handle |-> FALSE, block |-> None,
              cap |-> f.cap, again |-> FALSE, text |-> None, outcome |-> "none",
              had |-> {world}, lost |-> {}]
  /\ UNCHANGED <<heap, foreign, world>>

Change ==
  /\ world' \in IF call = None THEN Lengths \cup {Gone} ELSE Strings(call.fn)
  /\ call' = IF call = None THEN None ELSE [call EXCEPT !.had = @ \cup {world'}]
  /\ UNCHANGED <<heap, foreign>>

Doing(step) == call # None /\ call.step = step

Fn == call.fn

Ends(c, outcome) == [c EXCEPT !.step = "done", !.outcome = outcome]

(* luaL_error leaves everything where it is.                               *)
Raises == call' = Ends(call, "raised") /\ UNCHANGED <<heap, foreign, world>>

---------------------------------------------------------------------------
(* The name, as wide characters; a name that is no UTF-8 has none.         *)
ConvertKey ==
  /\ Doing("key")
  /\ \/ /\ ~ Fn.key
        /\ call' = [call EXCEPT !.step = "open"] /\ UNCHANGED heap
     \/ /\ Fn.key
        /\ call' = [call EXCEPT !.step = "open", !.key = Malloc(1, 2)]
        /\ heap' = With(heap, Malloc(1, 2))
     \/ /\ Fn.key
        /\ call' = IF Fn.name = "get_var" THEN Ends(call, "error")
                   ELSE [call EXCEPT !.step = "open"]
        /\ UNCHANGED heap
  /\ UNCHANGED <<foreign, world>>

NoName == Fn.key /\ call.key = None

(* CreateFileW and OpenProcessToken; canonicalize then needs the name no   *)
(* longer, and when it is not there answers with the path it was given.    *)
Open ==
  /\ Doing("open")
  /\ \/ ~ Fn.handle /\ call' = [call EXCEPT !.step = "buffer"] /\ UNCHANGED heap
     \/ /\ Fn.handle /\ ~ NoName
        /\ call' = [call EXCEPT !.step = "buffer", !.handle = TRUE, !.key = None]
        /\ heap' = Freed(heap, call.key)
     \/ /\ Fn.handle
        /\ call' = [Ends(call, IF Fn.key THEN "itself" ELSE "error") EXCEPT !.key = None]
        /\ heap' = Freed(heap, call.key)
  /\ UNCHANGED <<foreign, world>>

FirstBuffer ==
  /\ Doing("buffer")
  /\ call' = [call EXCEPT !.step = "ask",
                !.block = IF Fn.local THEN None ELSE Alloc(Fn.cap, Fn.width)]
  /\ heap' = IF Fn.local THEN heap ELSE Taken(Alloc(Fn.cap, Fn.width))
  /\ UNCHANGED <<foreign, world>>

---------------------------------------------------------------------------
(* The host's answers.  A string fits when there is room for the NUL; at    *)
(* first user_home counts it twice.                                        *)
Enough ==
  /\ world # Gone /\ world < call.cap
  /\ Fn.name = "user_home" /\ ~ call.again => world + 1 < call.cap

(* Closed by canonicalize when it is answered, by user_home when it has    *)
(* asked for the second time; by user_dir at its end.                      *)
ClosedByAsking ==
  Fn.name = "canonicalize" \/ (Fn.name = "user_home" /\ call.again)

(* Mutant: the name is not freed when the string fits.                     *)
AskFitsKeyKept ==
  /\ Doing("ask") /\ Enough /\ ~ NoName /\ world # 0
  /\ call' = [call EXCEPT !.step = "push", !.text = world, !.key = None,
                !.handle = @ /\ ~ ClosedByAsking]
  /\ UNCHANGED <<heap, foreign, world>>

(* Mutant: the buffer is freed before it is read.                          *)
AskFitsFreed ==
  /\ Doing("ask") /\ Enough /\ ~ NoName /\ world # 0
  /\ call' = [call EXCEPT !.step = "push", !.text = world, !.key = None,
                !.handle = @ /\ ~ ClosedByAsking]
  /\ heap' = Freed(Freed(heap, call.key), call.block)
  /\ UNCHANGED <<foreign, world>>

AskFits ==
  /\ Doing("ask") /\ Enough /\ ~ NoName /\ world # 0
  /\ call' = [call EXCEPT !.step = "push", !.text = world, !.key = None,
                !.handle = @ /\ ~ ClosedByAsking]
  /\ heap' = Freed(heap, call.key)
  /\ UNCHANGED <<foreign, world>>

Discarded(h, c) == Freed(Freed(h, c.key), c.block)

Dropped(c) == [c EXCEPT !.key = None, !.block = None, !.handle = FALSE]

(* An empty variable is an error, or is not there when that is what the    *)
(* last error of the thread says of a call before.                         *)
AskEmpty ==
  /\ Doing("ask") /\ world = 0
  /\ \E outcome \in {"absent", "error"} : call' = Ends(Dropped(call), outcome)
  /\ heap' = Discarded(heap, call)
  /\ UNCHANGED <<foreign, world>>

(* There is no string, or the host fails for a reason of its own.          *)
AskFails ==
  /\ Doing("ask")
  /\ call' = IF Fn.name = "get_var" /\ world = Gone THEN Ends(Dropped(call), "absent")
             ELSE Ends(Dropped(call), "error")
  /\ heap' = IF Fn.name = "user_home" THEN heap ELSE Discarded(heap, call)
  /\ UNCHANGED <<foreign, world>>

Short == Doing("ask") /\ world # Gone /\ ~ Enough /\ ~ NoName

GiveUp ==
  /\ Short /\ Fn.how = "fixed"
  /\ call' = Ends(Dropped(call), "error") /\ heap' = Discarded(heap, call)
  /\ UNCHANGED <<foreign, world>>

(* Twice the room, in a block of its own once the old one is freed.        *)
Double ==
  /\ Short /\ Fn.how = "doubles"
  /\ LET n   == call.cap * 2
         new == Malloc(n, Fn.width)
         h   == Freed(heap, call.block)
     IN  \/ /\ ~ TooBig(n, Fn.width)
            /\ call' = [call EXCEPT !.cap = n, !.block = new] /\ heap' = With(h, new)
         \/ call' = Ends(Dropped(call), "raised") /\ heap' = h
  /\ UNCHANGED <<foreign, world>>

(* The request made after the collector has run does not name the block.   *)
LosesBlock(answer) ==
  IF answer = "gives_late" /\ OnHeap(call.block) THEN {call.block.id} ELSE {}

(* Mutant: the capacity is not what the block was made for.                *)
GrowStale(answer) ==
  /\ Short /\ Fn.how = "told" /\ ~ TooBig(world + 1, Fn.width)
  /\ Cardinality(DOMAIN heap) < MaxBlocks
  /\ LET new == Malloc(world + 1, Fn.width)
     IN  /\ call' = [call EXCEPT !.block = new, !.lost = @ \cup LosesBlock(answer)]
         /\ heap' = Grown(call.block, new, answer)
         /\ foreign' = Misused(call.block)
  /\ UNCHANGED world

(* As much as the host says it needs.  A block that was on the stack is    *)
(* handed to the allocator to be freed: the program may die of it.  Each   *)
(* late answer loses a block; MaxBlocks bounds them.                       *)
Grow(answer) ==
  /\ Short /\ Fn.how = "told" /\ ~ TooBig(world + 1, Fn.width)
  /\ Cardinality(DOMAIN heap) < MaxBlocks
  /\ LET new == Malloc(world + 1, Fn.width)
     IN  /\ call' = [call EXCEPT !.cap = world + 1, !.block = new,
                       !.lost = @ \cup LosesBlock(answer)]
         /\ heap' = Grown(call.block, new, answer)
         /\ foreign' = Misused(call.block)
  /\ UNCHANGED world

Crash ==
  /\ Short /\ Fn.how = "told" /\ ~ Known(call.block)
  /\ call' = [call EXCEPT !.step = "crashed"] /\ foreign' = TRUE
  /\ UNCHANGED <<heap, world>>

(* A block of the size the host says, to ask once more.                    *)
AskOnceMore ==
  /\ Short /\ Fn.how = "once" /\ ~ call.again /\ ~ TooBig(world + 1, Fn.width)
  /\ call' = [call EXCEPT !.cap = world + 1, !.again = TRUE,
                !.block = Alloc(world + 1, Fn.width)]
  /\ heap' = Taken(Alloc(world + 1, Fn.width))
  /\ UNCHANGED <<foreign, world>>

(* Mutant: the second answer is looked at by neither.                      *)
ShortAgainTaken ==
  /\ Short /\ Fn.how = "once" /\ call.again
  /\ call' = [call EXCEPT !.step = "push", !.text = Junk, !.handle = FALSE]
  /\ UNCHANGED <<heap, foreign, world>>

(* The string has grown in between: canonicalize does not look, and takes  *)
(* what is in the block; system.user_home fails and keeps it.              *)
ShortAgain ==
  /\ Short /\ Fn.how = "once" /\ call.again
  /\ call' = IF Fn.name = "canonicalize"
               THEN [call EXCEPT !.step = "push", !.text = Junk, !.handle = FALSE]
               ELSE Ends(Dropped(call), "error")
  /\ UNCHANGED <<heap, foreign, world>>

(* The host refuses twice, or the block would be too big.                  *)
Refused ==
  /\ \/ Doing("key") /\ Fn.key
     \/ Doing("buffer") /\ ~ Fn.local /\ ~ OnStack(Fn.cap, Fn.width)
     \/ Short /\ Fn.how \in {"told", "once"} /\ ~ call.again
  /\ Raises

---------------------------------------------------------------------------
(* utfL_pushstring16 and lua_pushstring: a block for the UTF-8, the string *)
(* of the Lua state, and both blocks are freed.  What is no UTF-16 cannot  *)
(* be converted.                                                           *)
Pushed ==
  /\ Doing("push")
  /\ LET c == [Dropped(call) EXCEPT !.handle = call.handle /\ Fn.name = "user_home"]
     IN  \/ call' = Ends(c, "ok")
         \/ Fn.width = 2 /\ call' = Ends(c, "error")
  /\ heap' = Freed(heap, call.block)
  /\ UNCHANGED <<foreign, world>>

PushRaises ==
  /\ Doing("push")
  /\ call' = Ends(call, "raised")
  /\ \/ Fn.width = 2 /\ heap' = With(heap, Malloc(1, 1))
     \/ UNCHANGED heap
  /\ UNCHANGED <<foreign, world>>

Return ==
  /\ Doing("done") /\ call' = None
  /\ UNCHANGED <<heap, foreign, world>>

Asking == AskFits \/ AskEmpty \/ AskFails

Working ==
  \/ ConvertKey \/ Open \/ FirstBuffer \/ Asking
  \/ GiveUp \/ Double \/ Crash \/ AskOnceMore \/ ShortAgain \/ Refused
  \/ \E answer \in Answers : Grow(answer)
  \/ Pushed \/ PushRaises \/ Return

Next == Change \/ Working \/ \E f \in Functions : Begin(f)

(* A function that was called runs on.                                     *)
Spec == Init /\ [][Next]_vars /\ WF_vars(Working)

---------------------------------------------------------------------------
(* The variables are of these kinds, and a call holds blocks that are      *)
(* alive: a buffer or a name that has been freed is not used again.        *)
TypeOK ==
  /\ DOMAIN heap \subseteq Nat \ {0} /\ foreign \in BOOLEAN
  /\ \A id \in DOMAIN heap : heap[id] \in Nat
  /\ call # None =>
       /\ call.fn \in Functions /\ call.cap \in Nat
       /\ call.step \in {"key", "open", "buffer", "ask", "push", "done", "crashed"}
       /\ call.outcome \in {"none", "ok", "error", "absent", "itself", "raised"}
       /\ \A b \in {call.key, call.block} : b = None \/ ~ OnHeap(b) \/ Known(b)

(* The host is never told of more room than there is in the buffer, the    *)
(* word before a block not counted.                                        *)
NeverOverrun ==
  Doing("ask") =>
    IF call.block = None THEN Fn.local /\ call.cap <= Fn.cap
    ELSE call.cap * Fn.width + Header <= call.block.size

(* What a function returns is a string the host had while it was called,   *)
(* whoever changed it how often; only canonicalize, which does not look at *)
(* the second answer, may return what nobody wrote.  A variable that is    *)
(* said not to be there was not, or was empty.                             *)
StringWasThere ==
  /\ Doing("done") /\ call.outcome = "ok" =>
       \/ call.text \in call.had \ {Gone}
       \/ Fn.name = "canonicalize" /\ call.text = Junk /\ Cardinality(call.had) > 1
  /\ Doing("done") /\ call.outcome = "absent" => call.had \cap {Gone, 0} # {}

(* A function that does not raise has given everything back, the handle it *)
(* opened and its blocks, but for what system.user_home forgets (the token *)
(* when the first buffer does, the second one when it does not) and those  *)
(* very blocks that the host has refused to make larger at first.  What    *)
(* raises jumps out of the function and gives nothing back.                *)
AllGivenBack ==
  Doing("done") /\ call.outcome # "raised" =>
    /\ call.handle => Fn.name = "user_home" /\ ~ call.again
    /\ DOMAIN heap \subseteq call.lost
         \/ (Fn.name = "user_home" /\ call.again /\ call.outcome = "error")

(* The allocator of the state is handed what it has given, with its true   *)
(* size, except when a buffer on the stack is to be made larger: that is   *)
(* env.get_current_dir and env.user_dir, for more than MAX_PATH characters. *)
OnlyOwnBlocks ==
  [][foreign' /\ ~ foreign =>
       /\ ~ OnHeap(call.block) /\ world > 259
       /\ Fn.name \in {"get_current_dir", "user_dir"}]_vars

(* A call ends however often the string grows under it.                    *)
CallsEnd == call # None ~> (call = None \/ Doing("crashed"))
=============================================================================
