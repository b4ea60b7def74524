------------------------- MODULE HostStringsProofs -------------------------
(***************************************************************************)
(* Proofs about HostStrings, for any lengths of the host's strings and any *)
(* sizes of the word and of the stack's blocks: no buffer is overrun, and  *)
(* what a function returns is a string the host had during the call.       *)
(***************************************************************************)
EXTENDS HostStrings, FiniteSetTheorems, TLAPS

Fields == {"fn", "step", "key", "handle", "block", "cap", "again", "text",
           "outcome", "had", "lost"}
Steps    == {"key", "open", "buffer", "ask", "push", "done", "crashed"}
Outcomes == {"none", "ok", "error", "absent", "itself", "raised"}
Blocks   == [id : Nat, size : Nat]

---------------------------------------------------------------------------
(* The blocks.                                                             *)
HeapOK(h) ==
  /\ IsFiniteSet(DOMAIN h) /\ DOMAIN h \subseteq Nat \ {0}
  /\ \A id \in DOMAIN h : h[id] \in Nat

(* b is none, or on the stack, or alive in the heap h.                     *)
Live(h, b) ==
  b = None \/ (b \in Blocks /\ (b.id = 0 \/ (b.id \in DOMAIN h /\ h[b.id] = b.size)))

(* To free b, or to make it larger, does not touch c.                      *)
Apart(b, c) == b = None \/ c = None \/ b.id = 0 \/ c.id = 0 \/ b.id # c.id

Preparing(c) == c.step \in {"key", "open", "buffer"}

Holds(c, h) ==
  /\ DOMAIN c = Fields /\ c.fn \in Functions /\ c.cap \in Nat
  /\ c.step \in Steps /\ c.outcome \in Outcomes
  /\ Live(h, c.key) /\ Live(h, c.block) /\ Apart(c.key, c.block)
  /\ Preparing(c) => c.block = None
  /\ c.step = "ask" => c.fn.local \/ c.block # None

(* The inductive invariant of TypeOK: that a name and a buffer are never   *)
(* the same block is what lets the one be freed before the other.          *)
BlocksInv ==
  /\ HeapOK(heap) /\ foreign \in BOOLEAN /\ world \in Nat \cup {Gone}
  /\ call # None => Holds(call, heap)

LEMMA BlocksType == BlocksInv => TypeOK
BY DEF BlocksInv, HeapOK, Holds, Live, TypeOK, OnHeap, Known, Steps, Outcomes

LEMMA FunctionKinds ==
  ASSUME NEW f \in Functions
  PROVE  f.cap \in Nat /\ f.width \in {1, 2} /\ (f.how = "told" => ~ f.local)
<1> DEFINE Fine(g) == g.cap \in Nat /\ g.width \in {1, 2} /\ (g.how = "told" => ~ g.local)
<1>1. ASSUME NEW name, NEW how, NEW place, NEW cap \in Nat, NEW width \in {1, 2}, NEW has,
             how = "told" => place # "array"
      PROVE  Fine(F(name, how, place, cap, width, has))
  BY <1>1 DEF F
<1> HIDE DEF Fine
<1>2. /\ Fine(F("push_cwd", "doubles", "array", 1024, 1, {}))
      /\ Fine(F("process_name", "doubles", "array", 1024, 2, {}))
      /\ Fine(F("unix_process_name", "fixed", "block", 4096, 1, {}))
      /\ Fine(F("unix_get_current_dir", "fixed", "array", 4096, 1, {}))
      /\ Fine(F("get_current_dir", "told", "block", 260, 2, {}))
      /\ Fine(F("user_dir", "told", "block", 260, 2, {"handle"}))
      /\ Fine(F("get_var", "told", "block", 1024, 2, {"key"}))
      /\ Fine(F("full_path", "told", "block", 512, 2, {"key"}))
      /\ Fine(F("canonicalize", "once", "array", 512, 2, {"key", "handle"}))
      /\ Fine(F("user_home", "once", "array", 1024, 2, {"handle"}))
  BY <1>1
<1>3. Fine(f)
  BY <1>2 DEF Functions
<1>. QED  BY <1>3 DEF Fine

(* There is always a number that no block has.                             *)
LEMMA FreshNew ==
  ASSUME HeapOK(heap)
  PROVE  Fresh \in Nat \ {0} /\ Fresh \notin DOMAIN heap
<1> DEFINE n == Cardinality(DOMAIN heap)
<1>1. n \in Nat
  BY FS_CardinalityType DEF HeapOK
<1>2. ~ (1 .. n + 1 \subseteq DOMAIN heap)
  <2>1. Cardinality(1 .. n + 1) = n + 1
    BY <1>1, FS_Interval
  <2>2. 1 .. n + 1 \subseteq DOMAIN heap => Cardinality(1 .. n + 1) <= n
    BY FS_Subset DEF HeapOK
  <2>. QED  BY <1>1, <2>1, <2>2
<1>3. \E id \in 1 .. n + 1 : id \notin DOMAIN heap
  BY <1>2
<1>4. Fresh \in 1 .. n + 1 /\ Fresh \notin DOMAIN heap
  BY <1>3 DEF Fresh
<1>. QED  BY <1>1, <1>4

LEMMA WithOK ==
  ASSUME NEW h, HeapOK(h), NEW b \in Blocks, b.id # 0
  PROVE  /\ HeapOK(With(h, b)) /\ Live(With(h, b), b)
         /\ \A c : Live(h, c) /\ (c = None \/ c.id # b.id) => Live(With(h, b), c)
<1>1. DOMAIN With(h, b) = DOMAIN h \cup {b.id}
  BY DEF With
<1>2. \A id \in DOMAIN h \cup {b.id} : With(h, b)[id] = IF id = b.id THEN b.size ELSE h[id]
  BY DEF With
<1>3. IsFiniteSet(DOMAIN With(h, b))
  BY <1>1, FS_AddElement DEF HeapOK
<1>. QED  BY <1>1, <1>2, <1>3 DEF HeapOK, Live, Blocks

LEMMA FreedOK ==
  ASSUME NEW h, HeapOK(h), NEW b, Live(h, b)
  PROVE  /\ HeapOK(Freed(h, b))
         /\ \A c : Live(h, c) /\ Apart(b, c) => Live(Freed(h, b), c)
<1>1. CASE b = None \/ b.id = 0
  BY <1>1 DEF Freed, OnHeap
<1>2. CASE b # None /\ b.id # 0
  <2> DEFINE g == Without(h, b)
  <2>1. DOMAIN g = DOMAIN h \ {b.id} /\ \A id \in DOMAIN g : g[id] = h[id]
    BY DEF Without, Restrict
  <2>2. IsFiniteSet(DOMAIN g)
    BY <2>1, FS_RemoveElement DEF HeapOK
  <2>3. Freed(h, b) = g
    BY <1>2 DEF Freed, OnHeap
  <2> HIDE DEF g
  <2>4. HeapOK(g)
    BY <2>1, <2>2 DEF HeapOK
  <2>5. \A c : Live(h, c) /\ Apart(b, c) => Live(g, c)
    BY <1>2, <2>1 DEF Live, Apart
  <2>. QED  BY <2>3, <2>4, <2>5
<1>. QED  BY <1>1, <1>2

(* What malloc and alloca give.                                            *)
LEMMA NewBlock ==
  ASSUME HeapOK(heap), NEW n \in Nat, NEW w \in {1, 2}
  PROVE  /\ Malloc(n, w) \in Blocks /\ Malloc(n, w).id # 0 /\ None \notin Blocks
         /\ Malloc(n, w).id \notin DOMAIN heap /\ Malloc(n, w).size = Size(n, w)
         /\ Alloc(n, w) \in Blocks /\ Alloc(n, w).size = Size(n, w)
         /\ Alloc(n, w).id = 0 \/ Alloc(n, w).id \notin DOMAIN heap
<1>1. Size(n, w) \in Nat
  BY SizesAssumption DEF Size
<1>. QED  BY <1>1, SizesAssumption, FreshNew DEF Malloc, Alloc, Blocks

(* A new block, from the stack or not: it and what was alive are alive.    *)
LEMMA NewLive ==
  ASSUME HeapOK(heap), NEW b \in Blocks, b.id = 0 \/ b.id \notin DOMAIN heap
  PROVE  /\ HeapOK(Taken(b)) /\ Live(Taken(b), b)
         /\ \A c : Live(heap, c) => Live(Taken(b), c) /\ Apart(c, b) /\ Apart(b, c)
<1>1. \A c : Live(heap, c) => Apart(c, b) /\ Apart(b, c)
  BY DEF Live, Apart
<1>2. CASE b.id = 0
  BY <1>1, <1>2 DEF Taken, OnHeap, Live
<1>3. CASE b.id # 0
  <2>1. Taken(b) = With(heap, b)
    BY <1>3 DEF Taken, OnHeap
  <2>2. \A c : Live(heap, c) => c = None \/ c.id # b.id
    BY <1>3 DEF Live
  <2>. QED  BY <1>1, <1>3, <2>1, <2>2, WithOK
<1>. QED  BY <1>2, <1>3

(* How the lemmas about the steps end.                                     *)
LEMMA HoldsOf ==
  ASSUME BlocksInv, HeapOK(heap'), foreign' \in BOOLEAN, UNCHANGED world,
         call' # None => Holds(call', heap')
  PROVE  BlocksInv'
BY DEF BlocksInv, HeapOK, Holds, Live

LEMMA BlocksBegin ==
  ASSUME BlocksInv, NEW f \in Functions, Begin(f)
  PROVE  BlocksInv'
<1>1. f.cap \in Nat
  BY FunctionKinds
<1>2. Holds(call', heap')
  BY <1>1 DEF Begin, Holds, Fields, Steps, Outcomes, Live, Apart
<1>. QED  BY <1>2, HoldsOf DEF Begin, BlocksInv

LEMMA BlocksChange ==
  ASSUME BlocksInv, Change
  PROVE  BlocksInv'
<1>1. world' \in Nat \cup {Gone} /\ UNCHANGED <<heap, foreign>>
  BY StringsAssumption DEF Change, Strings
<1>2. call # None => Holds(call', heap)
  <2>1. SUFFICES ASSUME call # None PROVE Holds(call', heap)
    OBVIOUS
  <2>2. Holds(call, heap) /\ call' = [call EXCEPT !.had = @ \cup {world'}]
    BY <2>1 DEF BlocksInv, Change
  <2>. QED  BY <2>2 DEF Holds, Fields, Preparing
<1>3. call = None => call' = None
  BY DEF Change
<1>. QED  BY <1>1, <1>2, <1>3 DEF BlocksInv, HeapOK

LEMMA BlocksConvertKey ==
  ASSUME BlocksInv, ConvertKey
  PROVE  BlocksInv'
<1> DEFINE b == Malloc(1, 2)
<1>1. Holds(call, heap) /\ call.step = "key" /\ HeapOK(heap)
  BY DEF BlocksInv, ConvertKey, Doing
<1>2. b \in Blocks /\ b # None /\ b.id # 0 /\ b.id \notin DOMAIN heap
  BY <1>1, NewBlock
<1>3. HeapOK(With(heap, b)) /\ Live(With(heap, b), b)
  BY <1>1, <1>2, WithOK
<1>4. CASE call' = [call EXCEPT !.step = "open", !.key = b] /\ heap' = With(heap, b)
  <2>1. Holds(call', heap')
    BY <1>1, <1>3, <1>4 DEF Holds, Fields, Steps, Preparing, Live, Apart
  <2>. QED  BY <1>3, <1>4, <2>1, HoldsOf DEF ConvertKey, BlocksInv
<1>5. CASE call' = [call EXCEPT !.step = "open"] /\ heap' = heap
  <2>1. Holds(call', heap')
    BY <1>1, <1>5 DEF Holds, Fields, Steps, Preparing
  <2>. QED  BY <1>1, <1>5, <2>1, HoldsOf DEF ConvertKey, BlocksInv
<1>6. CASE call' = Ends(call, "error") /\ heap' = heap
  <2>1. Holds(call', heap')
    BY <1>1, <1>6 DEF Holds, Fields, Steps, Outcomes, Preparing, Ends
  <2>. QED  BY <1>1, <1>6, <2>1, HoldsOf DEF ConvertKey, BlocksInv
<1>. QED  BY <1>4, <1>5, <1>6 DEF ConvertKey

LEMMA BlocksOpen ==
  ASSUME BlocksInv, Open
  PROVE  BlocksInv'
<1>1. Holds(call, heap) /\ call.step = "open" /\ HeapOK(heap)
  BY DEF BlocksInv, Open, Doing
<1>2. HeapOK(Freed(heap, call.key))
  BY <1>1, FreedOK DEF Holds
<1>3. CASE heap' = heap /\ call' = [call EXCEPT !.step = "buffer"]
  <2>1. Holds(call', heap')
    BY <1>1, <1>3 DEF Holds, Fields, Steps, Preparing
  <2>. QED  BY <1>1, <1>3, <2>1, HoldsOf DEF Open, BlocksInv
<1>4. CASE /\ heap' = Freed(heap, call.key)
           /\ \/ call' = [call EXCEPT !.step = "buffer", !.handle = TRUE, !.key = None]
              \/ \E o \in {"itself", "error"} : call' = [Ends(call, o) EXCEPT !.key = None]
  <2>1. /\ DOMAIN call' = Fields /\ call'.fn = call.fn /\ call'.cap = call.cap
        /\ call'.key = None /\ call'.block = None
        /\ call'.step \in {"buffer", "done"} /\ call'.outcome \in Outcomes
    BY <1>1, <1>4 DEF Holds, Fields, Steps, Outcomes, Preparing, Ends
  <2>2. Holds(call', heap')
    BY <1>1, <2>1 DEF Holds, Live, Apart, Steps
  <2>. QED  BY <1>2, <1>4, <2>2, HoldsOf DEF Open, BlocksInv
<1>. QED  BY <1>3, <1>4 DEF Open

LEMMA BlocksFirstBuffer ==
  ASSUME BlocksInv, FirstBuffer
  PROVE  BlocksInv'
<1> DEFINE b == Alloc(call.fn.cap, call.fn.width)
<1>1. Holds(call, heap) /\ call.step = "buffer" /\ HeapOK(heap)
  BY DEF BlocksInv, FirstBuffer, Doing
<1>2. b \in Blocks /\ b # None /\ (b.id = 0 \/ b.id \notin DOMAIN heap)
  BY <1>1, FunctionKinds, NewBlock DEF Holds
<1>3. HeapOK(Taken(b)) /\ Live(Taken(b), b) /\ Live(Taken(b), call.key) /\ Apart(call.key, b)
  BY <1>1, <1>2, NewLive DEF Holds
<1>4. CASE call.fn.local
  <2>1. call' = [call EXCEPT !.step = "ask", !.block = None] /\ heap' = heap
    BY <1>4 DEF FirstBuffer, Fn
  <2>2. Holds(call', heap')
    BY <1>1, <1>4, <2>1 DEF Holds, Fields, Steps, Preparing, Live, Apart
  <2>. QED  BY <1>1, <2>1, <2>2, HoldsOf DEF FirstBuffer, BlocksInv
<1>5. CASE ~ call.fn.local
  <2>1. call' = [call EXCEPT !.step = "ask", !.block = b] /\ heap' = Taken(b)
    BY <1>5 DEF FirstBuffer, Fn
  <2> HIDE DEF b
  <2>2. Holds(call', heap')
    BY <1>1, <1>2, <1>3, <2>1 DEF Holds, Fields, Steps, Preparing
  <2>. QED  BY <1>3, <2>1, <2>2, HoldsOf DEF FirstBuffer, BlocksInv
<1>. QED  BY <1>4, <1>5

(* A call that gives its blocks up and ends.                               *)
LEMMA BlocksDropped ==
  ASSUME BlocksInv, call # None, UNCHANGED world, foreign' \in BOOLEAN, HeapOK(heap'),
         NEW c, DOMAIN c = Fields, c.fn = call.fn, c.cap = call.cap,
         NEW o \in Outcomes, call' = Ends(Dropped(c), o)
  PROVE  BlocksInv'
<1>1. Holds(call, heap)
  BY DEF BlocksInv
<1>2. /\ DOMAIN call' = Fields /\ call'.fn = call.fn /\ call'.cap = call.cap
      /\ call'.key = None /\ call'.block = None /\ call'.step = "done" /\ call'.outcome = o
  BY DEF Fields, Ends, Dropped
<1>3. Holds(call', heap')
  BY <1>1, <1>2 DEF Holds, Live, Apart, Steps
<1>. QED  BY <1>3, HoldsOf

LEMMA BlocksDiscarded ==
  ASSUME BlocksInv, call # None
  PROVE  HeapOK(Discarded(heap, call)) /\ HeapOK(Freed(heap, call.block))
<1>1. Holds(call, heap) /\ HeapOK(heap)
  BY DEF BlocksInv
<1>2. HeapOK(Freed(heap, call.key)) /\ Live(Freed(heap, call.key), call.block)
  BY <1>1, FreedOK DEF Holds
<1>3. HeapOK(Freed(heap, call.block))
  BY <1>1, FreedOK DEF Holds
<1>. QED  BY <1>2, <1>3, FreedOK DEF Discarded

LEMMA BlocksAsking ==
  ASSUME BlocksInv, Asking \/ GiveUp
  PROVE  BlocksInv'
<1>1. /\ call # None /\ call.step = "ask" /\ Holds(call, heap) /\ HeapOK(heap)
      /\ UNCHANGED <<foreign, world>> /\ foreign \in BOOLEAN
  BY DEF BlocksInv, Asking, AskFits, AskEmpty, AskFails, GiveUp, Short, Doing
<1>2. HeapOK(Discarded(heap, call))
  BY <1>1, BlocksDiscarded
<1>3. CASE AskFits
  <2>1. HeapOK(Freed(heap, call.key)) /\ Live(Freed(heap, call.key), call.block)
    BY <1>1, FreedOK DEF Holds
  <2>2. /\ DOMAIN call' = Fields /\ call'.fn = call.fn /\ call'.cap = call.cap
        /\ call'.key = None /\ call'.block = call.block /\ call'.step = "push"
        /\ call'.outcome = call.outcome /\ heap' = Freed(heap, call.key)
    BY <1>1, <1>3 DEF AskFits, Holds, Fields
  <2>3. Holds(call', heap')
    BY <1>1, <2>1, <2>2 DEF Holds, Live, Apart, Steps, Preparing
  <2>. QED  BY <1>1, <2>1, <2>2, <2>3, HoldsOf
<1>4. CASE AskEmpty \/ AskFails \/ GiveUp
  <2>1. \E o \in Outcomes : call' = Ends(Dropped(call), o)
    BY <1>4 DEF AskEmpty, AskFails, GiveUp, Outcomes
  <2>2. heap' = heap \/ heap' = Discarded(heap, call)
    BY <1>4 DEF AskEmpty, AskFails, GiveUp
  <2>. QED  BY <1>1, <1>2, <2>1, <2>2, BlocksDropped DEF Holds
<1>. QED  BY <1>3, <1>4 DEF Asking

LEMMA BlocksDouble ==
  ASSUME BlocksInv, Double
  PROVE  BlocksInv'
<1> DEFINE n == call.cap * 2
           b == Malloc(n, call.fn.width)
           h == Freed(heap, call.block)
<1>1. /\ call # None /\ Holds(call, heap) /\ HeapOK(heap) /\ n \in Nat
      /\ UNCHANGED <<foreign, world>> /\ foreign \in BOOLEAN
  BY DEF BlocksInv, Double, Short, Doing, Holds
<1>2. HeapOK(h)
  BY <1>1, BlocksDiscarded
<1>3. b \in Blocks /\ b # None /\ b.id # 0 /\ b.id \notin DOMAIN heap
  BY <1>1, FunctionKinds, NewBlock DEF Holds
<1>4. \/ call' = [call EXCEPT !.cap = n, !.block = b] /\ heap' = With(h, b)
      \/ call' = Ends(Dropped(call), "raised") /\ heap' = h
  BY DEF Double, Fn
<1>5. CASE call' = Ends(Dropped(call), "raised") /\ heap' = h
  BY <1>1, <1>2, <1>5, BlocksDropped DEF Holds, Outcomes
<1>6. CASE call' = [call EXCEPT !.cap = n, !.block = b] /\ heap' = With(h, b)
  <2>1. Live(h, call.key)
    BY <1>1, FreedOK DEF Holds, Apart
  <2>2. Apart(call.key, b) /\ (call.key = None \/ call.key.id # b.id)
    BY <1>1, <1>3 DEF Holds, Live, Apart
  <2>3. HeapOK(With(h, b)) /\ Live(With(h, b), b) /\ Live(With(h, b), call.key)
    BY <1>2, <1>3, <2>1, <2>2, WithOK
  <2>4. call.step = "ask"
    BY DEF Double, Short, Doing
  <2> HIDE DEF n, b, h
  <2>5. Holds(call', heap')
    BY <1>1, <1>3, <1>6, <2>2, <2>3, <2>4 DEF Holds, Fields, Steps, Preparing
  <2>. QED  BY <1>1, <1>6, <2>3, <2>5, HoldsOf
<1>. QED  BY <1>4, <1>5, <1>6

LEMMA BlocksGrow ==
  ASSUME BlocksInv, NEW answer \in Answers, Grow(answer)
  PROVE  BlocksInv'
<1> DEFINE b == Malloc(world + 1, call.fn.width)
<1>1. /\ call # None /\ call.step = "ask" /\ Holds(call, heap) /\ HeapOK(heap)
      /\ world + 1 \in Nat /\ UNCHANGED world /\ foreign' \in BOOLEAN
  BY DEF BlocksInv, Grow, Short, Doing, Misused
<1>2. b \in Blocks /\ b # None /\ b.id # 0 /\ b.id \notin DOMAIN heap
  BY <1>1, FunctionKinds, NewBlock DEF Holds
<1>3. Apart(call.key, b) /\ (call.key = None \/ call.key.id # b.id)
  BY <1>1, <1>2 DEF Holds, Live, Apart
<1>4. HeapOK(heap') /\ Live(heap', b) /\ Live(heap', call.key)
  <2>1. CASE heap' = With(heap, b)
    BY <1>1, <1>2, <1>3, <2>1, WithOK DEF Holds
  <2>2. CASE OnHeap(call.block) /\ call.block # None /\ heap' = With(Without(heap, call.block), b)
    <3> DEFINE h == Freed(heap, call.block)
    <3>1. heap' = With(h, b)
      BY <2>2 DEF Freed
    <3>2. HeapOK(h) /\ Live(h, call.key)
      BY <1>1, FreedOK DEF Holds, Apart
    <3>. QED  BY <1>2, <1>3, <3>1, <3>2, WithOK
  <2>3. call.block # None
    BY <1>1, FunctionKinds DEF Grow, Holds, Fn
  <2>. QED  BY <2>1, <2>2, <2>3 DEF Grow, Grown, Fn
<1>5. /\ DOMAIN call' = Fields /\ call'.fn = call.fn /\ call'.cap = world + 1
      /\ call'.key = call.key /\ call'.block = b /\ call'.step = "ask"
      /\ call'.outcome = call.outcome
  BY <1>1 DEF Grow, Holds, Fields, Fn
<1> HIDE DEF b
<1>6. Holds(call', heap')
  BY <1>1, <1>2, <1>3, <1>4, <1>5 DEF Holds, Steps, Preparing
<1>. QED  BY <1>1, <1>4, <1>6, HoldsOf

LEMMA BlocksAskOnceMore ==
  ASSUME BlocksInv, AskOnceMore
  PROVE  BlocksInv'
<1> DEFINE b == Alloc(world + 1, call.fn.width)
<1>1. /\ call # None /\ call.step = "ask" /\ Holds(call, heap) /\ HeapOK(heap)
      /\ world + 1 \in Nat /\ UNCHANGED <<foreign, world>> /\ foreign \in BOOLEAN
  BY DEF BlocksInv, AskOnceMore, Short, Doing
<1>2. b \in Blocks /\ b # None /\ (b.id = 0 \/ b.id \notin DOMAIN heap)
  BY <1>1, FunctionKinds, NewBlock DEF Holds
<1>3. HeapOK(Taken(b)) /\ Live(Taken(b), b) /\ Live(Taken(b), call.key) /\ Apart(call.key, b)
  BY <1>1, <1>2, NewLive DEF Holds
<1>4. /\ DOMAIN call' = Fields /\ call'.fn = call.fn /\ call'.cap = world + 1
      /\ call'.key = call.key /\ call'.block = b /\ call'.step = "ask"
      /\ call'.outcome = call.outcome /\ heap' = Taken(b)
  BY <1>1 DEF AskOnceMore, Holds, Fields, Fn
<1> HIDE DEF b
<1>5. Holds(call', heap')
  BY <1>1, <1>2, <1>3, <1>4 DEF Holds, Steps, Preparing
<1>. QED  BY <1>1, <1>3, <1>4, <1>5, HoldsOf

(* The steps that leave the heap as it is.                                 *)
LEMMA BlocksKept ==
  ASSUME BlocksInv, Crash \/ ShortAgain \/ Refused \/ Return
  PROVE  BlocksInv'
<1>1. /\ HeapOK(heap) /\ UNCHANGED <<heap, world>> /\ foreign' \in BOOLEAN
      /\ call # None /\ Holds(call, heap)
  BY DEF BlocksInv, Crash, ShortAgain, Refused, Raises, Return, Short, Doing
<1>2. CASE ShortAgain /\ call' = Ends(Dropped(call), "error")
  BY <1>1, <1>2, BlocksDropped DEF Holds, Outcomes
<1>3. CASE /\ ShortAgain
           /\ call' = [call EXCEPT !.step = "push", !.text = Junk, !.handle = FALSE]
  <2>1. Holds(call', heap')
    BY <1>1, <1>3 DEF Holds, Fields, Steps, Preparing
  <2>. QED  BY <1>1, <2>1, HoldsOf
<1>4. CASE Crash
  <2>1. Holds(call', heap')
    BY <1>1, <1>4 DEF Crash, Holds, Fields, Steps, Preparing
  <2>. QED  BY <1>1, <2>1, HoldsOf
<1>5. CASE Refused
  <2>1. Holds(call', heap')
    BY <1>1, <1>5 DEF Refused, Raises, Ends, Holds, Fields, Steps, Outcomes, Preparing
  <2>. QED  BY <1>1, <2>1, HoldsOf
<1>6. CASE Return
  BY <1>1, <1>6, HoldsOf DEF Return
<1>. QED  BY <1>2, <1>3, <1>4, <1>5, <1>6 DEF ShortAgain

LEMMA BlocksPush ==
  ASSUME BlocksInv, Pushed \/ PushRaises
  PROVE  BlocksInv'
<1>1. /\ HeapOK(heap) /\ UNCHANGED <<foreign, world>> /\ foreign \in BOOLEAN
      /\ call # None /\ call.step = "push" /\ Holds(call, heap)
  BY DEF BlocksInv, Pushed, PushRaises, Doing
<1>2. CASE Pushed
  <2>1. HeapOK(heap')
    BY <1>1, <1>2, BlocksDiscarded DEF Pushed
  <2>2. /\ DOMAIN call' = Fields /\ call'.fn = call.fn /\ call'.cap = call.cap
        /\ call'.key = None /\ call'.block = None /\ call'.step = "done"
        /\ call'.outcome \in {"ok", "error"}
    BY <1>1, <1>2 DEF Pushed, Dropped, Ends, Holds, Fields
  <2>3. Holds(call', heap')
    BY <1>1, <2>2 DEF Holds, Steps, Outcomes, Live, Apart, Preparing
  <2>. QED  BY <1>1, <2>1, <2>3, HoldsOf
<1>3. CASE PushRaises
  <2> DEFINE b == Malloc(1, 1)
  <2>1. b \in Blocks /\ b.id # 0 /\ b.id \notin DOMAIN heap
    BY <1>1, NewBlock
  <2>2. \A c : Live(heap, c) => c = None \/ c.id # b.id
    BY <2>1 DEF Live
  <2>3. /\ HeapOK(With(heap, b))
        /\ \A c : Live(heap, c) => Live(With(heap, b), c)
    BY <1>1, <2>1, <2>2, WithOK
  <2>4. heap' = heap \/ heap' = With(heap, b)
    BY <1>3 DEF PushRaises
  <2>5. HeapOK(heap') /\ Live(heap', call.key) /\ Live(heap', call.block)
    BY <1>1, <2>3, <2>4 DEF Holds
  <2>6. Holds(call', heap')
    BY <1>1, <1>3, <2>5 DEF PushRaises, Ends, Holds, Fields, Steps, Outcomes, Preparing
  <2>. QED  BY <1>1, <2>5, <2>6, HoldsOf
<1>. QED  BY <1>2, <1>3

LEMMA BlocksStep ==
  ASSUME BlocksInv, [Next]_vars
  PROVE  BlocksInv'
<1>1. CASE UNCHANGED vars
  BY <1>1 DEF BlocksInv, vars, HeapOK, Holds, Live
<1>2. CASE Next
  BY <1>2, BlocksBegin, BlocksChange, BlocksConvertKey, BlocksOpen, BlocksFirstBuffer,
     BlocksAsking, BlocksDouble, BlocksGrow, BlocksAskOnceMore, BlocksKept, BlocksPush
  DEF Next, Working
<1>. QED  BY <1>1, <1>2

LEMMA BlocksInit == Init => BlocksInv
<1>1. IsFiniteSet({})
  BY FS_EmptySet
<1>2. DOMAIN << >> = {}
  OBVIOUS
<1>. QED  BY <1>1, <1>2, StringsAssumption DEF Init, BlocksInv, HeapOK

(* Whatever the lengths of the strings, the sizes of the word and of the   *)
(* stack's blocks, and the allocator's answers: a name or a buffer that    *)
(* has been freed is not used, freed or made larger again.                 *)
THEOREM BlocksAlive == Spec => []TypeOK
BY BlocksInit, BlocksStep, BlocksType, PTL DEF Spec

---------------------------------------------------------------------------
(* The strings.                                                            *)

(* The second answer differs from the first.                               *)
Changed(had) == \E m, n \in had : m # n

Fetched(c) ==
  \/ c.text \in c.had \ {Gone}
  \/ c.fn.name = "canonicalize" /\ c.text = Junk /\ Changed(c.had)

(* The room the host is told of is in the buffer.                          *)
Roomy(c) ==
  IF c.block = None THEN c.fn.local /\ c.cap <= c.fn.cap
  ELSE c.cap * c.fn.width + Header <= c.block.size

(* What a call knows of the string, which is w now.                        *)
Knows(c, w) ==
  /\ Preparing(c) => c.cap = c.fn.cap /\ ~ c.again
  /\ c.step = "ask" => Roomy(c)
  /\ w \in c.had /\ IsFiniteSet(c.had)
  /\ c.again => c.fn.how = "once" /\ c.cap - 1 \in c.had
  /\ c.step = "push" \/ (c.step = "done" /\ c.outcome = "ok") => Fetched(c)
  /\ c.step = "done" /\ c.outcome = "absent" => c.had \cap {Gone, 0} # {}

(* The inductive invariant of NeverOverrun and StringWasThere: a buffer    *)
(* got with the second answer's help is one longer than a string that was  *)
(* there, so that a string it is short for is another one.                 *)
StringsInv == BlocksInv /\ (call # None => Knows(call, world))

LEMMA StringsHold == StringsInv => NeverOverrun /\ StringWasThere
<1> SUFFICES ASSUME StringsInv PROVE NeverOverrun /\ StringWasThere
  OBVIOUS
<1>1. NeverOverrun
  BY DEF StringsInv, Knows, Roomy, NeverOverrun, Doing, Fn
<1>2. ASSUME call # None, Changed(call.had)
      PROVE  Cardinality(call.had) > 1
  <2>1. IsFiniteSet(call.had)
    BY <1>2 DEF StringsInv, Knows
  <2>2. PICK m, n \in call.had : m # n
    BY <1>2 DEF Changed
  <2>3. IsFiniteSet({m}) /\ Cardinality({m}) = 1
    BY FS_Singleton
  <2>4. Cardinality({m, n}) = 2
    BY <2>2, <2>3, FS_AddElement, {m} \cup {n} = {m, n}
  <2>5. Cardinality({m, n}) <= Cardinality(call.had) /\ Cardinality(call.had) \in Nat
    BY <2>1, FS_Subset, FS_CardinalityType
  <2>. QED  BY <2>4, <2>5
<1>3. StringWasThere
  BY <1>2 DEF StringsInv, Knows, Fetched, StringWasThere, Doing, Fn
<1>. QED  BY <1>1, <1>3

(* A block made for n elements has room for them.                          *)
LEMMA BlockRoom ==
  ASSUME NEW n \in Nat, NEW w \in {1, 2}
  PROVE  n * w + Header <= Size(n, w)
BY SizesAssumption DEF Size

LEMMA StringsBegin ==
  ASSUME StringsInv, NEW f \in Functions, Begin(f)
  PROVE  Knows(call', world')
<1>1. IsFiniteSet({world})
  BY FS_Singleton
<1>. QED  BY <1>1 DEF Begin, Knows, Preparing

LEMMA StringsChange ==
  ASSUME StringsInv, call # None, Change
  PROVE  Knows(call', world')
<1>1. Holds(call, heap) /\ Knows(call, world)
  BY DEF StringsInv, BlocksInv
<1>2. /\ call'.had = call.had \cup {world'}
      /\ call'.fn = call.fn /\ call'.step = call.step /\ call'.cap = call.cap
      /\ call'.again = call.again /\ call'.block = call.block
      /\ call'.text = call.text /\ call'.outcome = call.outcome
  BY <1>1 DEF Change, Holds, Fields
<1>3. IsFiniteSet(call'.had)
  BY <1>1, <1>2, FS_AddElement DEF Knows
<1>4. Fetched(call) => Fetched(call')
  BY <1>2 DEF Fetched, Changed
<1>. QED  BY <1>1, <1>2, <1>3, <1>4 DEF Knows, Preparing, Roomy

(* What a step says of a call that it neither asks nor answers.            *)
LEMMA StringsPrepare ==
  ASSUME StringsInv, ConvertKey \/ Open
  PROVE  Knows(call', world')
<1>1. /\ call # None /\ Preparing(call) /\ UNCHANGED world
      /\ Holds(call, heap) /\ Knows(call, world)
  BY DEF StringsInv, BlocksInv, ConvertKey, Open, Doing, Preparing
<1>2. /\ call'.fn = call.fn /\ call'.cap = call.cap /\ call'.again = call.again
      /\ call'.had = call.had
  BY <1>1 DEF Holds, ConvertKey, Open, Ends, Fields
<1>3. \/ call'.step \in {"open", "buffer"}
      \/ call'.step = "done" /\ call'.outcome \in {"error", "itself"}
  BY <1>1 DEF Holds, ConvertKey, Open, Ends, Fields
<1>. QED  BY <1>1, <1>2, <1>3 DEF Knows, Preparing

LEMMA StringsFirstBuffer ==
  ASSUME StringsInv, FirstBuffer
  PROVE  Knows(call', world')
<1> DEFINE b == Alloc(call.fn.cap, call.fn.width)
<1>1. /\ call # None /\ Preparing(call) /\ UNCHANGED world /\ HeapOK(heap)
      /\ Holds(call, heap) /\ Knows(call, world)
  BY DEF StringsInv, BlocksInv, FirstBuffer, Doing, Preparing
<1>2. /\ call'.fn = call.fn /\ call'.cap = call.cap /\ call'.again = call.again
      /\ call'.had = call.had /\ call'.step = "ask"
      /\ call'.block = IF call.fn.local THEN None ELSE b
  BY <1>1 DEF Holds, FirstBuffer, Fields, Fn
<1>3. b # None /\ call.fn.cap \in Nat /\ call.fn.cap * call.fn.width + Header <= b.size
  <2>1. call.fn.cap \in Nat /\ call.fn.width \in {1, 2}
    BY <1>1, FunctionKinds DEF Holds
  <2>2. b \in Blocks /\ None \notin Blocks /\ b.size = Size(call.fn.cap, call.fn.width)
    BY <1>1, <2>1, NewBlock
  <2>3. call.fn.cap * call.fn.width + Header <= Size(call.fn.cap, call.fn.width)
    BY <2>1, BlockRoom
  <2> HIDE DEF b
  <2>. QED  BY <2>1, <2>2, <2>3
<1>4. call'.cap = call.fn.cap
  BY <1>1, <1>2 DEF Knows
<1> HIDE DEF b
<1>5. Roomy(call')
  BY <1>2, <1>3, <1>4 DEF Roomy
<1>. QED  BY <1>1, <1>2, <1>5 DEF Knows, Preparing

(* A call that ends without an answer, or dies.                            *)
LEMMA StringsEnd ==
  ASSUME StringsInv, call # None, UNCHANGED world,
         call'.fn = call.fn, call'.cap = call.cap, call'.again = call.again,
         call'.had = call.had,
         \/ call'.step = "done" /\ call'.outcome \in {"error", "raised"}
         \/ call'.step = "crashed"
  PROVE  Knows(call', world')
BY DEF StringsInv, Knows, Preparing

LEMMA StringsAsking ==
  ASSUME StringsInv, Asking \/ GiveUp
  PROVE  Knows(call', world')
<1>1. /\ call # None /\ call.step = "ask" /\ UNCHANGED world
      /\ Holds(call, heap) /\ Knows(call, world)
  BY DEF StringsInv, BlocksInv, Asking, AskFits, AskEmpty, AskFails, GiveUp, Short, Doing
<1>2. CASE AskFits
  <2>1. /\ call'.fn = call.fn /\ call'.cap = call.cap /\ call'.again = call.again
        /\ call'.had = call.had /\ call'.step = "push" /\ call'.text = world /\ world # Gone
    BY <1>1, <1>2 DEF AskFits, Enough, Holds, Fields
  <2>. QED  BY <1>1, <2>1 DEF Knows, Preparing, Fetched
<1>3. CASE AskEmpty \/ AskFails \/ GiveUp
  <2>1. PICK o \in {"absent", "error"} :
          call' = Ends(Dropped(call), o) /\ (o = "absent" => world \in {0, Gone})
    BY <1>3 DEF AskEmpty, AskFails, GiveUp
  <2>2. /\ call'.fn = call.fn /\ call'.cap = call.cap /\ call'.again = call.again
        /\ call'.had = call.had /\ call'.step = "done" /\ call'.outcome = o
    BY <1>1, <2>1 DEF Ends, Dropped, Holds, Fields
  <2>. QED  BY <1>1, <2>1, <2>2 DEF Knows, Preparing
<1>. QED  BY <1>2, <1>3 DEF Asking

(* The three ways to a larger buffer.                                      *)
LEMMA StringsLarger ==
  ASSUME StringsInv, call # None, call.step = "ask", UNCHANGED world,
         NEW n \in Nat, NEW b, b # None, b.size = Size(n, call.fn.width),
         call'.fn = call.fn, call'.step = "ask", call'.cap = n, call'.block = b,
         call'.had = call.had,
         call'.again => call.fn.how = "once" /\ n - 1 \in call.had
  PROVE  Knows(call', world')
<1>1. Holds(call, heap) /\ Knows(call, world)
  BY DEF StringsInv, BlocksInv
<1>2. Roomy(call')
  BY <1>1, FunctionKinds, BlockRoom DEF Holds, Roomy
<1>. QED  BY <1>1, <1>2 DEF Knows, Preparing

LEMMA StringsDouble ==
  ASSUME StringsInv, Double
  PROVE  Knows(call', world')
<1> DEFINE n == call.cap * 2
           b == Malloc(n, call.fn.width)
<1>1. /\ call # None /\ call.step = "ask" /\ call.fn.how = "doubles" /\ UNCHANGED world
      /\ HeapOK(heap) /\ Holds(call, heap) /\ Knows(call, world) /\ n \in Nat
  BY DEF StringsInv, BlocksInv, Double, Short, Doing, Fn, Holds
<1>2. b # None /\ b.size = Size(n, call.fn.width)
  BY <1>1, FunctionKinds, NewBlock DEF Holds
<1>3. \/ call' = [call EXCEPT !.cap = n, !.block = b]
      \/ call' = Ends(Dropped(call), "raised")
  BY DEF Double, Fn
<1> HIDE DEF n, b
<1>4. CASE call' = [call EXCEPT !.cap = n, !.block = b]
  <2>1. /\ call'.fn = call.fn /\ call'.step = "ask" /\ call'.cap = n /\ call'.block = b
        /\ call'.had = call.had /\ call'.again = call.again
    BY <1>1, <1>4 DEF Holds, Fields
  <2>2. ~ call.again
    BY <1>1 DEF Knows
  <2>. QED  BY <1>1, <1>2, <2>1, <2>2, StringsLarger
<1>5. CASE call' = Ends(Dropped(call), "raised")
  <2>1. /\ call'.fn = call.fn /\ call'.cap = call.cap /\ call'.again = call.again
        /\ call'.had = call.had /\ call'.step = "done" /\ call'.outcome = "raised"
    BY <1>1, <1>5 DEF Ends, Dropped, Holds, Fields
  <2>. QED  BY <1>1, <2>1, StringsEnd
<1>. QED  BY <1>3, <1>4, <1>5

LEMMA StringsGrow ==
  ASSUME StringsInv, AskOnceMore \/ \E answer \in Answers : Grow(answer)
  PROVE  Knows(call', world')
<1> DEFINE n == world + 1
<1>1. /\ call # None /\ call.step = "ask" /\ UNCHANGED world /\ HeapOK(heap)
      /\ Holds(call, heap) /\ Knows(call, world) /\ n \in Nat /\ n - 1 = world
  <2>1. Short /\ UNCHANGED world
    BY DEF AskOnceMore, Grow
  <2>. QED  BY <2>1 DEF StringsInv, BlocksInv, Short, Doing
<1>2. /\ \A b \in {Malloc(n, call.fn.width), Alloc(n, call.fn.width)} :
           b # None /\ b.size = Size(n, call.fn.width)
  BY <1>1, FunctionKinds, NewBlock DEF Holds
<1>3. \E b \in {Malloc(n, call.fn.width), Alloc(n, call.fn.width)} :
        /\ call'.fn = call.fn /\ call'.step = "ask" /\ call'.cap = n /\ call'.block = b
        /\ call'.had = call.had
  BY <1>1 DEF AskOnceMore, Grow, Fn, Holds, Fields
<1>4. call'.again => call.fn.how = "once"
  BY <1>1 DEF AskOnceMore, Grow, Fn, Holds, Knows, Fields
<1>5. n - 1 \in call.had
  BY <1>1 DEF Knows
<1> HIDE DEF n
<1>. QED  BY <1>1, <1>2, <1>3, <1>4, <1>5, StringsLarger

LEMMA StringsKept ==
  ASSUME StringsInv, Crash \/ ShortAgain \/ Refused
  PROVE  Knows(call', world')
<1>1. /\ call # None /\ UNCHANGED world /\ Holds(call, heap) /\ Knows(call, world)
      /\ call.cap \in Nat
  BY DEF StringsInv, BlocksInv, Crash, ShortAgain, Refused, Raises, Short, Doing, Holds
<1>2. CASE /\ ShortAgain /\ Fn.name = "canonicalize"
           /\ call' = [call EXCEPT !.step = "push", !.text = Junk, !.handle = FALSE]
  <2>1. /\ call'.fn = call.fn /\ call'.cap = call.cap /\ call'.again = call.again
        /\ call'.had = call.had /\ call'.step = "push" /\ call'.text = Junk
    BY <1>1, <1>2 DEF Holds, Fields
  <2>2. call.again /\ world \in Nat /\ ~ (world < call.cap)
    BY <1>1, <1>2 DEF ShortAgain, Short, Enough, StringsInv, BlocksInv, Fn
  <2>3. call.cap - 1 # world /\ call.cap - 1 \in call.had /\ world \in call.had
    BY <1>1, <2>2 DEF Knows
  <2>4. Fetched(call')
    BY <1>2, <2>1, <2>3 DEF Fetched, Changed, Fn
  <2>. QED  BY <1>1, <2>1, <2>4 DEF Knows, Preparing
<1>3. CASE Crash \/ Refused \/ (ShortAgain /\ call' = Ends(Dropped(call), "error"))
  <2>1. /\ call'.fn = call.fn /\ call'.cap = call.cap /\ call'.again = call.again
        /\ call'.had = call.had
        /\ \/ call'.step = "done" /\ call'.outcome \in {"error", "raised"}
           \/ call'.step = "crashed"
    BY <1>1, <1>3 DEF Crash, Refused, Raises, Ends, Dropped, Holds, Fields
  <2>. QED  BY <1>1, <2>1, StringsEnd
<1>. QED  BY <1>2, <1>3 DEF ShortAgain

LEMMA StringsPush ==
  ASSUME StringsInv, Pushed \/ PushRaises
  PROVE  Knows(call', world')
<1>1. /\ call # None /\ call.step = "push" /\ UNCHANGED world
      /\ Holds(call, heap) /\ Knows(call, world)
  BY DEF StringsInv, BlocksInv, Pushed, PushRaises, Doing
<1>2. /\ call'.fn = call.fn /\ call'.cap = call.cap /\ call'.again = call.again
      /\ call'.had = call.had /\ call'.text = call.text
      /\ call'.step = "done" /\ call'.outcome \in {"ok", "error", "raised"}
  BY <1>1 DEF Pushed, PushRaises, Dropped, Ends, Holds, Fields
<1>3. Fetched(call')
  BY <1>1, <1>2 DEF Knows, Fetched
<1>. QED  BY <1>1, <1>2, <1>3 DEF Knows, Preparing

LEMMA StringsStep ==
  ASSUME StringsInv, [Next]_vars
  PROVE  StringsInv'
<1>1. BlocksInv'
  BY BlocksStep DEF StringsInv
<1>2. call' # None => Knows(call', world')
  <2>1. CASE UNCHANGED vars
    BY <2>1 DEF vars, StringsInv
  <2>2. CASE Change
    BY <2>2, StringsChange DEF Change
  <2>3. CASE Return
    BY <2>3 DEF Return
  <2>4. CASE \E f \in Functions : Begin(f)
    BY <2>4, StringsBegin
  <2>5. CASE Working /\ ~ Return
    BY <2>5, StringsPrepare, StringsFirstBuffer, StringsAsking, StringsDouble,
       StringsGrow, StringsKept, StringsPush DEF Working
  <2>. QED  BY <2>1, <2>2, <2>3, <2>4, <2>5 DEF Next
<1>. QED  BY <1>1, <1>2 DEF StringsInv

LEMMA StringsInvariant == Spec => []StringsInv
<1>1. Init => StringsInv
  BY BlocksInit DEF Init, StringsInv
<1>. QED  BY <1>1, StringsStep, PTL DEF Spec

(* Whatever the lengths and however often the string changes: the host is  *)
(* never told of more room than a buffer has.                              *)
THEOREM BuffersLargeEnough == Spec => []NeverOverrun
BY StringsInvariant, StringsHold, PTL

(* What a function returns the host has had during the call, but for the   *)
(* canonical path when it changes between the two answers.                 *)
THEOREM StringsTrue == Spec => []StringWasThere
BY StringsInvariant, StringsHold, PTL

---------------------------------------------------------------------------
(* What a call has is given back.  Every block of the heap is the name or  *)
(* the buffer of the call, or was lost (Owned), unless the call is one     *)
(* that may leave some; then the rest is that the name, the buffer and the *)
(* handle are given up in time.                                            *)
Owned(c, h) ==
  \A id \in DOMAIN h :
    id \in c.lost \/ (c.key # None /\ c.key.id = id) \/ (c.block # None /\ c.block.id = id)

Excused(c) ==
  \/ c.step = "crashed" \/ c.outcome = "raised"
  \/ c.fn.name = "user_home" /\ c.again /\ c.step = "done" /\ c.outcome = "error"

Answered(c) == c.step = "done" /\ c.outcome # "raised"

Tidy(c) ==
  /\ c.step = "key" => c.key = None
  /\ c.step \in {"key", "open"} => ~ c.handle
  /\ c.step \in {"buffer", "ask"} /\ c.fn.handle => c.key = None
  /\ c.step = "ask" /\ c.fn.how = "once" /\ ~ c.again => c.block = None
  /\ c.step = "push" => c.key = None
  /\ c.step = "push" /\ c.fn.name = "user_home" /\ c.again => ~ c.handle
  /\ c.step # "done" => c.outcome # "raised"
  /\ Answered(c) => c.key = None /\ c.block = None
  /\ Answered(c) /\ c.handle => c.fn.name = "user_home" /\ ~ c.again

TidyInv ==
  /\ BlocksInv
  /\ call # None => Tidy(call) /\ (Excused(call) \/ Owned(call, heap))

LEMMA TidyGivesBack == TidyInv => AllGivenBack
BY DEF TidyInv, Tidy, Answered, Excused, Owned, AllGivenBack, Doing, Fn

LEMMA FunctionEnds ==
  ASSUME NEW f \in Functions
  PROVE  /\ f.how = "once" \/ f.name = "user_home" => f.how = "once" /\ f.local /\ f.handle
         /\ f.how = "once" => f.name \in {"canonicalize", "user_home"}
<1> DEFINE Fine(g) ==
      /\ g.how = "once" \/ g.name = "user_home" => g.how = "once" /\ g.local /\ g.handle
      /\ g.how = "once" => g.name \in {"canonicalize", "user_home"}
<1>1. ASSUME NEW name, NEW how, NEW place, NEW cap, NEW width, NEW has,
             how = "once" \/ name = "user_home" =>
               how = "once" /\ place = "array" /\ "handle" \in has,
             how = "once" => name \in {"canonicalize", "user_home"}
      PROVE  Fine(F(name, how, place, cap, width, has))
  BY <1>1 DEF F
<1> HIDE DEF Fine
<1>2. /\ Fine(F("push_cwd", "doubles", "array", 1024, 1, {}))
      /\ Fine(F("process_name", "doubles", "array", 1024, 2, {}))
      /\ Fine(F("unix_process_name", "fixed", "block", 4096, 1, {}))
      /\ Fine(F("unix_get_current_dir", "fixed", "array", 4096, 1, {}))
      /\ Fine(F("get_current_dir", "told", "block", 260, 2, {}))
      /\ Fine(F("user_dir", "told", "block", 260, 2, {"handle"}))
      /\ Fine(F("get_var", "told", "block", 1024, 2, {"key"}))
      /\ Fine(F("full_path", "told", "block", 512, 2, {"key"}))
      /\ Fine(F("canonicalize", "once", "array", 512, 2, {"key", "handle"}))
      /\ Fine(F("user_home", "once", "array", 1024, 2, {"handle"}))
  BY <1>1
<1>3. Fine(f)
  BY <1>2 DEF Functions
<1>. QED  BY <1>3 DEF Fine

(* What is freed is not in the heap any more, and nothing else comes in.   *)
LEMMA FreedGone ==
  ASSUME NEW h, HeapOK(h), NEW b, NEW id \in DOMAIN Freed(h, b)
  PROVE  id \in DOMAIN h /\ (b = None \/ b.id # id)
<1>1. CASE b = None \/ b.id = 0
  BY <1>1 DEF Freed, OnHeap, HeapOK
<1>2. CASE b # None /\ b.id # 0
  BY <1>2 DEF Freed, OnHeap, Without, Restrict
<1>. QED  BY <1>1, <1>2

LEMMA DiscardedGone ==
  ASSUME BlocksInv, call # None, NEW id \in DOMAIN Discarded(heap, call)
  PROVE  /\ id \in DOMAIN heap
         /\ call.key = None \/ call.key.id # id
         /\ call.block = None \/ call.block.id # id
<1>1. HeapOK(heap) /\ HeapOK(Freed(heap, call.key))
  BY FreedOK DEF BlocksInv, Holds
<1>2. id \in DOMAIN Freed(heap, call.key) /\ (call.block = None \/ call.block.id # id)
  BY <1>1, FreedGone DEF Discarded
<1>. QED  BY <1>1, <1>2, FreedGone

LEMMA TakenIn ==
  ASSUME NEW b, NEW id \in DOMAIN Taken(b)
  PROVE  id \in DOMAIN heap \/ id = b.id
BY DEF Taken, With

LEMMA TidyBegin ==
  ASSUME NEW f \in Functions, Begin(f)
  PROVE  Tidy(call') /\ Owned(call', heap')
BY DEF Begin, Tidy, Owned, Answered

(* What a step says that keeps the name, the buffer, the handle and heap.  *)
LEMMA TidyChange ==
  ASSUME TidyInv, call # None, Change
  PROVE  Tidy(call') /\ (Excused(call') \/ Owned(call', heap'))
<1>1. /\ call'.fn = call.fn /\ call'.step = call.step /\ call'.key = call.key
      /\ call'.handle = call.handle /\ call'.block = call.block /\ call'.again = call.again
      /\ call'.outcome = call.outcome /\ call'.lost = call.lost /\ heap' = heap
  BY DEF TidyInv, BlocksInv, Change, Holds, Fields
<1>. QED  BY <1>1 DEF TidyInv, Tidy, Excused, Owned, Answered

LEMMA TidyConvertKey ==
  ASSUME TidyInv, ConvertKey
  PROVE  Tidy(call') /\ (Excused(call') \/ Owned(call', heap'))
<1> DEFINE b == Malloc(1, 2)
<1>1. /\ call # None /\ call.step = "key" /\ Holds(call, heap) /\ HeapOK(heap)
      /\ Tidy(call) /\ (Excused(call) \/ Owned(call, heap))
  BY DEF TidyInv, BlocksInv, ConvertKey, Doing
<1>2. call.key = None /\ call.block = None /\ ~ call.handle /\ call.outcome # "raised"
  BY <1>1 DEF Tidy, Holds, Preparing
<1>3. DOMAIN heap \subseteq call.lost
  BY <1>1, <1>2 DEF Excused, Owned
<1> DEFINE Converted ==
      /\ call'.fn = call.fn /\ call'.handle = call.handle /\ call'.block = call.block
      /\ call'.lost = call.lost /\ call'.outcome # "raised"
      /\ \/ call'.step = "open"
         \/ call'.step = "done" /\ call'.key = call.key /\ heap' = heap
      /\ \/ call'.key = b /\ heap' = With(heap, b)
         \/ call'.key = call.key /\ heap' = heap
<1>4. Converted
  <2>1. CASE call' = [call EXCEPT !.step = "open", !.key = b] /\ heap' = With(heap, b)
    BY <1>1, <1>2, <2>1 DEF Holds, Fields
  <2>2. CASE call' = [call EXCEPT !.step = "open"] /\ heap' = heap
    BY <1>1, <1>2, <2>2 DEF Holds, Fields
  <2>3. CASE call' = Ends(call, "error") /\ heap' = heap
    BY <1>1, <1>2, <2>3 DEF Holds, Fields, Ends
  <2>. QED  BY <2>1, <2>2, <2>3 DEF ConvertKey
<1>5. b # None
  BY <1>1, NewBlock
<1>6. DOMAIN With(heap, b) = DOMAIN heap \cup {b.id}
  BY DEF With
<1> HIDE DEF b
<1>7. Tidy(call')
  BY <1>2, <1>4 DEF Tidy, Answered
<1>8. Owned(call', heap')
  BY <1>2, <1>3, <1>4, <1>5, <1>6 DEF Owned
<1>. QED  BY <1>7, <1>8 DEF Excused

LEMMA TidyOpen ==
  ASSUME TidyInv, Open
  PROVE  Tidy(call') /\ (Excused(call') \/ Owned(call', heap'))
<1>1. /\ call # None /\ call.step = "open" /\ Holds(call, heap) /\ HeapOK(heap)
      /\ Tidy(call) /\ (Excused(call) \/ Owned(call, heap))
  BY DEF TidyInv, BlocksInv, Open, Doing
<1>2. call.block = None /\ ~ call.handle /\ call.outcome # "raised"
  BY <1>1 DEF Tidy, Holds, Preparing
<1>3. Owned(call, heap)
  BY <1>1, <1>2 DEF Excused
<1>4. CASE ~ call.fn.handle /\ call' = [call EXCEPT !.step = "buffer"] /\ heap' = heap
  <2>1. /\ call'.fn = call.fn /\ call'.handle = call.handle /\ call'.block = call.block
        /\ call'.lost = call.lost /\ call'.outcome = call.outcome /\ call'.key = call.key
        /\ call'.step = "buffer"
    BY <1>1, <1>4 DEF Holds, Fields
  <2>2. Tidy(call')
    BY <1>2, <1>4, <2>1 DEF Tidy, Answered
  <2>. QED  BY <1>3, <1>4, <2>1, <2>2 DEF Excused, Owned
<1>5. CASE /\ heap' = Freed(heap, call.key)
           /\ \/ call' = [call EXCEPT !.step = "buffer", !.handle = TRUE, !.key = None]
              \/ \E o \in {"itself", "error"} : call' = [Ends(call, o) EXCEPT !.key = None]
  <2>1. /\ call'.fn = call.fn /\ call'.block = None /\ call'.key = None
        /\ call'.lost = call.lost /\ call'.outcome # "raised"
        /\ \/ call'.step = "buffer"
           \/ call'.step = "done" /\ ~ call'.handle
    <3>1. CASE call' = [call EXCEPT !.step = "buffer", !.handle = TRUE, !.key = None]
      BY <1>1, <1>2, <3>1 DEF Holds, Fields
    <3>2. CASE \E o \in {"itself", "error"} : call' = [Ends(call, o) EXCEPT !.key = None]
      <4>1. PICK o \in {"itself", "error"} : call' = [Ends(call, o) EXCEPT !.key = None]
        BY <3>2
      <4>2. o # "raised"
        OBVIOUS
      <4>. QED  BY <1>1, <1>2, <4>1, <4>2 DEF Holds, Ends, Fields
    <3>. QED  BY <1>5, <3>1, <3>2
  <2>2. Tidy(call')
    BY <2>1 DEF Tidy, Answered
  <2>3. \A id \in DOMAIN heap' : id \in DOMAIN heap /\ (call.key = None \/ call.key.id # id)
    BY <1>1, <1>5, FreedGone
  <2>4. Owned(call', heap')
    BY <1>2, <1>3, <2>1, <2>3 DEF Owned
  <2>. QED  BY <2>2, <2>4 DEF Excused
<1>. QED  BY <1>4, <1>5 DEF Open, Fn

LEMMA TidyFirstBuffer ==
  ASSUME TidyInv, FirstBuffer
  PROVE  Tidy(call') /\ (Excused(call') \/ Owned(call', heap'))
<1> DEFINE b == Alloc(call.fn.cap, call.fn.width)
<1>1. /\ call # None /\ call.step = "buffer" /\ Holds(call, heap) /\ HeapOK(heap)
      /\ Tidy(call) /\ (Excused(call) \/ Owned(call, heap))
  BY DEF TidyInv, BlocksInv, FirstBuffer, Doing
<1>2. call.block = None /\ call.outcome # "raised"
  BY <1>1 DEF Tidy, Holds, Preparing
<1>3. Owned(call, heap)
  BY <1>1, <1>2 DEF Excused
<1>4. b # None
  BY <1>1, FunctionKinds, NewBlock DEF Holds
<1>5. \A id \in DOMAIN Taken(b) : id \in DOMAIN heap \/ id = b.id
  BY TakenIn
<1>6. /\ call'.fn = call.fn /\ call'.handle = call.handle /\ call'.key = call.key
      /\ call'.lost = call.lost /\ call'.outcome = call.outcome /\ call'.step = "ask"
      /\ call'.again = call.again
      /\ call'.block = IF call.fn.local THEN None ELSE b
      /\ heap' = IF call.fn.local THEN heap ELSE Taken(b)
  BY <1>1 DEF FirstBuffer, Fn, Holds, Fields
<1> HIDE DEF b
<1>7. Tidy(call')
  BY <1>1, <1>2, <1>6, FunctionEnds DEF Tidy, Answered, Holds
<1>8. Owned(call', heap')
  BY <1>2, <1>3, <1>4, <1>5, <1>6 DEF Owned
<1>. QED  BY <1>7, <1>8 DEF Excused

(* A call that ends without raising: what it had is no longer there.       *)
LEMMA TidyEnd ==
  ASSUME TidyInv, call # None, call.step \in {"ask", "push"},
         call'.fn = call.fn, call'.again = call.again, call'.lost = call.lost,
         call'.step = "done", call'.outcome # "raised", call'.key = None, call'.block = None,
         call'.handle => call.fn.name = "user_home" /\ ~ call.again,
         \A id \in DOMAIN heap' :
           /\ id \in DOMAIN heap
           /\ call.key = None \/ call.key.id # id
           /\ call.block = None \/ call.block.id # id
  PROVE  Tidy(call') /\ (Excused(call') \/ Owned(call', heap'))
<1>1. Tidy(call')
  BY DEF Tidy, Answered
<1>2. Owned(call, heap)
  BY DEF TidyInv, Tidy, Excused
<1>3. Owned(call', heap')
  BY <1>2 DEF Owned
<1>. QED  BY <1>1, <1>3 DEF Excused

LEMMA TidyAskFits ==
  ASSUME TidyInv, AskFits
  PROVE  Tidy(call') /\ (Excused(call') \/ Owned(call', heap'))
<1>1. /\ call # None /\ call.step = "ask" /\ Holds(call, heap) /\ HeapOK(heap)
      /\ Tidy(call) /\ (Excused(call) \/ Owned(call, heap))
  BY DEF TidyInv, BlocksInv, AskFits, Doing
<1>2. call.outcome # "raised" /\ Owned(call, heap)
  BY <1>1 DEF Tidy, Excused
<1>3. /\ call'.fn = call.fn /\ call'.key = None /\ call'.block = call.block
      /\ call'.lost = call.lost /\ call'.outcome = call.outcome /\ call'.step = "push"
      /\ call'.again = call.again /\ (call'.handle => ~ ClosedByAsking)
      /\ heap' = Freed(heap, call.key)
  BY <1>1 DEF AskFits, Holds, Fields
<1>4. Tidy(call')
  BY <1>2, <1>3 DEF Tidy, Answered, ClosedByAsking, Fn
<1>5. \A id \in DOMAIN heap' : id \in DOMAIN heap /\ (call.key = None \/ call.key.id # id)
  BY <1>1, <1>3, FreedGone
<1>6. Owned(call', heap')
  BY <1>2, <1>3, <1>5 DEF Owned
<1>. QED  BY <1>4, <1>6 DEF Excused

LEMMA TidyUnanswered ==
  ASSUME TidyInv, AskEmpty \/ AskFails \/ GiveUp
  PROVE  Tidy(call') /\ (Excused(call') \/ Owned(call', heap'))
<1>1. /\ call # None /\ call.step = "ask" /\ Holds(call, heap) /\ BlocksInv /\ Tidy(call)
  BY DEF TidyInv, BlocksInv, AskEmpty, AskFails, GiveUp, Short, Doing
<1>2. PICK o \in {"absent", "error"} : call' = Ends(Dropped(call), o)
  BY DEF AskEmpty, AskFails, GiveUp
<1>3. /\ call'.fn = call.fn /\ call'.again = call.again /\ call'.lost = call.lost
      /\ call'.step = "done" /\ call'.outcome = o /\ call'.key = None /\ call'.block = None
      /\ ~ call'.handle
  BY <1>1, <1>2 DEF Ends, Dropped, Holds, Fields
<1>4. CASE heap' = Discarded(heap, call)
  <2>1. \A id \in DOMAIN heap' :
           /\ id \in DOMAIN heap
           /\ call.key = None \/ call.key.id # id
           /\ call.block = None \/ call.block.id # id
    BY <1>1, <1>4, DiscardedGone
  <2>. QED  BY <1>1, <1>3, <2>1, TidyEnd
<1>5. CASE AskFails /\ call.fn.name = "user_home"
  <2>1. heap' = heap /\ o = "error"
    <3>1. heap' = heap /\ call' = Ends(Dropped(call), "error")
      BY <1>5 DEF AskFails, Fn
    <3>2. call'.outcome = "error"
      BY <1>1, <3>1 DEF Ends, Dropped, Holds, Fields
    <3>. QED  BY <1>3, <3>1, <3>2
  <2>2. CASE call.again
    BY <1>3, <1>5, <2>1, <2>2 DEF Tidy, Answered, Excused
  <2>3. CASE ~ call.again
    <3>1. call.key = None /\ call.block = None
      BY <1>1, <1>5, <2>3, FunctionEnds DEF Tidy, Holds
    <3>. QED  BY <1>1, <1>3, <2>1, <3>1, TidyEnd
  <2>. QED  BY <2>2, <2>3
<1>. QED  BY <1>4, <1>5 DEF AskEmpty, AskFails, GiveUp, Fn

(* The three ways to a larger buffer: what the heap then has is the name   *)
(* and the new one.                                                        *)
LEMMA TidyLarger ==
  ASSUME TidyInv, call # None, call.step = "ask",
         NEW b, b # None,
         call'.fn = call.fn, call'.key = call.key, call'.step = "ask", call'.block = b,
         call'.outcome = call.outcome,
         call.fn.how = "once" => call'.again,
         call.lost \subseteq call'.lost,
         \A id \in DOMAIN heap' :
              \/ id = b.id \/ id \in call'.lost
              \/ id \in DOMAIN heap /\ (call.block = None \/ call.block.id # id)
  PROVE  Tidy(call') /\ (Excused(call') \/ Owned(call', heap'))
<1>1. Tidy(call')
  BY DEF TidyInv, Tidy, Answered
<1>2. Owned(call, heap)
  BY DEF TidyInv, Tidy, Excused
<1>3. Owned(call', heap')
  BY <1>2 DEF Owned
<1>. QED  BY <1>1, <1>3 DEF Excused

(* A call that raises, or dies.                                            *)
LEMMA TidyRaised ==
  ASSUME \/ call'.step = "done" /\ call'.outcome = "raised"
         \/ call'.step = "crashed" /\ call'.outcome # "raised"
  PROVE  Tidy(call') /\ (Excused(call') \/ Owned(call', heap'))
BY DEF Tidy, Answered, Excused

LEMMA TidyDouble ==
  ASSUME TidyInv, Double
  PROVE  Tidy(call') /\ (Excused(call') \/ Owned(call', heap'))
<1> DEFINE n == call.cap * 2
           b == Malloc(n, call.fn.width)
           h == Freed(heap, call.block)
<1>1. /\ call # None /\ call.step = "ask" /\ call.fn.how = "doubles"
      /\ HeapOK(heap) /\ Holds(call, heap) /\ n \in Nat
  BY DEF TidyInv, BlocksInv, Double, Short, Doing, Fn, Holds
<1>2. b # None
  BY <1>1, FunctionKinds, NewBlock DEF Holds
<1>3. \/ call' = [call EXCEPT !.cap = n, !.block = b] /\ heap' = With(h, b)
      \/ call' = Ends(Dropped(call), "raised")
  BY DEF Double, Fn
<1>4. \A id \in DOMAIN h : id \in DOMAIN heap /\ (call.block = None \/ call.block.id # id)
  BY <1>1, FreedGone
<1>5. DOMAIN With(h, b) = DOMAIN h \cup {b.id}
  BY DEF With
<1> HIDE DEF n, b, h
<1>6. CASE call' = [call EXCEPT !.cap = n, !.block = b] /\ heap' = With(h, b)
  <2>1. /\ call'.fn = call.fn /\ call'.key = call.key /\ call'.step = "ask"
        /\ call'.block = b /\ call'.outcome = call.outcome /\ call'.lost = call.lost
    BY <1>1, <1>6 DEF Holds, Fields
  <2>2. \A id \in DOMAIN heap' :
          \/ id = b.id
          \/ id \in DOMAIN heap /\ (call.block = None \/ call.block.id # id)
    BY <1>4, <1>5, <1>6
  <2>. QED  BY <1>1, <1>2, <2>1, <2>2, TidyLarger
<1>7. CASE call' = Ends(Dropped(call), "raised")
  <2>1. call'.step = "done" /\ call'.outcome = "raised"
    BY <1>1, <1>7 DEF Ends, Dropped, Holds, Fields
  <2>. QED  BY <2>1, TidyRaised
<1>. QED  BY <1>3, <1>6, <1>7

LEMMA TidyGrow ==
  ASSUME TidyInv, NEW answer \in Answers, Grow(answer)
  PROVE  Tidy(call') /\ (Excused(call') \/ Owned(call', heap'))
<1> DEFINE b == Malloc(world + 1, call.fn.width)
<1>1. /\ call # None /\ call.step = "ask" /\ call.fn.how = "told"
      /\ HeapOK(heap) /\ Holds(call, heap) /\ world + 1 \in Nat
  BY DEF TidyInv, BlocksInv, Grow, Short, Doing, Fn
<1>2. b # None /\ call.block # None
  BY <1>1, FunctionKinds, NewBlock DEF Holds
<1>3. /\ call'.fn = call.fn /\ call'.key = call.key /\ call'.step = "ask"
      /\ call'.block = b /\ call'.outcome = call.outcome
      /\ call'.lost = call.lost \cup LosesBlock(answer)
      /\ heap' = Grown(call.block, b, answer)
  BY <1>1 DEF Grow, Fn, Holds, Fields
<1> HIDE DEF b
<1>4. ASSUME answer = "gives"
      PROVE  \A id \in DOMAIN heap' :
               \/ id = b.id
               \/ id \in DOMAIN heap /\ (call.block = None \/ call.block.id # id)
  <2>1. CASE OnHeap(call.block)
    <3>1. heap' = With(Without(heap, call.block), b)
      BY <1>3, <1>4, <2>1 DEF Grown
    <3>2. DOMAIN Without(heap, call.block) = DOMAIN heap \ {call.block.id}
      BY DEF Without, Restrict
    <3>. QED  BY <3>1, <3>2 DEF With
  <2>2. CASE ~ OnHeap(call.block)
    <3>1. heap' = With(heap, b)
      BY <1>3, <1>4, <2>2 DEF Grown
    <3>2. DOMAIN heap' = DOMAIN heap \cup {b.id}
      BY <3>1 DEF With
    <3>3. call.block.id = 0 /\ 0 \notin DOMAIN heap
      BY <1>1, <2>2 DEF OnHeap, HeapOK
    <3>. QED  BY <3>2, <3>3
  <2>. QED  BY <2>1, <2>2
<1>5. ASSUME answer = "gives_late", NEW id \in DOMAIN heap'
      PROVE  \/ id = b.id \/ id \in call'.lost
             \/ id \in DOMAIN heap /\ call.block.id # id
  <2>1. heap' = With(heap, b)
    BY <1>3, <1>5 DEF Grown
  <2>2. id = b.id \/ id \in DOMAIN heap
    BY <1>5, <2>1 DEF With
  <2>3. CASE OnHeap(call.block)
    BY <1>3, <1>5, <2>2, <2>3 DEF LosesBlock
  <2>4. CASE ~ OnHeap(call.block)
    BY <1>1, <2>2, <2>4 DEF OnHeap, HeapOK
  <2>. QED  BY <2>3, <2>4
<1>6. answer = "gives" \/ answer = "gives_late"
  BY DEF Answers
<1>. QED  BY <1>1, <1>2, <1>3, <1>4, <1>5, <1>6, TidyLarger

LEMMA TidyAskOnceMore ==
  ASSUME TidyInv, AskOnceMore
  PROVE  Tidy(call') /\ (Excused(call') \/ Owned(call', heap'))
<1> DEFINE b == Alloc(world + 1, call.fn.width)
<1>1. /\ call # None /\ call.step = "ask" /\ call.fn.how = "once" /\ ~ call.again
      /\ HeapOK(heap) /\ Holds(call, heap) /\ world + 1 \in Nat /\ Tidy(call)
  BY DEF TidyInv, BlocksInv, AskOnceMore, Short, Doing, Fn
<1>2. b # None /\ call.block = None
  BY <1>1, FunctionKinds, NewBlock DEF Holds, Tidy
<1>3. /\ call'.fn = call.fn /\ call'.key = call.key /\ call'.step = "ask"
      /\ call'.block = b /\ call'.outcome = call.outcome /\ call'.again
      /\ call'.lost = call.lost /\ heap' = Taken(b)
  BY <1>1 DEF AskOnceMore, Fn, Holds, Fields
<1> HIDE DEF b
<1>4. \A id \in DOMAIN heap' :
        id = b.id \/ (id \in DOMAIN heap /\ (call.block = None \/ call.block.id # id))
  BY <1>2, <1>3, TakenIn
<1>. QED  BY <1>1, <1>2, <1>3, <1>4, TidyLarger

LEMMA TidyStopped ==
  ASSUME TidyInv, Crash \/ Refused \/ PushRaises
  PROVE  Tidy(call') /\ (Excused(call') \/ Owned(call', heap'))
<1>1. call # None /\ Holds(call, heap) /\ Tidy(call)
  BY DEF TidyInv, BlocksInv, Crash, Refused, PushRaises, Short, Doing
<1>2. CASE Crash
  <2>1. call'.step = "crashed" /\ call'.outcome = call.outcome /\ call.step = "ask"
    BY <1>1, <1>2 DEF Crash, Short, Doing, Holds, Fields
  <2>. QED  BY <1>1, <2>1, TidyRaised DEF Tidy
<1>3. CASE Refused \/ PushRaises
  <2>1. call'.step = "done" /\ call'.outcome = "raised"
    BY <1>1, <1>3 DEF Refused, Raises, PushRaises, Ends, Holds, Fields
  <2>. QED  BY <2>1, TidyRaised
<1>. QED  BY <1>2, <1>3

LEMMA TidyShortAgain ==
  ASSUME TidyInv, ShortAgain
  PROVE  Tidy(call') /\ (Excused(call') \/ Owned(call', heap'))
<1>1. /\ call # None /\ call.step = "ask" /\ call.fn.how = "once" /\ call.again
      /\ Holds(call, heap) /\ Tidy(call) /\ (Excused(call) \/ Owned(call, heap))
      /\ heap' = heap
  BY DEF TidyInv, BlocksInv, ShortAgain, Short, Doing, Fn
<1>2. call.key = None /\ call.outcome # "raised" /\ Owned(call, heap)
  BY <1>1, FunctionEnds DEF Tidy, Holds, Excused
<1>3. CASE call' = [call EXCEPT !.step = "push", !.text = Junk, !.handle = FALSE]
  <2>1. /\ call'.fn = call.fn /\ call'.key = None /\ call'.block = call.block
        /\ call'.lost = call.lost /\ call'.outcome = call.outcome /\ call'.step = "push"
        /\ ~ call'.handle
    BY <1>1, <1>2, <1>3 DEF Holds, Fields
  <2>2. Tidy(call')
    BY <1>2, <2>1 DEF Tidy, Answered
  <2>3. Owned(call', heap')
    BY <1>1, <1>2, <2>1 DEF Owned
  <2>. QED  BY <2>2, <2>3 DEF Excused
<1>4. CASE call.fn.name # "canonicalize" /\ call' = Ends(Dropped(call), "error")
  <2>1. /\ call'.fn = call.fn /\ call'.again = call.again /\ call'.lost = call.lost
        /\ call'.step = "done" /\ call'.outcome = "error" /\ call'.key = None
        /\ call'.block = None /\ ~ call'.handle
    BY <1>1, <1>4 DEF Ends, Dropped, Holds, Fields
  <2>2. call.fn.name = "user_home"
    BY <1>1, <1>4, FunctionEnds DEF Holds
  <2>. QED  BY <1>1, <2>1, <2>2 DEF Tidy, Answered, Excused
<1>. QED  BY <1>3, <1>4 DEF ShortAgain, Fn

LEMMA TidyPushed ==
  ASSUME TidyInv, Pushed
  PROVE  Tidy(call') /\ (Excused(call') \/ Owned(call', heap'))
<1>1. /\ call # None /\ call.step = "push" /\ Holds(call, heap) /\ HeapOK(heap)
      /\ Tidy(call) /\ heap' = Freed(heap, call.block)
  BY DEF TidyInv, BlocksInv, Pushed, Doing
<1>2. /\ call'.fn = call.fn /\ call'.again = call.again /\ call'.lost = call.lost
      /\ call'.step = "done" /\ call'.outcome \in {"ok", "error"} /\ call'.key = None
      /\ call'.block = None /\ call'.handle = (call.handle /\ call.fn.name = "user_home")
  BY <1>1 DEF Pushed, Ends, Dropped, Holds, Fields, Fn
<1>3. call.key = None /\ (call.fn.name = "user_home" /\ call.again => ~ call.handle)
  BY <1>1 DEF Tidy
<1>4. \A id \in DOMAIN heap' :
        id \in DOMAIN heap /\ (call.block = None \/ call.block.id # id)
  BY <1>1, FreedGone
<1>. QED  BY <1>1, <1>2, <1>3, <1>4, TidyEnd

LEMMA TidyStep ==
  ASSUME TidyInv, [Next]_vars
  PROVE  TidyInv'
<1>1. BlocksInv'
  BY BlocksStep DEF TidyInv
<1>2. call' # None => Tidy(call') /\ (Excused(call') \/ Owned(call', heap'))
  <2>1. CASE UNCHANGED vars
    BY <2>1 DEF vars, TidyInv
  <2>2. CASE Change
    BY <2>2, TidyChange DEF Change
  <2>3. CASE Return
    BY <2>3 DEF Return
  <2>4. CASE \E f \in Functions : Begin(f)
    BY <2>4, TidyBegin
  <2>5. CASE Working /\ ~ Return
    BY <2>5, TidyConvertKey, TidyOpen, TidyFirstBuffer, TidyAskFits, TidyUnanswered,
       TidyDouble, TidyGrow, TidyAskOnceMore, TidyStopped, TidyShortAgain, TidyPushed
       DEF Working, Asking
  <2>. QED  BY <2>1, <2>2, <2>3, <2>4, <2>5 DEF Next
<1>. QED  BY <1>1, <1>2 DEF TidyInv

(* A function that does not raise has given back the handle it opened and  *)
(* every block, but for the ones named by AllGivenBack.                    *)
THEOREM GivesBack == Spec => []AllGivenBack
<1>1. Init => TidyInv
  BY BlocksInit DEF Init, TidyInv
<1>. QED  BY <1>1, TidyStep, TidyGivesBack, PTL DEF Spec

---------------------------------------------------------------------------
(* What the allocator is handed.  A buffer on the stack that is made       *)
(* larger as the host says (Stacked) is the first one, of the size that    *)
(* the function begins with.                                               *)
Stacked(c) ==
  c.fn.how = "told" /\ c.step = "ask" /\ c.block.id = 0 =>
    c.cap = c.fn.cap /\ OnStack(c.fn.cap, c.fn.width)

StackInv == StringsInv /\ (call # None => Stacked(call))

LEMMA FunctionTold ==
  ASSUME NEW f \in Functions, f.how = "told"
  PROVE  /\ f.cap >= 260
         /\ f.name \in {"get_current_dir", "user_dir"} \/ f.cap * f.width >= 1024
<1> DEFINE Fine(g) == g.how = "told" =>
      /\ g.cap >= 260
      /\ g.name \in {"get_current_dir", "user_dir"} \/ g.cap * g.width >= 1024
<1>1. ASSUME NEW name, NEW how, NEW place, NEW cap, NEW width, NEW has, how # "told"
      PROVE  Fine(F(name, how, place, cap, width, has))
  BY <1>1 DEF F
<1>2. ASSUME NEW name, NEW place, NEW cap \in Nat, NEW width \in Nat, NEW has, cap >= 260,
             name \in {"get_current_dir", "user_dir"} \/ cap * width >= 1024
      PROVE  Fine(F(name, "told", place, cap, width, has))
  BY <1>2 DEF F
<1>3. 1024 * 2 >= 1024 /\ 512 * 2 >= 1024
  OBVIOUS
<1> HIDE DEF Fine
<1>4. /\ Fine(F("push_cwd", "doubles", "array", 1024, 1, {}))
      /\ Fine(F("process_name", "doubles", "array", 1024, 2, {}))
      /\ Fine(F("unix_process_name", "fixed", "block", 4096, 1, {}))
      /\ Fine(F("unix_get_current_dir", "fixed", "array", 4096, 1, {}))
      /\ Fine(F("canonicalize", "once", "array", 512, 2, {"key", "handle"}))
      /\ Fine(F("user_home", "once", "array", 1024, 2, {"handle"}))
  BY <1>1
<1>5. /\ Fine(F("get_current_dir", "told", "block", 260, 2, {}))
      /\ Fine(F("user_dir", "told", "block", 260, 2, {"handle"}))
      /\ Fine(F("get_var", "told", "block", 1024, 2, {"key"}))
      /\ Fine(F("full_path", "told", "block", 512, 2, {"key"}))
  BY <1>2, <1>3
<1>6. Fine(f)
  BY <1>4, <1>5 DEF Functions
<1>. QED  BY <1>6 DEF Fine

(* Only these three steps give a call that asks another buffer.            *)
LEMMA StackFirstBuffer ==
  ASSUME StackInv, FirstBuffer
  PROVE  Stacked(call')
<1>1. /\ call # None /\ call.step = "buffer" /\ Holds(call, heap) /\ call.cap = call.fn.cap
  BY DEF StackInv, StringsInv, BlocksInv, Knows, Preparing, FirstBuffer, Doing
<1>2. call.fn.how = "told" => ~ call.fn.local
  BY <1>1, FunctionKinds DEF Holds
<1>3. /\ call'.fn = call.fn /\ call'.cap = call.cap
      /\ ~ call.fn.local => call'.block = Alloc(call.fn.cap, call.fn.width)
  BY <1>1 DEF FirstBuffer, Holds, Fields, Fn
<1>4. Alloc(call.fn.cap, call.fn.width).id = 0 => OnStack(call.fn.cap, call.fn.width)
  <2>1. HeapOK(heap)
    BY DEF StackInv, StringsInv, BlocksInv
  <2>2. Fresh # 0
    BY <2>1, FreshNew
  <2>. QED  BY <2>2 DEF Alloc
<1>. QED  BY <1>1, <1>2, <1>3, <1>4 DEF Stacked

LEMMA StackGrow ==
  ASSUME StackInv, NEW answer \in Answers, Grow(answer)
  PROVE  Stacked(call')
<1>1. /\ call # None /\ Holds(call, heap) /\ HeapOK(heap) /\ world + 1 \in Nat
  BY DEF StackInv, StringsInv, BlocksInv, Grow, Short, Doing
<1>2. Malloc(world + 1, call.fn.width).id # 0
  BY <1>1, FunctionKinds, NewBlock DEF Holds
<1>3. call'.block = Malloc(world + 1, call.fn.width)
  BY <1>1 DEF Grow, Holds, Fields, Fn
<1>. QED  BY <1>2, <1>3 DEF Stacked

(* Others keep the buffer and its size, or ask no longer, or are no steps  *)
(* of a function that is told.                                             *)
LEMMA StackElse ==
  ASSUME StackInv, Next, call # None, call' # None, ~ FirstBuffer,
         \A answer \in Answers : ~ Grow(answer)
  PROVE  Stacked(call')
<1>1. Holds(call, heap) /\ Stacked(call)
  BY DEF StackInv, StringsInv, BlocksInv
<1> SUFFICES ASSUME call'.step = "ask", call'.fn.how = "told"
             PROVE  call'.fn = call.fn /\ call'.cap = call.cap /\ call'.block = call.block
                    /\ call.step = "ask"
  BY <1>1 DEF Stacked
<1>2. CASE Change
  BY <1>1, <1>2 DEF Change, Holds, Fields
<1>3. CASE ConvertKey \/ Open
  <2>1. call'.step # "ask"
    BY <1>1, <1>3 DEF ConvertKey, Open, Ends, Holds, Fields, Doing
  <2>. QED  BY <2>1
<1>4. CASE Asking \/ GiveUp \/ Crash \/ ShortAgain \/ Refused \/ Pushed \/ PushRaises
  <2>1. CASE Asking \/ GiveUp
    BY <1>1, <2>1 DEF Asking, AskFits, AskEmpty, AskFails, GiveUp, Ends, Dropped, Holds, Fields
  <2>2. CASE Crash \/ ShortAgain \/ Refused
    BY <1>1, <2>2 DEF Crash, ShortAgain, Refused, Raises, Ends, Dropped, Holds, Fields
  <2>3. CASE Pushed \/ PushRaises
    BY <1>1, <2>3 DEF Pushed, PushRaises, Ends, Dropped, Holds, Fields
  <2>. QED  BY <1>4, <2>1, <2>2, <2>3
<1>5. CASE Double \/ AskOnceMore
  <2>1. call.fn.how # "told"
    BY <1>5 DEF Double, AskOnceMore, Fn
  <2>2. call'.fn = call.fn
    BY <1>1, <1>5 DEF Double, AskOnceMore, Ends, Dropped, Holds, Fields
  <2>. QED  BY <2>1, <2>2
<1>6. ~ Return /\ \A f \in Functions : ~ Begin(f)
  BY DEF Return, Begin
<1>. QED  BY <1>2, <1>3, <1>4, <1>5, <1>6 DEF Next, Working

LEMMA StackStep ==
  ASSUME StackInv, [Next]_vars
  PROVE  StackInv'
<1>1. StringsInv'
  BY StringsStep DEF StackInv
<1>2. call' # None => Stacked(call')
  <2>1. CASE UNCHANGED vars
    BY <2>1 DEF vars, StackInv
  <2>2. CASE Next /\ call # None
    BY <2>2, StackFirstBuffer, StackGrow, StackElse
  <2>3. CASE Next /\ call = None
    <3>1. Change \/ \E f \in Functions : Begin(f)
      BY <2>3 DEF Next, Working, ConvertKey, Open, FirstBuffer, Asking, AskFits, AskEmpty,
         AskFails, GiveUp, Short, Double, Crash, AskOnceMore, ShortAgain, Refused, Grow,
         Pushed, PushRaises, Return, Doing
    <3>. QED  BY <2>3, <3>1 DEF Change, Begin, Stacked
  <2>. QED  BY <2>1, <2>2, <2>3
<1>. QED  BY <1>1, <1>2 DEF StackInv

(* With the threshold of the code, or a lower one, and any size of the     *)
(* word: only env.get_current_dir and env.user_dir hand the allocator a    *)
(* block that it never gave, and only for a string their buffer of         *)
(* MAX_PATH characters is short for.                                       *)
THEOREM OwnBlocks ==
  ASSUME Threshold <= 1024
  PROVE  Spec => OnlyOwnBlocks
<1>1. Init => StackInv
  BY BlocksInit DEF Init, StackInv, StringsInv
<1>2. ASSUME StackInv, [Next]_vars, foreign', ~ foreign
      PROVE  ~ OnHeap(call.block) /\ world > 259 /\ Fn.name \in {"get_current_dir", "user_dir"}
  <2>1. /\ Short /\ call.fn.how = "told" /\ ~ Known(call.block)
    BY <1>2 DEF Next, Working, vars, Change, ConvertKey, Open, FirstBuffer, Asking, AskFits, AskEmpty,
       AskFails, GiveUp, Double, Crash, AskOnceMore, ShortAgain, Refused, Raises, Grow, Misused,
       Pushed, PushRaises, Return, Begin, Fn
  <2>2. /\ call # None /\ call.step = "ask" /\ Holds(call, heap) /\ Stacked(call)
        /\ world \in Nat
    BY <1>2, <2>1 DEF StackInv, StringsInv, BlocksInv, Short, Doing
  <2>3. call.block # None /\ call.block.id = 0
    BY <2>1, <2>2, FunctionKinds DEF Holds, Live, Known
  <2>4. call.cap = call.fn.cap /\ OnStack(call.fn.cap, call.fn.width)
    BY <2>1, <2>2, <2>3 DEF Stacked
  <2>5. /\ call.fn.cap >= 260
        /\ call.fn.name \in {"get_current_dir", "user_dir"} \/ call.fn.cap * call.fn.width >= 1024
    BY <2>1, <2>2, FunctionTold DEF Holds
  <2>6. call.fn.cap * call.fn.width < 1024
    <3> DEFINE n == call.fn.cap * call.fn.width
    <3>1. n \in Nat
      BY <2>2, FunctionKinds DEF Holds
    <3>2. n + Header < Threshold
      BY <2>4 DEF OnStack, Size
    <3> HIDE DEF n
    <3>3. n < 1024
      BY <3>1, <3>2, SizesAssumption
    <3>. QED  BY <3>3 DEF n
  <2>7. call.fn.name \in {"get_current_dir", "user_dir"}
    <3> DEFINE n == call.fn.cap * call.fn.width
    <3>1. n \in Nat
      BY <2>2, FunctionKinds DEF Holds
    <3>2. n < 1024 /\ (call.fn.name \in {"get_current_dir", "user_dir"} \/ n >= 1024)
      BY <2>5, <2>6
    <3> HIDE DEF n
    <3>. QED  BY <3>1, <3>2
  <2>8. ~ (world < call.cap)
    BY <2>1, <2>2, <2>7 DEF Short, Enough, Fn
  <2>9. call.cap \in Nat
    BY <2>2 DEF Holds
  <2>. QED  BY <2>2, <2>3, <2>4, <2>5, <2>7, <2>8, <2>9 DEF OnHeap, Fn
<1>3. StackInv /\ [Next]_vars =>
        [foreign' /\ ~ foreign =>
           /\ ~ OnHeap(call.block) /\ world > 259
           /\ Fn.name \in {"get_current_dir", "user_dir"}]_vars
  BY <1>2
<1>. QED  BY <1>1, StackStep, <1>3, PTL DEF Spec, OnlyOwnBlocks
=============================================================================
