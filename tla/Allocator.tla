----------------------------- MODULE Allocator -----------------------------
(***************************************************************************)
(* liballocator: blocks from the allocator of the Lua state, or, when they *)
(* are small, from the C stack of the function that asks.  The word before *)
(* a block says how large it is and where it comes from.                   *)
(*                                                                         *)
(* A block is [id, size]; its size counts the word.  id is 0 for one on    *)
(* the stack.  The allocator of the state may refuse; the code then has    *)
(* the collector run and asks once more, for a block of its own: the one   *)
(* to be made larger is not named again and stays where it is.             *)
(***************************************************************************)
EXTENDS Integers, FiniteSets, Functions

CONSTANTS
  Threshold,  \* blocks of this many bytes are not taken from the stack
  Header,     \* the bytes of the word
  MaxSize,    \* SIZE_MAX >> 1
  None

ASSUME SizesAssumption ==
  /\ Threshold \in Nat /\ Header \in Nat \ {0} /\ MaxSize \in Nat /\ Header < MaxSize
  /\ None \notin [id : Nat, size : Nat]

VARIABLES
  heap,    \* the blocks the allocator of the state has given: id -> size
  foreign  \* it was handed a block that is not one of those, or a wrong size

(* The host gives the block at once, or only after the collector has run.  *)
Answers == {"gives", "gives_late"}

OnHeap(b) == b.id # 0

(* allocatorL_check_size2, for n elements of a width.                      *)
TooBig(n, width) == n # 0 /\ width > (MaxSize - Header) \div n

(* Mutant: the word is not counted.                                        *)
SizeUnheaded(n, width) == n * width

Size(n, width) == n * width + Header

Fresh == CHOOSE id \in 1 .. Cardinality(DOMAIN heap) + 1 : id \notin DOMAIN heap

With(h, b) == [id \in DOMAIN h \cup {b.id} |-> IF id = b.id THEN b.size ELSE h[id]]
Without(h, b) == Restrict(h, DOMAIN h \ {b.id})

(* The allocator is told a block and its old size when one is freed or     *)
(* made larger.                                                            *)
Known(b) == b.id \in DOMAIN heap /\ heap[b.id] = b.size

(* Mutant: the threshold is a number of elements.                          *)
OnStackCounted(n, width) == n + Header < Threshold

OnStack(n, width) == Size(n, width) < Threshold

(* allocatorL_allocT and allocatorL_mallocT, once the host has not refused. *)
Alloc(n, width) ==
  [id |-> IF OnStack(n, width) THEN 0 ELSE Fresh, size |-> Size(n, width)]

Malloc(n, width) == [id |-> Fresh, size |-> Size(n, width)]

Taken(b) == IF OnHeap(b) THEN With(heap, b) ELSE heap

(* allocatorL_reallocT of b: the new block, and the heap it leaves.  What  *)
(* is on the stack is copied, and then freed as if it were not.            *)
Grown(b, new, answer) ==
  IF OnHeap(b) /\ answer = "gives" THEN With(Without(heap, b), new) ELSE With(heap, new)

Misused(b) == foreign \/ ~ Known(b)

(* allocatorL_free.                                                        *)
Freed(h, b) == IF b # None /\ OnHeap(b) THEN Without(h, b) ELSE h
=============================================================================
