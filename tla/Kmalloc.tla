------------------------------- MODULE Kmalloc -------------------------------
(***************************************************************************)
(* The heap of memalloc.c: a list of sections in one block of memory, each *)
(* a header (struct alloc_section) and the bytes of the caller.  The list  *)
(* is in the order of the addresses; what lies between two sections is     *)
(* free.  The first section, at the start of the block, is always listed;  *)
(* it is free when its size is 0.                                          *)
(*                                                                         *)
(* The heap is used by one hart.  Addresses and sizes are size_t: they     *)
(* wrap at Modulus.                                                        *)
(***************************************************************************)
EXTENDS Integers, FiniteSets

CONSTANTS
  Modulus,                         \* 2^xlen
  Word,                            \* sizeof(uintRL_t)
  mem_block_start, mem_block_end,  \* the block given to kallocinit
  Sizes,                           \* sizes passed to kmalloc
  StackSizes                       \* sizes passed to kmalloc_stack

Header == 2 * Word  \* sizeof(struct alloc_section)

\* The block is aligned (linking.ld), has room for a header (kallocinit), and
\* lies higher than it is long: the overflow checks of kmalloc rely on that.
ASSUME KmallocAssumption ==
  /\ Word \in Nat \ {0} /\ Modulus \in Nat
  /\ (Modulus % Word) = 0 /\ (16 % Word) = 0 /\ (mem_block_start % 16) = 0
  /\ mem_block_start \in Nat /\ mem_block_end \in Nat
  /\ mem_block_end - mem_block_start >= Header
  /\ mem_block_end + Header <= Modulus
  /\ mem_block_start >= mem_block_end - mem_block_start
  /\ Sizes \subseteq 0..(Modulus - 1) /\ StackSizes \subseteq 0..(Modulus - 1)

VARIABLES
  heap,    \* the headers: [size, next] by the address of the section
  stacks,  \* the words kmalloc_stack keeps above the stacks: the allocation
  live,    \* history: the blocks that the caller owns
  answer   \* history: what the last call asked for, and what it got

vars == <<heap, stacks, live, answer>>

Answer(n, ptr) == [asked |-> n, got |-> IF ptr = 0 THEN "null" ELSE "block"]
Void == [asked |-> 0, got |-> "void"]

\* kallocinit
Init ==
  /\ heap = [a \in {mem_block_start} |-> [size |-> 0, next |-> 0]]
  /\ stacks = [sp \in {} |-> 0]
  /\ live = {}
  /\ answer = Void

Section(size, next) == [size |-> size, next |-> next]
InBlock(a) == mem_block_start <= a /\ a < mem_block_end

\* heap with the section at a changed, or listed, or no longer listed.
Put(h, a, s) == [b \in DOMAIN h \cup {a} |-> IF b = a THEN s ELSE h[b]]
Drop(h, a) == [b \in DOMAIN h \ {a} |-> h[b]]

\* Mutation: the size is rounded down.
RoundUp_down(size) == size - (size % Word)

\* The size rounded up to whole words; it may wrap to 0.
RoundUp(size) ==
  IF (size % Word) = 0 THEN size ELSE (size + Word - (size % Word)) % Modulus

-----------------------------------------------------------------------------
(***************************************************************************)
(* kmalloc                                                                 *)
(***************************************************************************)

\* One of the checks of the loop fails on section a: the sum overflows.
Overflows(h, a, size) ==
  \/ (a + size) % Modulus < a
  \/ (a + h[a].size + size) % Modulus < a

\* Mutation: the section behind is not looked at.
Fits_end(h, a, size) == (a + h[a].size + size) % Modulus <= mem_block_end

\* There is room for size bytes after section a.
Fits(h, a, size) ==
  (a + h[a].size + size) % Modulus
    <= (IF h[a].next = 0 THEN mem_block_end ELSE h[a].next)

\* The section where the loop of kmalloc ends: the first one that overflows,
\* has room, or is the last; 0 if it runs out of the block.
Walk(h, size) ==
  LET from[a \in DOMAIN h \cup {0}] ==
        IF ~InBlock(a) THEN 0
        ELSE IF Overflows(h, a, size) \/ Fits(h, a, size) \/ h[a].next = 0
          THEN a
        ELSE from[h[a].next]
  IN from[mem_block_start]

\* Mutation: the rest of the list is lost.
Insert_last(h, a, size) ==
  LET new == a + h[a].size IN
    Put(Put(h, a, Section(h[a].size, new)), new, Section(size, 0))

\* The list with a section of size bytes after section a, or in its place if
\* that is free.
Insert(h, a, size) ==
  LET new == a + h[a].size IN
    Put(Put(h, a, Section(h[a].size, new)), new, Section(size, h[a].next))

\* What kmalloc(n) does to the heap h, and returns.
KmallocIn(h, n) ==
  LET size == RoundUp(n)
      full == (size + Header) % Modulus
      a == Walk(h, full)
  IN IF size = 0 \/ full < size \/ a = 0 \/ Overflows(h, a, full)
          \/ ~Fits(h, a, full)
       THEN [heap |-> h, ptr |-> 0]
       ELSE [heap |-> Insert(h, a, full), ptr |-> a + h[a].size + Header]

Kmalloc(n) ==
  LET r == KmallocIn(heap, n) IN
    /\ heap' = r.heap
    /\ answer' = Answer(n, r.ptr)
    /\ live' = IF r.ptr = 0 THEN live
               ELSE live \cup {[ptr |-> r.ptr, len |-> RoundUp(n)]}
    /\ UNCHANGED stacks

-----------------------------------------------------------------------------
(***************************************************************************)
(* kfree                                                                   *)
(***************************************************************************)

\* Mutation: the first section can not be freed.
KfreeIn_first(h, ptr) ==
  LET a == (ptr - Header) % Modulus IN
    IF ~InBlock(a) \/ a \notin DOMAIN h \/ a = mem_block_start THEN h
    ELSE LET prev == CHOOSE b \in DOMAIN h : h[b].next = a IN
           Drop(Put(h, prev, Section(h[prev].size, h[a].next)), a)

\* What kfree(ptr) does to the heap h.  The first section stays in the list.
KfreeIn(h, ptr) ==
  LET a == (ptr - Header) % Modulus IN
    IF ~InBlock(a) \/ a \notin DOMAIN h THEN h
    ELSE IF h[a].size = 0 THEN h
    ELSE IF a = mem_block_start THEN Put(h, a, Section(0, h[a].next))
    ELSE LET prev == CHOOSE b \in DOMAIN h : h[b].next = a IN
           Drop(Put(h, prev, Section(h[prev].size, h[a].next)), a)

Kfree(ptr) ==
  /\ heap' = KfreeIn(heap, ptr)
  /\ live' = {b \in live : b.ptr # ptr}
  /\ answer' = Void
  /\ UNCHANGED stacks

-----------------------------------------------------------------------------
(***************************************************************************)
(* kmalloc_stack and kfree_stack                                           *)
(***************************************************************************)

\* Mutation: the block is not larger than the stack and its word.
KmallocStack_tight(n) ==
  LET r == KmallocIn(heap, (n + 16) % Modulus)
      top == r.ptr + n + 16
      sp == top - (top % 16)
  IN /\ heap' = r.heap
     /\ answer' = Answer((n + 16) % Modulus, r.ptr)
     /\ IF r.ptr = 0
          THEN UNCHANGED <<live, stacks>>
          ELSE /\ stacks' = Put(stacks, sp, r.ptr)
               /\ live' = live \cup {[ptr |-> r.ptr, len |-> RoundUp(n + 16)]}

\* The stack pointer is aligned, and the word above the 16 bytes it points to
\* holds the address of the allocation.
KmallocStack(n) ==
  LET size == (n + 32) % Modulus
      r == KmallocIn(heap, size)
      top == r.ptr + n + 16
      sp == top - (top % 16)
  IN /\ heap' = r.heap
     /\ answer' = Answer(size, r.ptr)
     /\ IF r.ptr = 0
          THEN UNCHANGED <<live, stacks>>
          ELSE /\ stacks' = Put(stacks, sp, r.ptr)
               /\ live' = live \cup {[ptr |-> r.ptr, len |-> RoundUp(size)]}

KfreeStack(ptr) ==
  /\ ptr + 16 \in DOMAIN stacks
  /\ heap' = KfreeIn(heap, stacks[ptr + 16])
  /\ live' = {b \in live : b.ptr # stacks[ptr + 16]}
  /\ stacks' = Drop(stacks, ptr + 16)
  /\ answer' = Void

-----------------------------------------------------------------------------
(***************************************************************************)
(* The caller frees a stack by kfree_stack.  What it passes to kfree may   *)
(* be a block it owns, one it has freed already, or no block at all.       *)
(***************************************************************************)

Pointers ==
  {0} \cup {p \in mem_block_start..mem_block_end : (p % Word) = 0}

IsStack(ptr) == \E sp \in DOMAIN stacks : stacks[sp] = ptr

Next ==
  \/ \E n \in Sizes : Kmalloc(n)
  \/ \E ptr \in Pointers : ~IsStack(ptr) /\ Kfree(ptr)
  \/ \E n \in StackSizes : KmallocStack(n)
  \/ \E sp \in DOMAIN stacks : KfreeStack(sp - 16)

Spec == Init /\ [][Next]_vars

-----------------------------------------------------------------------------
\* The list is in the order of the addresses, its sections do not overlap and
\* lie in the block.
ListOrdered ==
  /\ mem_block_start \in DOMAIN heap
  /\ \A a \in DOMAIN heap :
       /\ InBlock(a) /\ (a % Word) = 0
       /\ heap[a].size >= IF a = mem_block_start THEN 0 ELSE Header + Word
       /\ IF heap[a].next = 0
            THEN /\ \A b \in DOMAIN heap : b <= a
                 /\ a + heap[a].size <= mem_block_end
            ELSE /\ heap[a].next \in DOMAIN heap /\ a < heap[a].next
                 /\ a + heap[a].size <= heap[a].next
                 /\ \A b \in DOMAIN heap : b <= a \/ heap[a].next <= b

\* The caller owns what is listed: no allocation is lost, and none is given out
\* twice.
ListOwned ==
  live = {[ptr |-> a + Header, len |-> heap[a].size - Header] :
            a \in {b \in DOMAIN heap : heap[b].size # 0}}

\* A stack has at least the bytes that were asked for, ends on a 16 byte
\* boundary, and the word that kfree_stack reads is its own: no other block
\* overwrites it.
StacksUsable ==
  \A sp \in DOMAIN stacks :
    /\ (sp % 16) = 0
    /\ \E b \in live :
         /\ b.ptr = stacks[sp]
         /\ \E n \in StackSizes :
              b.len = RoundUp(n + 32) /\ sp - b.ptr >= n
         /\ sp + Word <= b.ptr + b.len

\* kmalloc and kfree are an allocator: blocks that do not overlap, the size
\* that was asked for, no failure while there is room, nothing freed but what
\* was named (memalloc.c:177-256).
Allocator == INSTANCE Heap WITH
  block_start <- mem_block_start, block_end <- mem_block_end,
  blocks <- live, Sizes <- Sizes \cup {n + 32 : n \in StackSizes}

ImplementsHeap == Allocator!Spec

=============================================================================
