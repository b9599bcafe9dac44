-------------------------------- MODULE Heap --------------------------------
(***************************************************************************)
(* What an allocator promises.  The caller owns blocks of memory that do   *)
(* not overlap; an allocation gives it one more, or fails when no place is *)
(* left for it; a free takes exactly one back, and anything that is not a  *)
(* block of the caller is left alone.                                      *)
(***************************************************************************)
EXTENDS Integers

CONSTANTS
  block_start, block_end,  \* the memory, and its end
  Header,                  \* what a block costs besides its size
  Word,                    \* sizes are multiples of it
  Sizes,                   \* the sizes that are asked for
  Pointers                 \* what is freed

VARIABLES
  blocks,  \* the caller's: a set of [ptr, len]
  answer   \* the last call: the size it asked for, and what it got

RoundUp(n) == ((n + Word - 1) \div Word) * Word

Free(b, others) ==
  /\ block_start <= b.ptr - Header /\ b.ptr + b.len <= block_end
  /\ \A o \in others : b.ptr + b.len <= o.ptr - Header
                       \/ o.ptr + o.len <= b.ptr - Header

Places(len) ==
  {b \in [ptr : {p \in block_start..block_end : (p % Word) = 0}, len : {len}] :
     Free(b, blocks)}

Void == [asked |-> 0, got |-> "void"]

Init == blocks = {} /\ answer = Void

Alloc(n) ==
  /\ n > 0
  /\ \E b \in Places(RoundUp(n)) :
       blocks' = blocks \cup {b}
  /\ answer' = [asked |-> n, got |-> "block"]

Fail(n) ==
  /\ n = 0 \/ Places(RoundUp(n)) = {}
  /\ answer' = [asked |-> n, got |-> "null"] /\ UNCHANGED blocks

Release(p) ==
  /\ blocks' = {b \in blocks : b.ptr # p}
  /\ answer' = Void

Next ==
  \/ \E n \in Sizes : Alloc(n) \/ Fail(n)
  \/ \E p \in Pointers : Release(p)

Spec == Init /\ [][Next]_<<blocks, answer>>

=============================================================================
