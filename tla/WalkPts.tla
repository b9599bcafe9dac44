------------------------------- MODULE WalkPts -------------------------------
(***************************************************************************)
(* walk_pts (context_switch.c): where the instruction lies in memory that  *)
(* trapped in S-mode or U-mode, from its virtual address, in Sv32 and Sv39.*)
(* A register is a number below 2^xlen; one step is one pass of a loop.    *)
(*                                                                         *)
(* As the code says of itself, the page tables are valid.                  *)
(***************************************************************************)
EXTENDS Integers, Sequences

CONSTANTS
  Machines,    \* bits of a register, of satp.MODE, of an index, of an entry
               \* above the page number, and levels of tables
  PAGE,        \* 12: bits of an offset in a page
  FLAGS,       \* 10: bits of an entry below the page number
  Tables,      \* page numbers of the tables, the root first, a sequence
  Frames,      \* page numbers of pages, a function of the level of their entry
  Asids

\* Page numbers of addresses that a register holds.  Where an entry has bits above
\* its page number, the right shift takes the top bit of the number for its sign.
PageNumbers(m) ==
  0..(2^(IF m.reserved = 0 THEN m.xlen - PAGE ELSE m.xlen - m.reserved - FLAGS - 1) - 1)

\* Assumed of the constants, where the module is instantiated; the last conjunct is
\* what the proofs need to know of ^, of which the provers know nothing.
WalkAssumption ==
  /\ PAGE \in Nat /\ FLAGS \in 3..PAGE
  /\ Asids \subseteq Nat
  /\ Machines \subseteq [xlen : Nat, mode : Nat \ {0}, index : Nat \ {0}, reserved : Nat,
                         levels : Nat \ {0}]
  /\ \A m \in Machines :
       /\ m.levels * m.index + PAGE <= m.xlen
       /\ m.reserved = 0 \/ m.reserved >= PAGE - FLAGS
       /\ m.reserved + FLAGS < m.xlen /\ m.mode <= m.reserved + FLAGS
       /\ \A k \in 1..m.levels :
            /\ Tables[k] \in PageNumbers(m) /\ Frames[k - 1] \subseteq PageNumbers(m)
            /\ \A frame \in Frames[k - 1] : frame % 2^((k - 1) * m.index) = 0
       /\ \A j, k \in 1..m.levels : Tables[j] = Tables[k] => j = k
       /\ 2^0 = 1
       /\ \A n \in 0..(m.xlen + PAGE) : 2^n \in Nat \ {0} /\ 2^(n + 1) = 2 * 2^n

VARIABLES
  machine, csr_satp, location,
  path,          \* the entries on the way to the page: their page numbers
  page_walk, shift_ammount,
  stage,
  mem_addr

vars == <<machine, csr_satp, location, path, page_walk, shift_ammount, stage, mem_addr>>

-----------------------------------------------------------------------------
(* Registers. *)

W == 2^machine.xlen

ShiftLeft(n, bits) == (n * 2^bits) % W

\* The right shift of a signed number.
ShiftRight(n, bits) == ((IF n < W \div 2 THEN n ELSE n - W) \div 2^bits) % W

Page(n) == n - (n % 2^PAGE)

(* Memory: what the tables on the way hold. *)

Index(level) == (location \div 2^(PAGE + level * machine.index)) % 2^machine.index

\* V is bit 0; bit 1 stands for R, W and X, of which an entry of a page has one;
\* bit 2 for those that the walk does not look at.
Entry(number, leaf, other) ==
  number * 2^FLAGS + (IF other THEN 4 ELSE 0) + (IF leaf THEN 2 ELSE 0) + 1

\* The table of the k-th level from the root is at Tables[k].  Its other entries
\* lead to a page that nothing else leads to.
Load(address, index) ==
  IF \E n \in DOMAIN path : address = Tables[n] * 2^PAGE
  THEN LET n == CHOOSE n \in DOMAIN path : address = Tables[n] * 2^PAGE
       IN  IF index = Index(machine.levels - n)
           THEN Entry(path[n].number, n = Len(path), path[n].other)
           ELSE Entry(0, TRUE, FALSE)
  ELSE 0

-----------------------------------------------------------------------------
\* Mutation: what is above the page number stays, as it may in Sv32.
TableAddress_keeps_asid(entry) == ShiftLeft(entry, PAGE - FLAGS)

\* "Correct Offset": the page number moves from its place in an entry to its
\* place in an address.
TableAddress(entry) ==
  IF machine.reserved = 0 THEN ShiftLeft(entry, PAGE - FLAGS)
  ELSE ShiftRight(ShiftLeft(entry, machine.reserved), machine.reserved - (PAGE - FLAGS))

PageAddress(entry) ==
  ShiftLeft(ShiftRight(ShiftLeft(entry, machine.reserved), machine.reserved + FLAGS), PAGE)

Active == csr_satp \div 2^(machine.xlen - machine.mode) = 2^(machine.mode - 1)

\* satp is shifted to where an entry has its page number.
Enter ==
  /\ stage = "entry" /\ Active
  /\ page_walk' = ShiftLeft(csr_satp, FLAGS)
  /\ shift_ammount' = (machine.levels - 1) * machine.index + PAGE
  /\ stage' = "walk"
  /\ UNCHANGED <<machine, csr_satp, location, path, mem_addr>>

EnterBare ==
  /\ stage = "entry" /\ ~Active
  /\ mem_addr' = location
  /\ stage' = "done"
  /\ UNCHANGED <<machine, csr_satp, location, path, page_walk, shift_ammount>>

\* One pass of "Walk the PTs": on to the next table, or out of the loop.
Walk ==
  /\ stage = "walk"
  /\ LET entry == Load(Page(TableAddress(page_walk)),
                       (location \div 2^shift_ammount) % 2^machine.index)
         left  == shift_ammount - machine.index
         table == entry % 4 = 1 /\ left >= PAGE
     IN  /\ shift_ammount' = left
         /\ page_walk' = IF table THEN entry ELSE PageAddress(entry)
         /\ stage' = IF table THEN "walk" ELSE "superpage"
  /\ UNCHANGED <<machine, csr_satp, location, path, mem_addr>>

\* One pass of "Append the additional lower bits": those bits of the address are
\* zero, as a superpage is aligned.
Superpage ==
  /\ stage = "superpage" /\ shift_ammount >= PAGE
  /\ page_walk' = page_walk
       + ((location \div 2^shift_ammount) % 2^machine.index) * 2^shift_ammount
  /\ shift_ammount' = shift_ammount - machine.index
  /\ UNCHANGED <<machine, csr_satp, location, path, stage, mem_addr>>

Offset ==
  /\ stage = "superpage" /\ shift_ammount < PAGE
  /\ mem_addr' = page_walk + (location % 2^PAGE)
  /\ stage' = "done"
  /\ UNCHANGED <<machine, csr_satp, location, path, page_walk, shift_ammount>>

-----------------------------------------------------------------------------
\* Virtual addresses are sign-extended where they are shorter than a register.
Canonical(m) ==
  LET half == 2^(m.levels * m.index + PAGE - 1)
  IN  IF m.levels * m.index + PAGE = m.xlen THEN 0..(2 * half - 1)
      ELSE 0..(half - 1) \cup (2^m.xlen - half)..(2^m.xlen - 1)

\* The ways to a page whose entry is in a table of this level, 0 for the last.
Ways(m, level) ==
  {[n \in 1..(m.levels - level) |->
      [number |-> IF n = m.levels - level THEN frame ELSE Tables[n + 1], other |-> other]] :
     frame \in Frames[level], other \in BOOLEAN}

Call(m, mode, asid, address, way) ==
  /\ machine = m
  /\ csr_satp = mode * 2^(m.xlen - m.mode) + asid * 2^(m.xlen - m.reserved - FLAGS) + Tables[1]
  /\ location = address
  /\ path = way
  /\ page_walk = 0 /\ shift_ammount = 0 /\ mem_addr = 0
  /\ stage = "entry"

Init ==
  \E m \in Machines : \E mode \in {0, 2^(m.mode - 1)}, asid \in Asids,
      address \in Canonical(m), level \in 0..(m.levels - 1) :
    \E way \in Ways(m, level) : Call(m, mode, asid, address, way)

Next == Enter \/ EnterBare \/ Walk \/ Superpage \/ Offset

Spec == Init /\ [][Next]_vars /\ WF_vars(Next)

-----------------------------------------------------------------------------
\* The walk ends at the address that the translation of the privileged
\* architecture gives: the page number of the entry it ends at, followed by the
\* bits of the virtual address that no table on the way has used.
WalkRight ==
  stage = "done" =>
    mem_addr = IF ~Active THEN location
               ELSE path[Len(path)].number * 2^PAGE
                      + (location % 2^(PAGE + (machine.levels - Len(path)) * machine.index))
=============================================================================
