----------------------------- MODULE LoadProofs -----------------------------
(***************************************************************************)
(* Theorems about Load, for memories, files and loaders of any size: what  *)
(* the kernel finds is whole exactly if the images had room.               *)
(***************************************************************************)
EXTENDS Load, WellFoundedInduction, TLAPS

(***************************************************************************)
(* Numbers and cells                                                       *)
(***************************************************************************)

\* What the proofs use of the constants that are numbers.
LEMMA Numbers ==
  /\ W \in Nat \ {0} /\ Boundary \in Nat \ {0} /\ DtbAlign \in Nat \ {0}
  /\ DtbSize \in Nat \ {0} /\ InitramfsSize \in Nat \ {0}
  /\ PROGAMIMAGE_START \in Nat \ {0} /\ MEMORY_AVAILABLE \in Nat /\ mem_block_end \in Nat
  /\ PROGAMIMAGE_START < mem_block_end
  /\ mem_block_end < PROGAMIMAGE_START + MEMORY_AVAILABLE
  /\ PROGAMIMAGE_START + MEMORY_AVAILABLE + DtbAlign < W
  /\ INITRAMFS \in Addresses /\ PROGAMIMAGE_START <= INITRAMFS
  BY LoadAssumption

\* RAM is a part of the addresses, without address 0.
LEMMA RAMIsAddressed == RAM \subseteq Addresses \ {0}
  BY Numbers DEF RAM, Addresses

\* A set of numbers that has a member has a least one.
LEMMA LeastNumber ==
  ASSUME NEW T \in SUBSET Nat, T # {}
  PROVE  \E x \in T : x = 0 \/ x - 1 \in Nat \ T
<1>1. IsWellFoundedOn(OpToRel(<, Nat), Nat)
  BY NatLessThanWellFounded
<1>2. PICK x \in T : \A y \in T : ~(<<y, x>> \in OpToRel(<, Nat))
  BY <1>1, WFMin
<1>3. \A y \in T : ~(y < x)
  BY <1>2 DEF OpToRel
<1>. QED
  BY <1>3

\* A remainder is an address.
LEMMA Remainders ==
  ASSUME NEW x \in Nat
  PROVE  (x % W) \in Addresses /\ (x < W => (x % W) = x)
  BY Numbers DEF Addresses

\* Cells are addresses; cells that end before the addresses do follow each other.
LEMMA CellsFollow ==
  ASSUME NEW start \in Nat, NEW n \in Nat
  PROVE  /\ Cells(start, n) \subseteq Addresses
         /\ start + n <= W => Cells(start, n) = start..(start + n - 1)
<1>1. \A j \in 0..(n - 1) : (start + j) \in Nat
  OBVIOUS
<1>2. Cells(start, n) \subseteq Addresses
  BY <1>1, Remainders DEF Cells
<1>3. ASSUME start + n <= W PROVE Cells(start, n) = start..(start + n - 1)
  <2>1. \A j \in 0..(n - 1) : ((start + j) % W) = start + j
    BY <1>1, <1>3, Remainders, Numbers
  <2>2. Cells(start, n) = {start + j : j \in 0..(n - 1)}
    BY <2>1 DEF Cells
  <2>3. ASSUME NEW x \in start..(start + n - 1) PROVE x \in {start + j : j \in 0..(n - 1)}
    <3>1. x - start \in 0..(n - 1) /\ x = start + (x - start)
      OBVIOUS
    <3>. QED
      BY <3>1
  <2>. QED
    BY <2>2, <2>3
<1>. QED
  BY <1>2, <1>3

\* Cells in RAM do not wrap around, since address 0 is not in RAM.
LEMMA CellsInRAMFollow ==
  ASSUME NEW start \in Addresses, NEW n \in Nat, Cells(start, n) \subseteq RAM
  PROVE  start + n <= W
<1> SUFFICES ASSUME start + n > W PROVE FALSE
  BY Numbers DEF Addresses
<1>1. W - start \in 0..(n - 1) /\ start + (W - start) = W
  BY Numbers DEF Addresses
<1>2. W % W = 0
  BY Numbers
<1>3. 0 \in Cells(start, n)
  BY <1>1, <1>2 DEF Cells
<1>. QED
  BY <1>3, RAMIsAddressed

-----------------------------------------------------------------------------
(***************************************************************************)
(* memcpy                                                                  *)
(***************************************************************************)

Contents == (Files \cup {"firmware", "bss", "none"}) \X Int
Memories == [Addresses -> Contents]

\* One turn of memcpy.
Store(m, dest, src) == IF (dest % W) \in RAM THEN [m EXCEPT ![dest % W] = m[src % W]] ELSE m

\* A store makes a memory of a memory.
LEMMA StoreInMemories ==
  ASSUME NEW m \in Memories, NEW dest \in Nat, NEW src \in Nat
  PROVE  Store(m, dest, src) \in Memories
  BY Remainders DEF Store, Memories

\* The memories that memcpy goes through.
CopyRun(c, before, to, from, n) ==
  /\ c \in [0..n -> Memories]
  /\ c[0] = before
  /\ \A j \in 1..n : c[j] = Store(c[j - 1], to + (j - 1), from + (j - 1))
  /\ memcpy(before, to, from, n) = c[n]

\* memcpy goes through some memories.
LEMMA CopyRuns ==
  ASSUME NEW before \in Memories, NEW to \in Nat, NEW from \in Nat, NEW n \in Nat
  PROVE  \E c : CopyRun(c, before, to, from, n)
<1> DEFINE Turn(c, j) == IF j = 0 THEN before ELSE Store(c[j - 1], to + (j - 1), from + (j - 1))
           Is(c, k) == c = [j \in 0..k |-> Turn(c, j)]
<1>1. \E c : Is(c, n)
  <2> DEFINE T == {k \in Nat : ~\E c : Is(c, k)}
  <2> SUFFICES ASSUME T # {} PROVE FALSE
    OBVIOUS
  <2>1. T \in SUBSET Nat
    OBVIOUS
  <2>2. PICK x \in T : x = 0 \/ x - 1 \in Nat \ T
    <3> HIDE DEF T
    <3> QED BY <2>1, LeastNumber
  <2>3. x # 0
    <3>1. Is([j \in 0..0 |-> before], 0)
      OBVIOUS
    <3>. QED
      BY <3>1
  <2>4. PICK c : Is(c, x - 1)
    BY <2>2, <2>3
  <2> DEFINE d == [j \in 0..x |-> Turn(c, j)]
  <2>5. ASSUME NEW j \in 0..x PROVE Turn(d, j) = Turn(c, j)
    <3>1. CASE j = 0
      BY <3>1
    <3>2. CASE j # 0
      <4>1. j - 1 \in 0..x /\ j - 1 \in 0..(x - 1)
        BY <3>2
      <4>2. d[j - 1] = Turn(c, j - 1)
        BY <4>1
      <4>3. c[j - 1] = Turn(c, j - 1)
        <5> HIDE DEF Turn
        <5> QED BY <4>1, <2>4
      <4>. QED
        BY <3>2, <4>2, <4>3
    <3>. QED
      BY <3>1, <3>2
  <2>6. Is(d, x)
    <3> HIDE DEF Turn
    <3> QED BY <2>5
  <2>. QED
    BY <2>6
<1> DEFINE c == CHOOSE f : Is(f, n)
<1>2. Is(c, n)
  BY <1>1
<1>3. memcpy(before, to, from, n) = c[n]
  BY DEF memcpy, Store
<1> HIDE DEF c
<1>4. \A j \in 0..n : c[j] = Turn(c, j)
  BY <1>2
<1>5. \A j \in 0..n : c[j] \in Memories
  <2> DEFINE T == {j \in 0..n : c[j] \notin Memories}
  <2> SUFFICES ASSUME T # {} PROVE FALSE
    OBVIOUS
  <2>1. T \in SUBSET Nat
    OBVIOUS
  <2>2. PICK x \in T : x = 0 \/ x - 1 \in Nat \ T
    <3> HIDE DEF T
    <3> QED BY <2>1, LeastNumber
  <2>3. x # 0
    BY <1>4
  <2>4. x - 1 \in 0..n /\ c[x - 1] \in Memories
    BY <2>2, <2>3
  <2>5. c[x] = Store(c[x - 1], to + (x - 1), from + (x - 1))
    BY <1>4, <2>3
  <2>6. to + (x - 1) \in Nat /\ from + (x - 1) \in Nat
    BY <2>2, <2>3
  <2>7. c[x] \in Memories
    BY <2>4, <2>5, <2>6, StoreInMemories
  <2>. QED
    BY <2>2, <2>7
<1>6. c \in [0..n -> Memories]
  BY <1>2, <1>5
<1>7. c[0] = before /\ \A j \in 1..n : c[j] = Store(c[j - 1], to + (j - 1), from + (j - 1))
  BY <1>4
<1>. QED
  BY <1>3, <1>6, <1>7 DEF CopyRun

\* memcpy changes nothing but its target, and only RAM.
LEMMA CopyElsewhere ==
  ASSUME NEW before \in Memories, NEW to \in Nat, NEW from \in Nat, NEW n \in Nat
  PROVE  /\ memcpy(before, to, from, n) \in Memories
         /\ \A x \in Addresses :
              x \notin RAM \/ x \notin Cells(to, n) => memcpy(before, to, from, n)[x] = before[x]
<1>r. PICK c : CopyRun(c, before, to, from, n)
  BY CopyRuns
<1>1. /\ c \in [0..n -> Memories]
      /\ c[0] = before
      /\ \A j \in 1..n : c[j] = Store(c[j - 1], to + (j - 1), from + (j - 1))
      /\ memcpy(before, to, from, n) = c[n]
  BY <1>r DEF CopyRun
<1>2. c[n] \in Memories
  BY <1>1
<1>3. SUFFICES ASSUME NEW x \in Addresses, x \notin RAM \/ x \notin Cells(to, n)
               PROVE  c[n][x] = before[x]
  BY <1>1, <1>2
<1> DEFINE T == {j \in 0..n : c[j][x] # before[x]}
<1>4. SUFFICES ASSUME T # {} PROVE FALSE
  OBVIOUS
<1>5. T \in SUBSET Nat
  OBVIOUS
<1>6. PICK k \in T : k = 0 \/ k - 1 \in Nat \ T
  <2> HIDE DEF T
  <2> QED BY <1>4, <1>5, LeastNumber
<1>7. k # 0
  BY <1>1
<1>8. k \in 1..n /\ k - 1 \in 0..(n - 1) /\ c[k - 1][x] = before[x]
  BY <1>6, <1>7
<1>9. c[k] = Store(c[k - 1], to + (k - 1), from + (k - 1))
  BY <1>1, <1>8
<1>10. ((to + (k - 1)) % W) \in Cells(to, n)
  BY <1>8 DEF Cells
<1>11. c[k - 1] \in Memories
  BY <1>1, <1>8
<1>12. c[k][x] = c[k - 1][x]
  BY <1>9, <1>10, <1>11, <1>3 DEF Store, Memories
<1>. QED
  BY <1>6, <1>8, <1>12

\* memcpy upwards onto its own source repeats what it copied; otherwise a cell of
\* the target gets what its source had.
LEMMA CopyInside ==
  ASSUME NEW before \in Memories, NEW to \in Nat, NEW from \in Nat, NEW n \in Nat,
         to + n <= W,
         NEW i \in 0..(n - 1), to + i \in RAM, from + i < W
  PROVE  memcpy(before, to, from, n)[to + i] =
           IF from < to /\ to <= from + i THEN memcpy(before, to, from, n)[from + i]
                                          ELSE before[from + i]
<1>r. PICK c : CopyRun(c, before, to, from, n)
  BY CopyRuns
<1>1. /\ c \in [0..n -> Memories]
      /\ c[0] = before
      /\ \A j \in 1..n : c[j] = Store(c[j - 1], to + (j - 1), from + (j - 1))
      /\ memcpy(before, to, from, n) = c[n]
  BY <1>r DEF CopyRun
<1> DEFINE Untouched(j) == \A x \in Addresses : x \notin to..(to + j - 1) => c[j][x] = before[x]
           Touched(j)   == j > i => c[j][to + i] = IF from < to /\ to <= from + i
                                                   THEN c[j][from + i] ELSE before[from + i]
           T == {j \in 0..n : ~(Untouched(j) /\ Touched(j))}
<1>2. SUFFICES ASSUME T # {} PROVE FALSE
  <2>1. n \in 0..n /\ n > i
    OBVIOUS
  <2>2. T = {} => Touched(n)
    BY <2>1
  <2>. QED
    BY <1>1, <2>1, <2>2
<1>3. PICK k \in T : k = 0 \/ k - 1 \in Nat \ T
  <2>1. T \in SUBSET Nat
    OBVIOUS
  <2> HIDE DEF T
  <2> QED BY <1>2, <2>1, LeastNumber
<1>4. k # 0
  BY <1>1
<1>5. k \in 1..n /\ k - 1 \in 0..(n - 1) /\ Untouched(k - 1) /\ Touched(k - 1)
  BY <1>3, <1>4
<1> DEFINE d == to + (k - 1)
           s == (from + (k - 1)) % W
<1>6. c[k] = Store(c[k - 1], to + (k - 1), from + (k - 1)) /\ c[k - 1] \in Memories
  BY <1>1, <1>5
<1>7. d \in Nat /\ d < W /\ (d % W) = d
  <2>1. d \in Nat /\ d < W
    BY <1>5, Numbers
  <2> HIDE DEF d
  <2> QED BY <2>1, Remainders
<1>8. c[k] = IF d \in RAM THEN [c[k - 1] EXCEPT ![d] = c[k - 1][s]] ELSE c[k - 1]
  BY <1>6, <1>7 DEF Store
<1>9. \A x \in Addresses : x # d => c[k][x] = c[k - 1][x]
  BY <1>6, <1>8 DEF Memories
<1>10. Untouched(k)
  <2> SUFFICES ASSUME NEW x \in Addresses, x \notin to..(to + k - 1) PROVE c[k][x] = before[x]
    OBVIOUS
  <2>1. x # d /\ x \notin to..(to + (k - 1) - 1)
    BY <1>5 DEF Addresses
  <2>. QED
    BY <2>1, <1>5, <1>9
<1>11. to + i \in Addresses /\ from + i \in Addresses
  BY RAMIsAddressed, Numbers DEF Addresses
<1>12. Touched(k)
  <2>1. CASE k - 1 > i
    <3>1. to + i # d /\ (from < to => from + i # d)
      BY <2>1, <1>5
    <3>. QED
      BY <3>1, <2>1, <1>5, <1>9, <1>11
  <2>2. CASE k - 1 = i
    <3>1. s = from + i /\ d = to + i
      BY <2>2, <1>11, Remainders
    <3>2. c[k][to + i] = c[k - 1][from + i]
      BY <3>1, <1>6, <1>8, <1>11 DEF Memories
    <3>3. CASE from < to /\ to <= from + i
      <4>1. from + i # d
        BY <3>1, <3>3
      <4>. QED
        BY <3>2, <3>3, <4>1, <1>9, <1>11
    <3>4. CASE ~(from < to /\ to <= from + i)
      <4>1. from + i \notin to..(to + (k - 1) - 1)
        BY <3>4, <2>2
      <4>. QED
        BY <3>2, <3>4, <4>1, <1>5, <1>11
    <3>. QED
      BY <3>3, <3>4
  <2>3. CASE k - 1 < i
    <3>1. ~(k > i)
      BY <2>3, <1>5
    <3>. QED
      BY <3>1
  <2>. QED
    BY <2>1, <2>2, <2>3, <1>5
<1>. QED
  BY <1>3, <1>10, <1>12

\* A copy out of the archive, which is below RAM, into RAM.
LEMMA CopyFromFlash ==
  ASSUME NEW before \in Memories, NEW to \in Nat, NEW from \in Nat, NEW n \in Nat,
         to + n <= W, from + n <= PROGAMIMAGE_START,
         NEW i \in 0..(n - 1), to + i \in RAM, PROGAMIMAGE_START <= to
  PROVE  memcpy(before, to, from, n)[to + i] = before[from + i]
<1>1. from + i < W /\ ~(to <= from + i)
  BY Numbers
<1>. QED
  BY <1>1, CopyInside

-----------------------------------------------------------------------------
(***************************************************************************)
(* The memory that the firmware finds                                      *)
(***************************************************************************)

\* The inputs of a boot, which no step changes.
BootInv ==
  /\ kernel \in Kernels /\ fw_dyninfo \in FwDyninfos
  /\ init_reg_a1 \in DtbAddrs /\ initrd_start \in InitrdAddrs
  /\ archive \subseteq Files
  /\ init_reg_a1 = 0 => initrd_start = 0
  /\ BroughtWell

\* Files have cells, and the image of a kernel is not shorter than its file.
LEMMA Sizes ==
  ASSUME BootInv
  PROVE  /\ \A f \in Files : Size(f) \in Nat \ {0}
         /\ Size("kernel") = kernel.file
         /\ Size("dtb") = DtbSize /\ Size("initramfs") = InitramfsSize
         /\ kernel.file \in Nat \ {0} /\ kernel.image \in Nat /\ kernel.text \in Nat
         /\ kernel.file <= kernel.image
<1>1. /\ kernel.file \in Nat \ {0} /\ kernel.image \in Nat /\ kernel.text \in Nat
      /\ kernel.file <= kernel.image
  BY LoadAssumption DEF BootInv
<1>2. /\ Size("kernel") = kernel.file
      /\ Size("dtb") = DtbSize /\ Size("initramfs") = InitramfsSize
  BY DEF Size, SizeOf
<1>. QED
  BY <1>1, <1>2, Numbers DEF Files

\* The files of the archive are below RAM and apart from each other.
LEMMA Archived ==
  ASSUME BootInv, NEW f \in Files
  PROVE  /\ Flash[f] \in Nat \ {0}
         /\ Flash[f] + Size(f) <= PROGAMIMAGE_START
         /\ Cells(Flash[f], Size(f)) = Flash[f]..(Flash[f] + Size(f) - 1)
         /\ \A g \in Files \ {f} :
              Flash[f] + Size(f) <= Flash[g] \/ Flash[g] + Size(g) <= Flash[f]
<1>1. /\ Flash[f] \in Nat \ {0}
      /\ Flash[f] + Size(f) <= PROGAMIMAGE_START
      /\ \A g \in Files \ {f} :
           Flash[f] + Size(f) <= Flash[g] \/ Flash[g] + Size(g) <= Flash[f]
  BY LoadAssumption DEF BootInv, Size
<1>2. Size(f) \in Nat
  BY Sizes
<1>3. Flash[f] + Size(f) <= W
  BY <1>1, <1>2, Numbers
<1>. QED
  BY <1>1, <1>2, <1>3, CellsFollow

\* The files of the loader before are in RAM, behind the firmware and apart.
LEMMA BroughtFiles ==
  ASSUME BootInv
  PROVE  /\ DOMAIN Brought \subseteq Files
         /\ "kernel" \in DOMAIN Brought <=> HasNextAddr
         /\ "dtb" \in DOMAIN Brought <=> init_reg_a1 # 0
         /\ "initramfs" \in DOMAIN Brought <=> init_reg_a1 # 0 /\ initrd_start # 0
         /\ "kernel" \in DOMAIN Brought => Brought["kernel"] = fw_dyninfo.next_addr
         /\ "dtb" \in DOMAIN Brought => Brought["dtb"] = init_reg_a1
         /\ "initramfs" \in DOMAIN Brought => Brought["initramfs"] = initrd_start
         /\ \A f \in DOMAIN Brought :
              /\ Brought[f] \in Addresses
              /\ Brought[f] + Size(f) <= W
              /\ BroughtCells(f) = Brought[f]..(Brought[f] + Size(f) - 1)
              /\ BroughtCells(f) \subseteq RAM \ Firmware
              /\ \A g \in DOMAIN Brought \ {f} : BroughtCells(f) \cap BroughtCells(g) = {}
<1>1. /\ DOMAIN Brought \subseteq Files
      /\ "kernel" \in DOMAIN Brought <=> HasNextAddr
      /\ "dtb" \in DOMAIN Brought <=> init_reg_a1 # 0
      /\ "initramfs" \in DOMAIN Brought <=> init_reg_a1 # 0 /\ initrd_start # 0
      /\ "kernel" \in DOMAIN Brought => Brought["kernel"] = fw_dyninfo.next_addr
      /\ "dtb" \in DOMAIN Brought => Brought["dtb"] = init_reg_a1
      /\ "initramfs" \in DOMAIN Brought => Brought["initramfs"] = initrd_start
  BY DEF Brought, Files
<1>2. /\ fw_dyninfo.next_addr \in Addresses
      /\ init_reg_a1 \in Addresses /\ initrd_start \in Addresses
  BY LoadAssumption DEF BootInv
<1>3. SUFFICES ASSUME NEW f \in DOMAIN Brought
      PROVE  /\ Brought[f] \in Addresses
             /\ Brought[f] + Size(f) <= W
             /\ BroughtCells(f) = Brought[f]..(Brought[f] + Size(f) - 1)
             /\ BroughtCells(f) \subseteq RAM \ Firmware
             /\ \A g \in DOMAIN Brought \ {f} : BroughtCells(f) \cap BroughtCells(g) = {}
  BY <1>1
<1>4. Brought[f] \in Addresses
  BY <1>1, <1>2 DEF Files
<1>5. /\ BroughtCells(f) \subseteq RAM \ Firmware
      /\ \A g \in DOMAIN Brought \ {f} : BroughtCells(f) \cap BroughtCells(g) = {}
  BY DEF BootInv, BroughtWell
<1>6. Brought[f] \in Nat /\ Size(f) \in Nat
  BY <1>1, <1>4, Sizes DEF Addresses
<1>7. Brought[f] + Size(f) <= W
  BY <1>4, <1>5, <1>6, CellsInRAMFollow DEF BroughtCells
<1>. QED
  BY <1>4, <1>5, <1>6, <1>7, CellsFollow DEF BroughtCells

\* The first memory, address by address.
LEMMA FirstAt ==
  ASSUME BootInv, NEW x \in Addresses
  PROVE  \/ x \in Firmware /\ FirstMemory[x] = <<"firmware", x>>
         \/ x \notin Firmware /\ \E f \in InRAM(x) : FirstMemory[x] = <<f, x - Brought[f]>>
         \/ x \notin Firmware /\ InRAM(x) = {} /\ \E f \in InFlash(x) : FirstMemory[x] = <<f, x - Flash[f]>>
         \/ x \notin Firmware /\ InRAM(x) = {} /\ InFlash(x) = {} /\ FirstMemory[x] = <<"none", 0>>
<1> DEFINE r == CHOOSE f \in InRAM(x) : TRUE
           a == CHOOSE f \in InFlash(x) : TRUE
<1>1. FirstMemory[x] = CASE x \in Firmware -> <<"firmware", x>>
                         [] InRAM(x) # {}   -> <<r, x - Brought[r]>>
                         [] InFlash(x) # {} -> <<a, x - Flash[a]>>
                         [] OTHER -> <<"none", 0>>
  BY DEF FirstMemory
<1>2. (InRAM(x) # {} => r \in InRAM(x)) /\ (InFlash(x) # {} => a \in InFlash(x))
  OBVIOUS
<1>3. Firmware \subseteq RAM
  BY Numbers, LoadAssumption DEF Firmware, RAM
<1>4. x \in Firmware => InRAM(x) = {} /\ InFlash(x) = {}
  <2> SUFFICES ASSUME x \in Firmware PROVE InRAM(x) = {} /\ InFlash(x) = {}
    OBVIOUS
  <2>1. InRAM(x) = {}
    BY BroughtFiles DEF InRAM
  <2>2. x >= PROGAMIMAGE_START /\ x \in Nat
    BY Numbers DEF Firmware, Addresses
  <2>3. ASSUME NEW f \in archive PROVE x \notin Cells(Flash[f], Size(f))
    <3>1. /\ f \in Files /\ Flash[f] \in Nat /\ Size(f) \in Nat
          /\ Flash[f] + Size(f) <= PROGAMIMAGE_START
          /\ Cells(Flash[f], Size(f)) = Flash[f]..(Flash[f] + Size(f) - 1)
      BY Archived, Sizes DEF BootInv
    <3>. QED
      BY <3>1, <2>2, Numbers
  <2>. QED
    BY <2>1, <2>3 DEF InFlash
<1>5. InRAM(x) # {} => InFlash(x) = {}
  <2> SUFFICES ASSUME NEW g \in InRAM(x), NEW f \in InFlash(x) PROVE FALSE
    OBVIOUS
  <2>1. x \in RAM
    BY BroughtFiles DEF InRAM
  <2>2. /\ f \in Files /\ Flash[f] \in Nat /\ Size(f) \in Nat
        /\ Flash[f] + Size(f) <= PROGAMIMAGE_START
        /\ Cells(Flash[f], Size(f)) = Flash[f]..(Flash[f] + Size(f) - 1)
    BY Archived, Sizes DEF BootInv, InFlash
  <2>. QED
    BY <2>1, <2>2, Numbers DEF InFlash, RAM
<1> HIDE DEF r, a
<1>6. CASE x \in Firmware
  BY <1>6, <1>1, <1>4
<1>7. CASE InRAM(x) # {}
  BY <1>7, <1>1, <1>2, <1>4, <1>5
<1>8. CASE InFlash(x) # {}
  BY <1>8, <1>1, <1>2, <1>4, <1>5
<1>9. CASE x \notin Firmware /\ InRAM(x) = {} /\ InFlash(x) = {}
  BY <1>9, <1>1
<1>. QED
  BY <1>6, <1>7, <1>8, <1>9

\* The first memory is a memory, in which the firmware, the files of the loader
\* before and those of the archive lie where they should, and nowhere else.
LEMMA FirstMemoryHas ==
  ASSUME BootInv
  PROVE  /\ FirstMemory \in Memories
         /\ \A x \in Firmware : x \in Addresses /\ FirstMemory[x] = <<"firmware", x>>
         /\ \A f \in DOMAIN Brought : \A j \in 0..(Size(f) - 1) :
              FirstMemory[Brought[f] + j] = <<f, j>>
         /\ \A f \in archive : \A j \in 0..(Size(f) - 1) : FirstMemory[Flash[f] + j] = <<f, j>>
<1>1. FirstMemory \in Memories
  <2>1. FirstMemory = [x \in Addresses |-> FirstMemory[x]]
    BY DEF FirstMemory
  <2>2. ASSUME NEW x \in Addresses PROVE FirstMemory[x] \in Contents
    <3>1. x \in Int
      BY Numbers DEF Addresses
    <3>2. \A f \in InRAM(x) : f \in Files /\ Brought[f] \in Int
      BY BroughtFiles DEF InRAM, Addresses
    <3>3. \A f \in InFlash(x) : f \in Files /\ Flash[f] \in Int
      BY Archived DEF InFlash, BootInv
    <3>4. \A f \in Files \cup {"firmware", "none"} : \A j \in Int : <<f, j>> \in Contents
      BY DEF Contents
    <3>5. \A f \in InRAM(x) : <<f, x - Brought[f]>> \in Contents
      BY <3>1, <3>2, <3>4
    <3>6. \A f \in InFlash(x) : <<f, x - Flash[f]>> \in Contents
      BY <3>1, <3>3, <3>4
    <3>7. <<"firmware", x>> \in Contents /\ <<"none", 0>> \in Contents
      BY <3>1, <3>4
    <3>. QED
      BY <3>5, <3>6, <3>7, FirstAt
  <2>. QED
    BY <2>1, <2>2 DEF Memories
<1>2. \A x \in Firmware : x \in Addresses /\ FirstMemory[x] = <<"firmware", x>>
  <2>1. \A x \in Firmware : x \in Addresses
    BY Numbers DEF Firmware, Addresses
  <2>. QED
    BY <2>1, FirstAt
<1>3. ASSUME NEW f \in DOMAIN Brought, NEW j \in 0..(Size(f) - 1)
      PROVE  FirstMemory[Brought[f] + j] = <<f, j>>
  <2> DEFINE x == Brought[f] + j
  <2>1. Brought[f] \in Nat /\ Size(f) \in Nat /\ x - Brought[f] = j
    BY BroughtFiles, Sizes DEF Addresses
  <2>2. x \in BroughtCells(f)
    BY <2>1, BroughtFiles
  <2>3. x \in RAM \ Firmware /\ f \in InRAM(x)
    BY <2>2, BroughtFiles DEF InRAM
  <2>4. \A g \in InRAM(x) : g = f
    BY <2>2, BroughtFiles DEF InRAM
  <2>5. x \in Addresses
    BY <2>3, RAMIsAddressed
  <2> HIDE DEF x
  <2>6. \E g \in InRAM(x) : FirstMemory[x] = <<g, x - Brought[g]>>
    BY <2>3, <2>5, FirstAt
  <2>. QED
    BY <2>1, <2>4, <2>6 DEF x
<1>4. ASSUME NEW f \in archive, NEW j \in 0..(Size(f) - 1)
      PROVE  FirstMemory[Flash[f] + j] = <<f, j>>
  <2> DEFINE x == Flash[f] + j
  <2>0. f \in Files
    BY DEF BootInv
  <2>1. /\ Flash[f] \in Nat /\ Size(f) \in Nat /\ x - Flash[f] = j
        /\ Flash[f] + Size(f) <= PROGAMIMAGE_START
    BY <2>0, Archived, Sizes
  <2>2. x \in Flash[f]..(Flash[f] + Size(f) - 1)
    BY <2>1
  <2>3. x \notin RAM /\ x \in Addresses
    BY <2>1, Numbers DEF RAM, Addresses
  <2>4. x \notin Firmware /\ InRAM(x) = {}
    BY <2>3, BroughtFiles, Numbers, LoadAssumption DEF InRAM, Firmware, RAM
  <2>5. f \in InFlash(x)
    BY <2>0, <2>2, Archived DEF InFlash
  <2>6. ASSUME NEW g \in InFlash(x) PROVE g = f
    <3>1. g \in Files /\ x \in Cells(Flash[g], Size(g))
      BY DEF InFlash, BootInv
    <3>2. Flash[g] \in Nat /\ Size(g) \in Nat /\ x \in Flash[g]..(Flash[g] + Size(g) - 1)
      BY <3>1, Archived, Sizes
    <3>3. ~(Flash[f] + Size(f) <= Flash[g]) /\ ~(Flash[g] + Size(g) <= Flash[f])
      BY <2>1, <2>2, <3>2
    <3>. QED
      BY <2>0, <3>1, <3>3, Archived
  <2> HIDE DEF x
  <2>7. \E g \in InFlash(x) : FirstMemory[x] = <<g, x - Flash[g]>>
    BY <2>3, <2>4, <2>5, FirstAt
  <2>. QED
    BY <2>1, <2>6, <2>7 DEF x
<1>. QED
  BY <1>1, <1>2, <1>3, <1>4

\* The other way: where a cell of a file lies in the first memory.  Nothing is
\* cleared there.
LEMMA FirstMemoryOnly ==
  ASSUME BootInv, NEW x \in Addresses
  PROVE  /\ \A f \in Files : \A j \in Int : FirstMemory[x] = <<f, j>> =>
              \/ f \in DOMAIN Brought /\ x = Brought[f] + j /\ x \in RAM \ Firmware
              \/ f \in archive /\ x = Flash[f] + j /\ x < PROGAMIMAGE_START
         /\ FirstMemory[x] # <<"bss", 0>>
<1>1. x \in Int
  BY Numbers DEF Addresses
<1>2. ASSUME NEW f \in InRAM(x)
      PROVE  f \in Files /\ f \in DOMAIN Brought /\ Brought[f] \in Int /\ x \in RAM \ Firmware
  BY BroughtFiles DEF InRAM, Addresses
<1>3. ASSUME NEW f \in InFlash(x)
      PROVE  f \in Files /\ f \in archive /\ Flash[f] \in Int /\ x < PROGAMIMAGE_START
  <2>1. f \in archive /\ f \in Files /\ x \in Cells(Flash[f], Size(f))
    BY DEF InFlash, BootInv
  <2>. QED
    BY <2>1, <1>1, Archived, Sizes, Numbers
<1>4. "firmware" \notin Files /\ "none" \notin Files /\ "bss" \notin Files
  BY DEF Files
<1>5. CASE FirstMemory[x] \in {<<"firmware", x>>, <<"none", 0>>}
  BY <1>4, <1>5
<1>6. CASE \E g \in InRAM(x) : FirstMemory[x] = <<g, x - Brought[g]>>
  <2>1. PICK g \in InRAM(x) : FirstMemory[x] = <<g, x - Brought[g]>>
    BY <1>6
  <2>2. \A f, j : FirstMemory[x] = <<f, j>> => f = g /\ j = x - Brought[g]
    BY <2>1
  <2>. QED
    BY <2>1, <2>2, <1>1, <1>2, <1>4
<1>7. CASE \E g \in InFlash(x) : FirstMemory[x] = <<g, x - Flash[g]>>
  <2>1. PICK g \in InFlash(x) : FirstMemory[x] = <<g, x - Flash[g]>>
    BY <1>7
  <2>2. \A f, j : FirstMemory[x] = <<f, j>> => f = g /\ j = x - Flash[g]
    BY <2>1
  <2>. QED
    BY <2>1, <2>2, <1>1, <1>3, <1>4
<1>. QED
  BY <1>5, <1>6, <1>7, FirstAt

-----------------------------------------------------------------------------
(***************************************************************************)
(* Where the kernel goes                                                   *)
(***************************************************************************)

\* A number is a multiple and a remainder.
LEMMA Quotient ==
  ASSUME NEW p \in Nat \ {0}, NEW x \in Nat
  PROVE  /\ (x % p) \in 0..(p - 1) /\ (x % p) <= x
         /\ \E q \in Nat : x = p * q + (x % p)
<1> DEFINE d == x \div p
           e == x % p
<1>1. d \in Int /\ e \in Nat /\ e < p /\ x = p * d + e
  BY SMTT(30)
<1> HIDE DEF d, e
<1>2. d \in Nat
  <2> SUFFICES ASSUME d <= -1 PROVE FALSE
    BY <1>1
  <2>1. p * d <= p * (-1)
    BY <1>1
  <2> QED BY <1>1, <2>1
<1>3. p * d >= 0
  BY <1>2
<1>4. e \in 0..(p - 1) /\ e <= x /\ \E q \in Nat : x = p * q + e
  BY <1>1, <1>2, <1>3
<1>. QED
  BY <1>4 DEF e

\* The multiples of a number are what it divides without remainder.
LEMMA Multiple ==
  ASSUME NEW p \in Nat \ {0}, NEW q \in Nat
  PROVE  p * q \in Nat /\ ((p * q) % p) = 0
<1> DEFINE x == p * q
           e == x % p
<1>1. x \in Nat
  OBVIOUS
<1>2. PICK d \in Nat : x = p * d + e
  BY <1>1, Quotient
<1>3. e \in 0..(p - 1)
  BY <1>1, Quotient
<1> HIDE DEF e
<1>4. ~(d < q)
  <2> SUFFICES ASSUME d < q PROVE FALSE
    OBVIOUS
  <2>1. p * (d + 1) <= p * q
    OBVIOUS
  <2> QED BY <1>2, <1>3, <2>1
<1>5. ~(q < d)
  <2> SUFFICES ASSUME q < d PROVE FALSE
    OBVIOUS
  <2>1. p * (q + 1) <= p * d
    OBVIOUS
  <2> QED BY <1>2, <1>3, <2>1
<1>6. d = q
  BY <1>4, <1>5
<1>7. e = 0
  BY <1>2, <1>3, <1>6
<1>. QED
  BY <1>1, <1>7 DEF e

\* Rounding down gives a multiple, the sum of multiples is one, and the next
\* multiple is no nearer than the number that they are multiples of.
LEMMA Multiples ==
  ASSUME NEW p \in Nat \ {0}, NEW x \in Nat
  PROVE  /\ x - (x % p) \in Nat /\ ((x - (x % p)) % p) = 0
         /\ \A y \in Nat : (x % p) = 0 /\ (y % p) = 0 =>
              /\ ((x + y) % p) = 0
              /\ x < y => x + p <= y
<1>1. PICK d \in Nat : x = p * d + (x % p)
  BY Quotient
<1> DEFINE e == x % p
<1>e. e \in Nat
  BY Quotient
<1>2. x - e = p * d
  <2>1. x = p * d + e
    BY <1>1
  <2> HIDE DEF e
  <2> QED BY <2>1, <1>e
<1>3. x - (x % p) \in Nat /\ ((x - (x % p)) % p) = 0
  BY <1>2, Multiple
<1>4. ASSUME NEW y \in Nat, (x % p) = 0, (y % p) = 0
      PROVE  ((x + y) % p) = 0 /\ (x < y => x + p <= y)
  <2>1. PICK q \in Nat : y = p * q
    <3>1. PICK q \in Nat : y = p * q + (y % p)
      BY Quotient
    <3>. QED
      BY <3>1, <1>4
  <2>2. x = p * d
    BY <1>1, <1>4
  <2>3. x + y = p * (d + q)
    BY <2>1, <2>2
  <2>4. ((x + y) % p) = 0
    <3>1. d + q \in Nat
      OBVIOUS
    <3>. QED
      BY <2>3, <3>1, Multiple
  <2>5. ASSUME x < y PROVE x + p <= y
    <3>1. ~(q <= d)
      <4> SUFFICES ASSUME q <= d PROVE FALSE
        OBVIOUS
      <4>1. p * q <= p * d
        OBVIOUS
      <4> QED BY <4>1, <2>1, <2>2, <2>5
    <3>2. p * (d + 1) <= p * q
      BY <3>1
    <3>. QED
      BY <3>2, <2>1, <2>2
  <2>. QED
    BY <2>4, <2>5
<1>. QED
  BY <1>3, <1>4

\* The boundaries behind the heap, and those of them that are not below the
\* text offset of the kernel.
KernelStart == (PROGAMIMAGE_START + kernel.text) % W
Rooms       == {x \in Addresses : x % Boundary = 0 /\ x >= mem_block_end}
Above       == {x \in Rooms : x >= KernelStart}

\* Where the loop of kmain is on its way to Spot: it has not passed the boundary
\* that it looks for, or there was none and it has begun again at address 0.
OnTheWay(address) ==
  /\ address \in Addresses /\ address % Boundary = 0
  /\ \/ address >= KernelStart /\ \A x \in Above : x >= address
     \/ Above = {} /\ \A x \in Rooms : x >= address

\* A boundary and the number of addresses are multiples of Boundary.
LEMMA BoundaryNumbers ==
  ASSUME NEW x \in Addresses, x % Boundary = 0
  PROVE  x \in Nat /\ x + Boundary <= W
<1>1. x \in Nat /\ x < W /\ (W % Boundary) = 0
  BY Numbers, LoadAssumption DEF Addresses
<1>. QED
  BY <1>1, Numbers, Multiples

\* One boundary on.
LEMMA BoundaryAfter ==
  ASSUME NEW x \in Addresses, x % Boundary = 0
  PROVE  /\ ((x + Boundary) % W) \in Addresses
         /\ (((x + Boundary) % W) % Boundary) = 0
         /\ ((x + Boundary) % W) = (IF x + Boundary = W THEN 0 ELSE x + Boundary)
<1>1. x \in Nat /\ x + Boundary <= W
  BY BoundaryNumbers
<1>2. Boundary % Boundary = 0 /\ W % W = 0 /\ 0 % Boundary = 0
  BY Numbers
<1>3. ((x + Boundary) % Boundary) = 0
  BY <1>1, <1>2, Numbers, Multiples
<1>4. ((x + Boundary) % W) = (IF x + Boundary = W THEN 0 ELSE x + Boundary)
  <2> DEFINE y == x + Boundary
  <2>1. y \in Nat /\ y <= W
    BY <1>1, Numbers
  <2> HIDE DEF y
  <2>2. (y % W) = (IF y = W THEN 0 ELSE y)
    BY <2>1, <1>2, Remainders, Numbers
  <2>. QED
    BY <2>2 DEF y
<1>5. ((x + Boundary) % W) \in Addresses
  BY <1>1, Remainders, Numbers
<1>. QED
  BY <1>2, <1>3, <1>4, <1>5

\* PlaceKernel rounds the text offset up to a boundary.
LEMMA PlaceBegins ==
  ASSUME BootInv
  PROVE  LET over == KernelStart % Boundary
         IN  OnTheWay((IF over = 0 THEN KernelStart ELSE (KernelStart - over) + Boundary) % W)
<1> DEFINE over == KernelStart % Boundary
           down == KernelStart - over
<1>1. KernelStart \in Addresses /\ KernelStart \in Nat
  BY Sizes, Numbers, Remainders DEF KernelStart, Addresses
<1>2. over \in 0..(Boundary - 1) /\ down \in Nat /\ (down % Boundary) = 0
  BY <1>1, Quotient, Multiples, Numbers
<1>3. \A x \in Rooms : x \in Nat /\ (x % Boundary) = 0
  BY DEF Rooms, Addresses
<1>4. CASE over = 0
  <2>1. (KernelStart % W) = KernelStart
    BY <1>1, Remainders, Numbers DEF Addresses
  <2>. QED
    BY <1>1, <1>4, <2>1 DEF OnTheWay, Above
<1>5. CASE over # 0
  <2>1. down \in Addresses /\ down < KernelStart
    <3> HIDE DEF over
    <3> QED BY <1>1, <1>2, <1>5, Numbers DEF Addresses
  <2>2. down + Boundary >= KernelStart
    <3> HIDE DEF over
    <3> QED BY <1>1, <1>2, Numbers
  <2>3. \A x \in Above : x \in Nat /\ x >= down + Boundary
    <3> SUFFICES ASSUME NEW x \in Above PROVE x \in Nat /\ x >= down + Boundary
      OBVIOUS
    <3>1. x \in Nat /\ (x % Boundary) = 0 /\ x >= KernelStart
      BY <1>3 DEF Above
    <3>2. x \in Nat /\ (x % Boundary) = 0 /\ down < x
      BY <3>1, <2>1, <1>1, <1>2
    <3> HIDE DEF down
    <3>. QED
      BY <3>2, <1>2, Numbers, Multiples
  <2>4. down + Boundary = W => Above = {}
    <3>1. \A x \in Above : x < W
      BY Numbers DEF Above, Rooms, Addresses
    <3> HIDE DEF down
    <3> QED BY <2>3, <3>1, Numbers
  <2>5. \A x \in Rooms : x >= 0
    BY <1>3
  <2> HIDE DEF down
  <2>6. OnTheWay((down + Boundary) % W)
    BY <2>1, <1>2, <2>2, <2>3, <2>4, <2>5, BoundaryAfter DEF OnTheWay
  <2>. QED
    BY <2>6, <1>5 DEF down
<1>. QED
  BY <1>4, <1>5

\* A pass of the loop goes on to the next boundary, as the last one was too low.
LEMMA PlaceGoesOn ==
  ASSUME BootInv, NEW address, OnTheWay(address), address < mem_block_end
  PROVE  OnTheWay((address + Boundary) % W)
<1> DEFINE next == (address + Boundary) % W
<1>1. address \in Addresses /\ (address % Boundary) = 0 /\ address \in Nat
  BY DEF OnTheWay, Addresses
<1>2. /\ next \in Addresses /\ (next % Boundary) = 0
      /\ next = (IF address + Boundary = W THEN 0 ELSE address + Boundary)
  BY <1>1, BoundaryAfter
<1>3. \A x \in Rooms : x \in Nat /\ (x % Boundary) = 0 /\ x < W /\ x >= mem_block_end
  BY Numbers DEF Rooms, Addresses
<1>4. ASSUME NEW x \in Rooms, x >= address PROVE x >= address + Boundary
  <2>1. x \in Nat /\ (x % Boundary) = 0 /\ address < x
    BY <1>1, <1>3, <1>4, Numbers
  <2>. QED
    BY <1>1, <2>1, Numbers, Multiples
<1> HIDE DEF next
<1>5. CASE address >= KernelStart /\ \A x \in Above : x >= address
  <2>1. \A x \in Above : x \in Rooms /\ x >= address + Boundary
    BY <1>4, <1>5 DEF Above
  <2>2. CASE address + Boundary = W
    <3>1. Above = {}
      BY <2>1, <2>2, <1>3, Numbers
    <3>2. \A x \in Rooms : x >= next
      BY <1>2, <1>3, <2>2
    <3>. QED
      BY <3>1, <3>2, <1>2 DEF OnTheWay, next
  <2>3. CASE address + Boundary # W
    <3>1. next = address + Boundary /\ KernelStart \in Nat
      BY <1>2, <2>3, Sizes, Numbers, Remainders DEF KernelStart, Addresses
    <3>2. next >= KernelStart
      BY <3>1, <1>1, <1>5, Numbers
    <3>. QED
      BY <2>1, <3>1, <3>2, <1>2 DEF OnTheWay, next
  <2>. QED
    BY <2>2, <2>3
<1>6. CASE Above = {} /\ \A x \in Rooms : x >= address
  <2>1. \A x \in Rooms : x >= next
    BY <1>2, <1>3, <1>4, <1>6
  <2>. QED
    BY <2>1, <1>2, <1>6 DEF OnTheWay, next
<1>. QED
  BY <1>5, <1>6 DEF OnTheWay

\* The least number of a set.
LEMMA LeastIs ==
  ASSUME NEW S \in SUBSET Int, NEW x \in S, \A y \in S : x <= y
  PROVE  LeastOf(S) = x
<1>1. LeastOf(S) \in S /\ \A y \in S : LeastOf(S) <= y
  BY DEF LeastOf
<1>2. LeastOf(S) <= x /\ x <= LeastOf(S) /\ x \in Int /\ LeastOf(S) \in Int
  BY <1>1
<1>. QED
  BY <1>2

\* The loop ends at Spot.
LEMMA PlaceEnds ==
  ASSUME BootInv, NEW address, OnTheWay(address), address >= mem_block_end
  PROVE  /\ address = Spot
         /\ address \in Addresses /\ (address % Boundary) = 0
<1>1. address \in Rooms
  BY DEF OnTheWay, Rooms
<1>2. Rooms \in SUBSET Int /\ Above \in SUBSET Int
  BY Numbers DEF Rooms, Above, Addresses
<1>3. Spot = LeastOf(IF Above = {} THEN Rooms ELSE Above)
  BY DEF Spot, Rooms, Above, KernelStart
<1>4. CASE address >= KernelStart /\ \A x \in Above : x >= address
  <2>1. address \in Above
    BY <1>1, <1>4 DEF Above
  <2>2. \A x \in Above : address <= x
    BY <1>2, <1>4, <2>1
  <2>3. LeastOf(Above) = address
    BY <1>2, <2>1, <2>2, LeastIs
  <2>. QED
    BY <1>3, <2>1, <2>3 DEF OnTheWay
<1>5. CASE Above = {} /\ \A x \in Rooms : x >= address
  <2>1. \A x \in Rooms : address <= x
    BY <1>1, <1>2, <1>5
  <2>2. LeastOf(Rooms) = address
    BY <1>1, <1>2, <2>1, LeastIs
  <2>. QED
    BY <1>3, <1>5, <2>2 DEF OnTheWay
<1>. QED
  BY <1>4, <1>5 DEF OnTheWay

-----------------------------------------------------------------------------
(***************************************************************************)
(* The invariant: place by place, where the files are located and placed,  *)
(* and which copies the memory is the result of.                           *)
(***************************************************************************)

InitrdBrought == init_reg_a1 # 0 /\ initrd_start # 0

\* Where kmain copies from and to, and how much.
KernelSource  == IF HasNextAddr THEN fw_dyninfo.next_addr ELSE Flash["kernel"]
KernelLength  == IF HasNextAddr THEN kernel.image ELSE kernel.file
DtbBase       == IF init_reg_a1 = 0 THEN Spot + kernel.image + DtbAlign ELSE init_reg_a1
DtbAddress    == DtbBase - (DtbBase % DtbAlign)
InitramfsBase == IF InitrdBrought THEN initrd_start ELSE INITRAMFS
BssCells      == Cells(Spot + kernel.file, kernel.image - kernel.file)

\* The memory after one copy after the other, and after the kernel has cleared
\* its own.
KernelMemory == memcpy(FirstMemory, Spot, KernelSource, KernelLength)
DtbMemory ==
  IF init_reg_a1 = 0 THEN memcpy(KernelMemory, DtbAddress, Flash["dtb"], DtbSize)
                     ELSE KernelMemory
InitramfsMemory ==
  IF InitrdBrought THEN DtbMemory
                   ELSE memcpy(DtbMemory, INITRAMFS, Flash["initramfs"], InitramfsSize)
LastMemory ==
  [x \in Addresses |-> IF x \in BssCells \cap RAM THEN <<"bss", 0>> ELSE InitramfsMemory[x]]

Located(file, brought, address) ==
  IF brought THEN file \notin from_cpio /\ ptr[file] = address
             ELSE file \in from_cpio /\ file \in archive /\ ptr[file] = Flash[file]

FilesInv ==
  /\ ptr \in [Files -> Int]
  /\ place = "kernel" => from_cpio = {}
  /\ place = "dtb" => from_cpio \subseteq {"kernel"}
  /\ place = "initramfs" => from_cpio \subseteq {"kernel", "dtb"}
  /\ place = "halt" => Missing # {}
  /\ place \notin {"halt", "kernel"} => Located("kernel", HasNextAddr, fw_dyninfo.next_addr)
  /\ place \notin {"halt", "kernel", "dtb"} => Located("dtb", init_reg_a1 # 0, init_reg_a1)
  /\ place \notin {"halt", "kernel", "dtb", "initramfs"} =>
       Located("initramfs", InitrdBrought, initrd_start)

PlacesInv ==
  /\ load \in [Files -> Int]
  /\ place = "behind" => OnTheWay(load["kernel"])
  /\ place \in {"copy_dtb", "copy_initramfs", "start", "started", "runs"} =>
       load["kernel"] = Spot /\ Spot \in Addresses /\ Spot >= mem_block_end
  /\ place \in {"copy_initramfs", "start", "started", "runs"} => load["dtb"] = DtbAddress % W
  /\ place \in {"start", "started", "runs"} => load["initramfs"] = InitramfsBase % W
  /\ place \in {"started", "runs"} =>
       command.param1 = load["kernel"] /\ command.param2 = load["dtb"]

MemoryInv ==
  /\ place \in {"kernel", "dtb", "initramfs", "place", "behind"} => mem = FirstMemory
  /\ place = "copy_dtb" => mem = KernelMemory
  /\ place = "copy_initramfs" => mem = DtbMemory
  /\ place \in {"start", "started"} => mem = InitramfsMemory
  /\ place = "runs" => mem = LastMemory

LoadInv == BootInv /\ FilesInv /\ PlacesInv /\ MemoryInv

\* A step that leaves the inputs of the boot alone leaves what follows from them.
LEMMA InputsStay ==
  ASSUME UNCHANGED boot
  PROVE  /\ HasNextAddr' = HasNextAddr /\ InitrdBrought' = InitrdBrought
         /\ (fw_dyninfo.next_addr)' = fw_dyninfo.next_addr
         /\ (kernel.file)' = kernel.file /\ (kernel.image)' = kernel.image
         /\ init_reg_a1' = init_reg_a1 /\ initrd_start' = initrd_start /\ archive' = archive
         /\ BootInv' = BootInv /\ Missing' = Missing
         /\ Spot' = Spot /\ DtbAddress' = DtbAddress /\ InitramfsBase' = InitramfsBase
         /\ KernelStart' = KernelStart /\ Above' = Above
         /\ FirstMemory' = FirstMemory /\ KernelMemory' = KernelMemory
         /\ DtbMemory' = DtbMemory /\ InitramfsMemory' = InitramfsMemory
         /\ LastMemory' = LastMemory
<1>1. /\ kernel' = kernel /\ fw_dyninfo' = fw_dyninfo /\ init_reg_a1' = init_reg_a1
      /\ initrd_start' = initrd_start /\ archive' = archive
  BY DEF boot
<1>2. HasNextAddr' = HasNextAddr /\ InitrdBrought' = InitrdBrought
  BY <1>1 DEF HasNextAddr, InitrdBrought
<1>3. Brought' = Brought
  BY <1>1, <1>2 DEF Brought
<1>4. BootInv' = BootInv /\ Missing' = Missing
  BY <1>1, <1>3 DEF BootInv, BroughtWell, BroughtCells, Size, Missing
<1>5. Spot' = Spot /\ KernelStart' = KernelStart /\ Above' = Above
  BY <1>1 DEF Spot, KernelStart, Above
<1>6. FirstMemory' = FirstMemory
  BY <1>1, <1>3 DEF FirstMemory, InRAM, InFlash, BroughtCells, Size
<1>7. DtbAddress' = DtbAddress /\ InitramfsBase' = InitramfsBase
  BY <1>1, <1>2, <1>5 DEF DtbAddress, DtbBase, InitramfsBase
<1>8. KernelMemory' = KernelMemory
  BY <1>1, <1>2, <1>5, <1>6 DEF KernelMemory, KernelSource, KernelLength
<1>9. DtbMemory' = DtbMemory
  BY <1>1, <1>7, <1>8 DEF DtbMemory
<1>10. InitramfsMemory' = InitramfsMemory
  BY <1>2, <1>9 DEF InitramfsMemory
<1>11. BssCells' = BssCells
  BY <1>1, <1>5 DEF BssCells
<1>12. LastMemory' = LastMemory
  BY <1>10, <1>11 DEF LastMemory
<1>. QED
  BY <1>1, <1>2, <1>4, <1>5, <1>6, <1>7, <1>8, <1>9, <1>10, <1>12

\* A boot begins with nothing located and the memory that the loader left.
LEMMA InitLoadInv == Init => LoadInv
<1> SUFFICES ASSUME Init PROVE LoadInv
  OBVIOUS
<1>1. BootInv
  BY DEF Init, BootInv
<1>2. FilesInv /\ PlacesInv /\ MemoryInv
  BY DEF Init, FilesInv, PlacesInv, MemoryInv
<1>. QED
  BY <1>1, <1>2 DEF LoadInv

\* Locating a file, or not, changes neither memory nor places.
LEMMA LocateStep ==
  ASSUME LoadInv, LocateKernel \/ LocateDtb \/ LocateInitramfs \/ Halt
  PROVE  LoadInv'
<1>1. UNCHANGED <<boot, mem, load, command>>
  BY DEF LocateKernel, LocateDtb, LocateInitramfs, Halt, UnchangedMemory
<1>2. UNCHANGED boot
  BY <1>1
<1>3. BootInv' /\ BootInv
  BY <1>2, InputsStay DEF LoadInv
<1>4. place \in {"kernel", "dtb", "initramfs"} /\ place' \in {"dtb", "initramfs", "place", "halt"}
  BY DEF LocateKernel, LocateDtb, LocateInitramfs, Halt, Go
<1>5. MemoryInv'
  BY <1>1, <1>2, <1>4, InputsStay DEF LoadInv, MemoryInv
<1>6. PlacesInv'
  BY <1>1, <1>4 DEF LoadInv, PlacesInv
<1>7. /\ fw_dyninfo.next_addr \in Int /\ init_reg_a1 \in Int /\ initrd_start \in Int
      /\ Flash \in [Files -> Int]
  BY <1>3, LoadAssumption, Numbers DEF BootInv, Addresses
<1>8. FilesInv'
  <2>1. CASE LocateKernel
    BY <2>1, <1>2, <1>7, InputsStay
    DEF LoadInv, FilesInv, Located, LocateKernel, Locate, LocateInCpio, Go, Files
  <2>2. CASE LocateDtb
    BY <2>2, <1>2, <1>7, InputsStay
    DEF LoadInv, FilesInv, Located, LocateDtb, Locate, LocateInCpio, Go, Files
  <2>3. CASE LocateInitramfs
    BY <2>3, <1>2, <1>3, <1>7, InputsStay
    DEF LoadInv, FilesInv, Located, LocateInitramfs, Locate, LocateInCpio, Go, Files,
        InitrdNamed, InitrdBrought
  <2>4. CASE Halt
    <3>1. Missing # {}
      <4>1. CASE place = "kernel" /\ ~HasNextAddr /\ "kernel" \notin archive
        BY <4>1, <1>3, BroughtFiles DEF Missing, Files
      <4>2. CASE place = "dtb" /\ init_reg_a1 = 0 /\ "dtb" \notin archive
        BY <4>2, <1>3, BroughtFiles DEF Missing, Files
      <4>3. CASE place = "initramfs" /\ ~InitrdNamed /\ "initramfs" \notin archive
        <5>1. ~InitrdBrought
          BY <4>3 DEF LoadInv, FilesInv, Located, InitrdNamed, InitrdBrought
        <5>. QED
          BY <4>3, <5>1, <1>3, BroughtFiles DEF Missing, Files, InitrdBrought
      <4>. QED
        BY <4>1, <4>2, <4>3, <2>4 DEF Halt
    <3>. QED
      BY <3>1, <2>4, <1>2, InputsStay DEF LoadInv, FilesInv, Halt
  <2>. QED
    BY <2>1, <2>2, <2>3, <2>4
<1>. QED
  BY <1>3, <1>5, <1>6, <1>8 DEF LoadInv

\* Once the files are located, they stay so.
LEMMA StillLocated ==
  ASSUME FilesInv, UNCHANGED <<boot, ptr, from_cpio>>,
         place \notin {"kernel", "dtb", "initramfs", "halt"},
         place' \notin {"kernel", "dtb", "initramfs", "halt"}
  PROVE  FilesInv'
<1>1. UNCHANGED boot
  OBVIOUS
<1>. QED
  BY <1>1, InputsStay DEF FilesInv, Located

\* The steps that look for room keep the invariant.
LEMMA PlaceStep ==
  ASSUME LoadInv, PlaceKernel \/ NextBoundary
  PROVE  LoadInv'
<1>1. UNCHANGED <<boot, mem, ptr, from_cpio, command>> /\ UNCHANGED boot
  BY DEF PlaceKernel, NextBoundary
<1>2. BootInv' /\ BootInv
  BY <1>1, InputsStay DEF LoadInv
<1>3. place \in {"place", "behind"} /\ place' = "behind"
  BY DEF PlaceKernel, NextBoundary, Go
<1>4. MemoryInv'
  BY <1>1, <1>3, InputsStay DEF LoadInv, MemoryInv
<1>5. FilesInv'
  BY <1>1, <1>3, StillLocated DEF LoadInv
<1>6. \A x : OnTheWay(x) => x \in Int
  BY Numbers DEF OnTheWay, Addresses
<1>7. \A x : OnTheWay(x) <=> OnTheWay(x)'
  BY <1>1, InputsStay DEF OnTheWay
<1>8. \E x : OnTheWay(x) /\ load' = [load EXCEPT !["kernel"] = x]
  <2>1. CASE PlaceKernel
    <3> DEFINE over == KernelStart % Boundary
               x == (IF over = 0 THEN KernelStart ELSE (KernelStart - over) + Boundary) % W
    <3>1. load' = [load EXCEPT !["kernel"] = x]
      BY <2>1 DEF PlaceKernel, PlaceAt, KernelStart
    <3>2. OnTheWay(x)
      BY <1>2, PlaceBegins
    <3>. QED
      BY <3>1, <3>2
  <2>2. CASE NextBoundary
    <3>1. OnTheWay(load["kernel"]) /\ load["kernel"] < mem_block_end
      BY <2>2 DEF NextBoundary, LoadInv, PlacesInv
    <3>2. OnTheWay((load["kernel"] + Boundary) % W)
      BY <3>1, <1>2, PlaceGoesOn
    <3>. QED
      BY <3>2, <2>2 DEF NextBoundary, PlaceAt
  <2>. QED
    BY <2>1, <2>2
<1>9. PICK x : OnTheWay(x) /\ load' = [load EXCEPT !["kernel"] = x]
  BY <1>8
<1>10. load' \in [Files -> Int] /\ load'["kernel"] = x
  BY <1>6, <1>9 DEF LoadInv, PlacesInv, Files
<1>11. OnTheWay(load["kernel"])'
  BY <1>1, <1>9, <1>10, InputsStay DEF OnTheWay
<1>12. PlacesInv'
  BY <1>3, <1>10, <1>11 DEF PlacesInv
<1>. QED
  BY <1>2, <1>4, <1>5, <1>12 DEF LoadInv

\* The copy of the kernel goes from where it was located to Spot.
LEMMA CopyKernelStep ==
  ASSUME LoadInv, CopyKernel
  PROVE  LoadInv'
<1>1. UNCHANGED <<boot, ptr, from_cpio>> /\ UNCHANGED boot /\ load' = load
      /\ place = "behind" /\ place' = "copy_dtb"
  BY DEF CopyKernel, Go
<1>2. BootInv' /\ BootInv
  BY <1>1, InputsStay DEF LoadInv
<1>3. FilesInv'
  BY <1>1, StillLocated DEF LoadInv
<1>4. load["kernel"] = Spot /\ Spot \in Addresses /\ Spot >= mem_block_end
  <2>1. OnTheWay(load["kernel"]) /\ load["kernel"] >= mem_block_end
    BY <1>1 DEF CopyKernel, LoadInv, PlacesInv
  <2>. QED
    BY <2>1, <1>2, PlaceEnds
<1>5. PlacesInv'
  BY <1>1, <1>4, InputsStay DEF LoadInv, PlacesInv
<1>6. mem' = KernelMemory
  <2>1. Located("kernel", HasNextAddr, fw_dyninfo.next_addr) /\ mem = FirstMemory
    BY <1>1 DEF LoadInv, FilesInv, MemoryInv
  <2>2. /\ ptr["kernel"] = KernelSource
        /\ (IF "kernel" \in from_cpio THEN kernel.file ELSE kernel.image) = KernelLength
    BY <2>1 DEF Located, KernelSource, KernelLength
  <2>. QED
    BY <2>1, <2>2, <1>4 DEF CopyKernel, KernelMemory
<1>7. MemoryInv'
  BY <1>1, <1>6, InputsStay DEF MemoryInv
<1>. QED
  BY <1>2, <1>3, <1>5, <1>7 DEF LoadInv

\* The device tree goes behind the kernel if it is of the archive.
LEMMA CopyDtbStep ==
  ASSUME LoadInv, CopyDtb
  PROVE  LoadInv'
<1>1. UNCHANGED <<boot, ptr, from_cpio>> /\ UNCHANGED boot
      /\ place = "copy_dtb" /\ place' = "copy_initramfs"
  BY DEF CopyDtb, CopyDtbBehind, Go
<1>2. BootInv'
  BY <1>1, InputsStay DEF LoadInv
<1>3. FilesInv'
  BY <1>1, StillLocated DEF LoadInv
<1>4. /\ load["kernel"] = Spot /\ Spot \in Addresses /\ Spot >= mem_block_end
      /\ Located("dtb", init_reg_a1 # 0, init_reg_a1) /\ mem = KernelMemory
      /\ load \in [Files -> Int]
  BY <1>1 DEF LoadInv, FilesInv, PlacesInv, MemoryInv
<1>5. "dtb" \in from_cpio <=> init_reg_a1 = 0
  BY <1>4 DEF Located
<1>6. DtbBase = IF "dtb" \in from_cpio THEN load["kernel"] + kernel.image + DtbAlign ELSE init_reg_a1
  BY <1>4, <1>5 DEF DtbBase
<1>7. load' = [load EXCEPT !["dtb"] = DtbAddress % W]
  BY <1>6 DEF CopyDtb, CopyDtbBehind, PlaceAt, DtbAddress
<1>8. mem' = DtbMemory
  <2>1. mem' = IF "dtb" \in from_cpio THEN memcpy(mem, DtbAddress, ptr["dtb"], DtbSize) ELSE mem
    BY <1>6 DEF CopyDtb, CopyDtbBehind, DtbAddress
  <2>. QED
    BY <2>1, <1>4, <1>5 DEF DtbMemory, Located
<1>9. DtbBase \in Nat
  BY <1>2, <1>4, Sizes, Numbers, LoadAssumption DEF DtbBase, LoadInv, BootInv, Addresses
<1>10. DtbAddress \in Nat
  BY <1>9, Multiples, Numbers DEF DtbAddress
<1>11. DtbAddress % W \in Int
  BY <1>10, Remainders, Numbers DEF Addresses
<1>12. PlacesInv'
  <2>1. /\ load' \in [Files -> Int] /\ load'["kernel"] = load["kernel"]
        /\ load'["dtb"] = DtbAddress % W
    BY <1>4, <1>7, <1>11 DEF Files
  <2>. QED
    BY <2>1, <1>1, <1>4, InputsStay DEF PlacesInv
<1>13. MemoryInv'
  BY <1>1, <1>8, InputsStay DEF MemoryInv
<1>. QED
  BY <1>2, <1>3, <1>12, <1>13 DEF LoadInv

\* The initramfs goes to its address if it is of the archive.
LEMMA CopyInitramfsStep ==
  ASSUME LoadInv, CopyInitramfs
  PROVE  LoadInv'
<1>1. UNCHANGED <<boot, ptr, from_cpio>> /\ UNCHANGED boot
      /\ place = "copy_initramfs" /\ place' = "start"
  BY DEF CopyInitramfs, Go
<1>2. BootInv' /\ BootInv
  BY <1>1, InputsStay DEF LoadInv
<1>3. FilesInv'
  BY <1>1, StillLocated DEF LoadInv
<1>4. /\ load["kernel"] = Spot /\ Spot \in Addresses /\ Spot >= mem_block_end
      /\ load["dtb"] = DtbAddress % W
      /\ Located("initramfs", InitrdBrought, initrd_start) /\ mem = DtbMemory
      /\ load \in [Files -> Int]
  BY <1>1 DEF LoadInv, FilesInv, PlacesInv, MemoryInv
<1>5. "initramfs" \in from_cpio <=> ~InitrdBrought
  BY <1>4 DEF Located
<1>6. load' = [load EXCEPT !["initramfs"] = InitramfsBase % W]
  BY <1>4, <1>5 DEF CopyInitramfs, PlaceAt, InitramfsBase, Located
<1>7. mem' = InitramfsMemory
  BY <1>4, <1>5 DEF CopyInitramfs, InitramfsMemory, Located
<1>8. InitramfsBase \in Nat
  BY <1>2, Numbers, LoadAssumption DEF InitramfsBase, BootInv, Addresses
<1>9. InitramfsBase % W \in Int
  BY <1>8, Remainders, Numbers DEF Addresses
<1>10. PlacesInv'
  <2>1. /\ load' \in [Files -> Int] /\ load'["kernel"] = load["kernel"]
        /\ load'["dtb"] = load["dtb"] /\ load'["initramfs"] = InitramfsBase % W
    BY <1>4, <1>6, <1>9 DEF Files
  <2>. QED
    BY <2>1, <1>1, <1>4, InputsStay DEF PlacesInv
<1>11. MemoryInv'
  BY <1>1, <1>7, InputsStay DEF MemoryInv
<1>. QED
  BY <1>2, <1>3, <1>10, <1>11 DEF LoadInv

\* The kernel is started at Spot, and clears its own memory.
LEMMA StartStep ==
  ASSUME LoadInv, Start \/ KernelClears
  PROVE  LoadInv'
<1>1. /\ UNCHANGED <<boot, ptr, from_cpio>> /\ UNCHANGED boot /\ load' = load
      /\ \/ place = "start" /\ place' = "started"
         \/ place = "started" /\ place' = "runs" /\ command' = command
  BY DEF Start, KernelClears, Go
<1>2. BootInv'
  BY <1>1, InputsStay DEF LoadInv
<1>3. FilesInv'
  BY <1>1, StillLocated DEF LoadInv
<1>4. PlacesInv'
  <2>1. CASE Start
    BY <2>1, <1>1, InputsStay DEF LoadInv, PlacesInv, Start, Go
  <2>2. CASE KernelClears
    BY <2>2, <1>1, InputsStay DEF LoadInv, PlacesInv, KernelClears, Go
  <2>. QED
    BY <2>1, <2>2
<1>5. MemoryInv'
  <2>1. CASE Start
    BY <2>1, <1>1, InputsStay DEF LoadInv, MemoryInv, Start, Go
  <2>2. CASE KernelClears
    <3>1. command.param1 = Spot /\ mem = InitramfsMemory /\ place' = "runs"
      BY <2>2 DEF LoadInv, PlacesInv, MemoryInv, KernelClears, Go
    <3>2. Bss = BssCells
      BY <3>1 DEF Bss, BssCells
    <3>3. mem' = LastMemory
      BY <3>1, <3>2, <2>2 DEF KernelClears, LastMemory
    <3>. QED
      BY <3>1, <3>3, <1>1, InputsStay DEF MemoryInv
  <2>. QED
    BY <2>1, <2>2
<1>. QED
  BY <1>2, <1>3, <1>4, <1>5 DEF LoadInv

\* Every step keeps the invariant.
LEMMA NextLoadInv == LoadInv /\ [Next]_vars => LoadInv'
<1> SUFFICES ASSUME LoadInv, [Next]_vars PROVE LoadInv'
  OBVIOUS
<1>1. CASE UNCHANGED vars
  <2>1. UNCHANGED boot /\ UNCHANGED <<place, mem, ptr, from_cpio, load, command>>
    BY <1>1 DEF vars, boot
  <2>2. BootInv'
    BY <2>1, InputsStay DEF LoadInv
  <2>3. FilesInv'
    BY <2>1, InputsStay DEF LoadInv, FilesInv, Located
  <2>4. PlacesInv'
    BY <2>1, InputsStay DEF LoadInv, PlacesInv, OnTheWay
  <2>5. MemoryInv'
    BY <2>1, InputsStay DEF LoadInv, MemoryInv
  <2>. QED
    BY <2>2, <2>3, <2>4, <2>5 DEF LoadInv
<1>2. CASE Next
  BY <1>2, LocateStep, PlaceStep, CopyKernelStep, CopyDtbStep, CopyInitramfsStep, StartStep
  DEF Next
<1>. QED
  BY <1>1, <1>2

\* For any memory, files and loader: kmain locates, places and copies as the
\* invariant says.
THEOREM LoadInvariant == Spec => []LoadInv
  BY InitLoadInv, NextLoadInv, PTL DEF Spec

-----------------------------------------------------------------------------
(***************************************************************************)
(* The memory that the kernel finds                                        *)
(***************************************************************************)

\* The inputs of a boot that reaches the kernel.
Run == BootInv /\ Missing = {} /\ Spot \in Addresses /\ Spot >= mem_block_end

\* What a boot that reaches the kernel copies.
LEMMA Copies ==
  ASSUME Run
  PROVE  /\ Spot \in Nat /\ Spot > PROGAMIMAGE_START
         /\ KernelSource \in Nat /\ KernelLength \in kernel.file..kernel.image
         /\ init_reg_a1 = 0 => "dtb" \in archive
         /\ ~InitrdBrought => "initramfs" \in archive
         /\ ~HasNextAddr => "kernel" \in archive
         /\ DtbBase \in Nat /\ DtbAddress \in Nat
         /\ InitramfsBase \in Addresses /\ InitramfsBase >= PROGAMIMAGE_START
         /\ InitramfsSpot = InitramfsBase
<1>1. BootInv /\ Spot \in Nat /\ Spot > PROGAMIMAGE_START
  BY Numbers DEF Run, Addresses
<1>2. /\ fw_dyninfo.next_addr \in Nat /\ init_reg_a1 \in Nat
      /\ initrd_start \in Addresses
  BY <1>1, LoadAssumption, Numbers DEF BootInv, Addresses
<1>3. KernelSource \in Nat
  BY <1>1, <1>2, Archived DEF KernelSource, Files
<1>4. KernelLength \in kernel.file..kernel.image
  BY <1>1, Sizes DEF KernelLength
<1>5. /\ init_reg_a1 = 0 => "dtb" \in archive
      /\ ~InitrdBrought => "initramfs" \in archive
      /\ ~HasNextAddr => "kernel" \in archive
  BY <1>1, BroughtFiles DEF Run, Missing, Files, InitrdBrought
<1>6. DtbBase \in Nat
  BY <1>1, <1>2, Sizes, Numbers DEF DtbBase
<1>7. DtbAddress \in Nat
  BY <1>6, Multiples, Numbers DEF DtbAddress
<1>8. InitramfsSpot = InitramfsBase
  BY <1>1, BroughtFiles DEF InitramfsSpot, InitramfsBase, InitrdBrought
<1>9. InitrdBrought => initrd_start \in RAM
  <2> SUFFICES ASSUME InitrdBrought PROVE initrd_start \in RAM
    OBVIOUS
  <2>1. "initramfs" \in DOMAIN Brought /\ Brought["initramfs"] = initrd_start
    BY <1>1, BroughtFiles DEF InitrdBrought
  <2>2. initrd_start \in BroughtCells("initramfs")
    <3>1. BroughtCells("initramfs") = initrd_start..(initrd_start + Size("initramfs") - 1)
      BY <1>1, <2>1, BroughtFiles
    <3>2. Size("initramfs") \in Nat \ {0} /\ initrd_start \in Nat
      BY <1>1, <1>2, Sizes, Numbers DEF Addresses
    <3>. QED
      BY <3>1, <3>2
  <2>. QED
    BY <2>1, <2>2, <1>1, BroughtFiles
<1>10. InitramfsBase \in Addresses /\ InitramfsBase >= PROGAMIMAGE_START
  BY <1>9, RAMIsAddressed, Numbers DEF InitramfsBase, RAM
<1>. QED
  BY <1>1, <1>3, <1>4, <1>5, <1>6, <1>7, <1>8, <1>10

\* What the copies of device tree and initramfs may change.
DtbTarget       == IF init_reg_a1 = 0 THEN Cells(DtbAddress, DtbSize) ELSE {}
InitramfsTarget == IF InitrdBrought THEN {} ELSE Cells(INITRAMFS, InitramfsSize)

\* Each copy changes its target in RAM, and the kernel clears its own.
LEMMA LastMemoryAt ==
  ASSUME Run
  PROVE  /\ FirstMemory \in Memories /\ KernelMemory \in Memories
         /\ DtbMemory \in Memories /\ InitramfsMemory \in Memories
         /\ \A x \in Addresses :
              /\ x \notin RAM => KernelMemory[x] = FirstMemory[x]
              /\ x \notin RAM => DtbMemory[x] = FirstMemory[x]
              /\ x \notin RAM => LastMemory[x] = FirstMemory[x]
              /\ x \notin Cells(Spot, KernelLength) => KernelMemory[x] = FirstMemory[x]
              /\ x \notin DtbTarget => DtbMemory[x] = KernelMemory[x]
              /\ x \notin InitramfsTarget => InitramfsMemory[x] = DtbMemory[x]
              /\ x \notin BssCells => LastMemory[x] = InitramfsMemory[x]
              /\ x \in BssCells /\ x \in RAM => LastMemory[x] = <<"bss", 0>>
<1>1. FirstMemory \in Memories
  BY FirstMemoryHas DEF Run
<1>2. /\ Spot \in Nat /\ KernelSource \in Nat /\ KernelLength \in Nat
      /\ DtbAddress \in Nat /\ INITRAMFS \in Nat
      /\ Flash["dtb"] \in Nat /\ Flash["initramfs"] \in Nat
      /\ DtbSize \in Nat /\ InitramfsSize \in Nat
  <2>1. BootInv
    BY DEF Run
  <2>2. KernelLength \in Nat
    BY <2>1, Copies, Sizes
  <2>3. Flash["dtb"] \in Nat /\ Flash["initramfs"] \in Nat
    BY <2>1, Archived DEF Files
  <2>4. INITRAMFS \in Nat /\ DtbSize \in Nat /\ InitramfsSize \in Nat
    BY Numbers DEF Addresses
  <2>. QED
    BY <2>2, <2>3, <2>4, Copies
<1>3. /\ KernelMemory \in Memories
      /\ \A x \in Addresses :
           x \notin RAM \/ x \notin Cells(Spot, KernelLength) => KernelMemory[x] = FirstMemory[x]
  BY <1>1, <1>2, CopyElsewhere DEF KernelMemory
<1>4. /\ DtbMemory \in Memories
      /\ \A x \in Addresses : x \notin RAM \/ x \notin DtbTarget => DtbMemory[x] = KernelMemory[x]
  <2>1. CASE init_reg_a1 = 0
    <3>1. DtbMemory = memcpy(KernelMemory, DtbAddress, Flash["dtb"], DtbSize)
          /\ DtbTarget = Cells(DtbAddress, DtbSize)
      BY <2>1 DEF DtbMemory, DtbTarget
    <3>2. /\ memcpy(KernelMemory, DtbAddress, Flash["dtb"], DtbSize) \in Memories
          /\ \A x \in Addresses :
               x \notin RAM \/ x \notin Cells(DtbAddress, DtbSize) =>
                 memcpy(KernelMemory, DtbAddress, Flash["dtb"], DtbSize)[x] = KernelMemory[x]
      <4> DEFINE source == Flash["dtb"]
      <4>1. source \in Nat
        BY <1>2
      <4> HIDE DEF source
      <4>2. /\ memcpy(KernelMemory, DtbAddress, source, DtbSize) \in Memories
            /\ \A x \in Addresses :
               x \notin RAM \/ x \notin Cells(DtbAddress, DtbSize) =>
                 memcpy(KernelMemory, DtbAddress, source, DtbSize)[x] = KernelMemory[x]
        BY <4>1, <1>2, <1>3, CopyElsewhere
      <4> QED
        BY <4>2 DEF source
    <3>. QED
      BY <3>1, <3>2
  <2>2. CASE init_reg_a1 # 0
    BY <2>2, <1>3 DEF DtbMemory
  <2>. QED
    BY <2>1, <2>2
<1>5. /\ InitramfsMemory \in Memories
      /\ \A x \in Addresses :
           x \notin RAM \/ x \notin InitramfsTarget => InitramfsMemory[x] = DtbMemory[x]
  <2>1. CASE ~InitrdBrought
    <3>1. InitramfsMemory = memcpy(DtbMemory, INITRAMFS, Flash["initramfs"], InitramfsSize)
          /\ InitramfsTarget = Cells(INITRAMFS, InitramfsSize)
      BY <2>1 DEF InitramfsMemory, InitramfsTarget
    <3>2. /\ memcpy(DtbMemory, INITRAMFS, Flash["initramfs"], InitramfsSize) \in Memories
          /\ \A x \in Addresses :
               x \notin RAM \/ x \notin Cells(INITRAMFS, InitramfsSize) =>
                 memcpy(DtbMemory, INITRAMFS, Flash["initramfs"], InitramfsSize)[x] = DtbMemory[x]
      <4> DEFINE source == Flash["initramfs"]
      <4>1. source \in Nat
        BY <1>2
      <4> HIDE DEF source
      <4>2. /\ memcpy(DtbMemory, INITRAMFS, source, InitramfsSize) \in Memories
            /\ \A x \in Addresses :
               x \notin RAM \/ x \notin Cells(INITRAMFS, InitramfsSize) =>
                 memcpy(DtbMemory, INITRAMFS, source, InitramfsSize)[x] = DtbMemory[x]
        BY <4>1, <1>2, <1>4, CopyElsewhere
      <4> QED
        BY <4>2 DEF source
    <3>. QED
      BY <3>1, <3>2
  <2>2. CASE InitrdBrought
    BY <2>2, <1>4 DEF InitramfsMemory
  <2>. QED
    BY <2>1, <2>2
<1>6. \A x \in Addresses :
        LastMemory[x] = IF x \in BssCells \cap RAM THEN <<"bss", 0>> ELSE InitramfsMemory[x]
  BY DEF LastMemory
<1>. QED
  BY <1>1, <1>3, <1>4, <1>5, <1>6

\* Only cells in RAM hold what was copied to them: a cell of a file that is not
\* where the archive has it is in RAM.
LEMMA CopiedIsInRAM ==
  ASSUME Run, NEW start \in Addresses, start >= PROGAMIMAGE_START,
         NEW f \in Files, NEW j \in 0..(Size(f) - 1),
         LastMemory[(start + j) % W] = <<f, j>>
  PROVE  (start + j) % W \in RAM
<1> DEFINE x == (start + j) % W
<1> SUFFICES ASSUME x \notin RAM PROVE FALSE
  OBVIOUS
<1>1. start \in Nat /\ j \in Nat /\ start < W /\ Size(f) \in Nat
  BY Sizes, Numbers DEF Run, Addresses
<1>2. x \in Addresses
  BY <1>1, Remainders
<1>3. FirstMemory[x] = <<f, j>>
  BY <1>2, LastMemoryAt
<1>4. x = Flash[f] + j /\ x < PROGAMIMAGE_START
  <2>1. j \in Int
    BY <1>1
  <2> HIDE DEF x
  <2>. QED
    BY <1>2, <1>3, <2>1, FirstMemoryOnly DEF Run
<1>5. Flash[f] \in Nat /\ Flash[f] + Size(f) <= PROGAMIMAGE_START
  BY Archived DEF Run
<1>6. j < W
  BY <1>1, <1>5, Numbers
<1>7. x = start + j \/ x = (start + j) - W
  <2> DEFINE y == start + j
  <2>1. y \in Nat /\ y < 2 * W
    BY <1>1, <1>6, Numbers
  <2>2. x = (y % W)
    OBVIOUS
  <2> HIDE DEF y, x
  <2>3. (y % W) = y \/ (y % W) = y - W
    BY <2>1, Numbers
  <2>4. x = y \/ x = y - W
    BY <2>2, <2>3
  <2>. QED
    BY <2>4 DEF y
<1> HIDE DEF x
<1>8. x # start + j
  BY <1>1, <1>4, <1>5, Numbers
<1>9. x # (start + j) - W
  BY <1>1, <1>4, <1>5, Numbers
<1>. QED
  BY <1>7, <1>8, <1>9

\* A kernel whose image is in RAM: nothing wraps around, and a device tree of the
\* archive goes behind it, to the boundary of DtbSpot.
LEMMA ImageInRAM ==
  ASSUME Run, Image \subseteq RAM
  PROVE  /\ Spot + kernel.image <= PROGAMIMAGE_START + MEMORY_AVAILABLE
         /\ Image = Spot..(Spot + kernel.image - 1)
         /\ BssCells = (Spot + kernel.file)..(Spot + kernel.image - 1)
         /\ Cells(Spot, KernelLength) \subseteq Image
         /\ init_reg_a1 = 0 => /\ DtbSpot = DtbAddress /\ DtbSpot % DtbAlign = 0
                               /\ DtbAddress > Spot /\ DtbAddress < W
<1>1. /\ Spot \in Nat /\ Spot \in Addresses
      /\ kernel.file \in Nat \ {0} /\ kernel.image \in Nat /\ kernel.file <= kernel.image
      /\ KernelLength \in kernel.file..kernel.image /\ KernelLength \in Nat
  BY Copies, Sizes DEF Run
<1>2. Spot + kernel.image <= W
  BY <1>1, CellsInRAMFollow DEF Image
<1>3. Image = Spot..(Spot + kernel.image - 1)
  BY <1>1, <1>2, CellsFollow DEF Image
<1>4. Spot + kernel.image <= PROGAMIMAGE_START + MEMORY_AVAILABLE
  <2>1. Spot + kernel.image - 1 \in RAM
    BY <1>1, <1>3
  <2>. QED
    BY <2>1, <1>1, Numbers DEF RAM
<1>5. BssCells = (Spot + kernel.file)..(Spot + kernel.image - 1)
  <2> DEFINE start == Spot + kernel.file
             n     == kernel.image - kernel.file
  <2>1. start \in Nat /\ n \in Nat /\ start + n = Spot + kernel.image
    BY <1>1
  <2> HIDE DEF start, n
  <2>2. Cells(start, n) = start..(start + n - 1)
    BY <2>1, <1>2, CellsFollow
  <2>3. Cells(start, n) = start..(Spot + kernel.image - 1)
    <3>1. start + n - 1 = Spot + kernel.image - 1
      BY <2>1, <1>1
    <3>. QED
      BY <2>2, <3>1
  <2>. QED
    BY <2>3 DEF BssCells, start, n
<1>6. Cells(Spot, KernelLength) \subseteq Image
  <2>1. Spot + KernelLength <= W
    BY <1>1, <1>2, Numbers
  <2>2. Cells(Spot, KernelLength) = Spot..(Spot + KernelLength - 1)
    BY <1>1, <2>1, CellsFollow
  <2>. QED
    BY <2>2, <1>1, <1>3
<1>7. ASSUME init_reg_a1 = 0
      PROVE  /\ DtbSpot = DtbAddress /\ DtbSpot % DtbAlign = 0
             /\ DtbAddress > Spot /\ DtbAddress < W
  <2> DEFINE b == Spot + kernel.image + DtbAlign
             r == b % DtbAlign
             q == b \div DtbAlign
  <2>1. b \in Nat /\ b < W /\ b >= Spot + 1 + DtbAlign
    BY <1>1, <1>4, Numbers
  <2>2. DtbAddress = b - r
    BY <1>7 DEF DtbAddress, DtbBase
  <2>3. DtbSpot = q * DtbAlign
    <3>1. "dtb" \notin DOMAIN Brought
      BY <1>7, BroughtFiles DEF Run
    <3>. QED
      BY <3>1 DEF DtbSpot
  <2> HIDE DEF b
  <2>4. r \in 0..(DtbAlign - 1) /\ ((b - r) % DtbAlign) = 0
    BY <2>1, Quotient, Multiples, Numbers
  <2>5. b = DtbAlign * q + r /\ q \in Int
    <3>1. DtbAlign \in Nat \ {0}
      BY Numbers
    <3>. QED
      BY <2>1, <3>1, SMTT(30)
  <2> HIDE DEF r, q
  <2>6. q * DtbAlign = b - r
    BY <2>4, <2>5, Numbers
  <2>7. b - r > Spot /\ b - r < W
    BY <2>1, <2>4, <1>1, Numbers
  <2>. QED
    BY <2>2, <2>3, <2>4, <2>6, <2>7
<1>. QED
  BY <1>3, <1>4, <1>5, <1>6, <1>7

\* A copy upwards that reaches cells which it has yet to read.
Smears ==
  HasNextAddr /\ Spot \in (fw_dyninfo.next_addr + 1)..(fw_dyninfo.next_addr + kernel.file - 1)

\* A kernel whose image is in RAM is copied whole, unless the copy goes upwards
\* over its own source: then its first cell comes again.
LEMMA KernelCopied ==
  ASSUME Run, Image \subseteq RAM
  PROVE  /\ ~Smears => \A i \in 0..(kernel.file - 1) : KernelMemory[Spot + i] = <<"kernel", i>>
         /\ Smears => KernelMemory[Spot + (Spot - fw_dyninfo.next_addr)] = <<"kernel", 0>>
         /\ \A x \in Addresses \ Image : KernelMemory[x] = FirstMemory[x]
<1>1. /\ Spot \in Nat /\ KernelSource \in Nat /\ KernelLength \in Nat
      /\ KernelLength \in kernel.file..kernel.image
      /\ kernel.file \in Nat \ {0} /\ kernel.image \in Nat
      /\ Spot > PROGAMIMAGE_START /\ BootInv
  BY Copies, Sizes DEF Run
<1>2. /\ Spot + KernelLength <= W /\ Image = Spot..(Spot + kernel.image - 1)
      /\ Cells(Spot, KernelLength) \subseteq Image
      /\ Spot + kernel.image <= PROGAMIMAGE_START + MEMORY_AVAILABLE
  BY <1>1, ImageInRAM, Numbers
<1>3. FirstMemory \in Memories
  BY LastMemoryAt
<1>4. ASSUME NEW i \in 0..(kernel.file - 1)
      PROVE  /\ i \in 0..(KernelLength - 1) /\ Spot + i \in RAM
             /\ KernelSource + i < W
             /\ FirstMemory[KernelSource + i] = <<"kernel", i>>
  <2>1. i \in 0..(KernelLength - 1) /\ Spot + i \in Image
    BY <1>1, <1>2
  <2>2. CASE HasNextAddr
    <3>1. "kernel" \in DOMAIN Brought /\ Brought["kernel"] = KernelSource
      BY <2>2, <1>1, BroughtFiles DEF KernelSource
    <3>2. Brought["kernel"] + Size("kernel") <= W /\ Size("kernel") = kernel.file
      BY <3>1, <1>1, BroughtFiles, Sizes
    <3>3. FirstMemory[KernelSource + i] = <<"kernel", i>>
      BY <3>1, <3>2, <1>1, FirstMemoryHas
    <3>. QED
      BY <2>1, <3>1, <3>2, <3>3, <1>1, Numbers
  <2>3. CASE ~HasNextAddr
    <3>1. "kernel" \in archive /\ Flash["kernel"] = KernelSource
      BY <2>3, Copies DEF KernelSource
    <3>2. Flash["kernel"] + Size("kernel") <= PROGAMIMAGE_START /\ Size("kernel") = kernel.file
      BY <1>1, Archived, Sizes DEF Files
    <3>3. FirstMemory[KernelSource + i] = <<"kernel", i>>
      BY <3>1, <3>2, <1>1, FirstMemoryHas
    <3>. QED
      BY <2>1, <3>1, <3>2, <3>3, <1>1, Numbers
  <2>. QED
    BY <2>2, <2>3
<1>5. ASSUME NEW i \in 0..(kernel.file - 1)
      PROVE  KernelMemory[Spot + i] =
               IF KernelSource < Spot /\ Spot <= KernelSource + i
               THEN KernelMemory[KernelSource + i] ELSE <<"kernel", i>>
  <2>1. /\ i \in 0..(KernelLength - 1) /\ Spot + i \in RAM /\ KernelSource + i < W
        /\ FirstMemory[KernelSource + i] = <<"kernel", i>>
    BY <1>4
  <2>2. KernelMemory[Spot + i] =
          IF KernelSource < Spot /\ Spot <= KernelSource + i
          THEN KernelMemory[KernelSource + i] ELSE FirstMemory[KernelSource + i]
    <3> DEFINE source == KernelSource
               n == KernelLength
    <3>1. source \in Nat /\ n \in Nat /\ i \in 0..(n - 1) /\ source + i < W /\ Spot + n <= W
      BY <2>1, <1>1, <1>2
    <3>2. KernelMemory = memcpy(FirstMemory, Spot, source, n)
      BY DEF KernelMemory
    <3> HIDE DEF source, n
    <3>3. memcpy(FirstMemory, Spot, source, n)[Spot + i] =
            IF source < Spot /\ Spot <= source + i
            THEN memcpy(FirstMemory, Spot, source, n)[source + i] ELSE FirstMemory[source + i]
      BY <2>1, <3>1, <1>1, <1>3, CopyInside
    <3>. QED
      BY <3>2, <3>3 DEF source
  <2>. QED
    BY <2>1, <2>2
<1>6. Smears <=> KernelSource < Spot /\ Spot <= KernelSource + (kernel.file - 1)
  <2>1. CASE HasNextAddr
    BY <2>1, <1>1 DEF Smears, KernelSource
  <2>2. CASE ~HasNextAddr
    <3>1. KernelSource = Flash["kernel"] /\ Flash["kernel"] + Size("kernel") <= PROGAMIMAGE_START
          /\ Size("kernel") = kernel.file
      BY <2>2, <1>1, Archived, Sizes DEF KernelSource, Files
    <3>. QED
      BY <2>2, <3>1, <1>1, Numbers DEF Smears
  <2>. QED
    BY <2>1, <2>2
<1>7. ASSUME ~Smears, NEW i \in 0..(kernel.file - 1) PROVE KernelMemory[Spot + i] = <<"kernel", i>>
  <2>1. ~(KernelSource < Spot /\ Spot <= KernelSource + i)
    BY <1>1, <1>6, <1>7
  <2>. QED
    BY <2>1, <1>5
<1>8. ASSUME Smears PROVE KernelMemory[Spot + (Spot - fw_dyninfo.next_addr)] = <<"kernel", 0>>
  <2>1. KernelSource = fw_dyninfo.next_addr
    BY <1>8 DEF Smears, KernelSource
  <2> DEFINE d == Spot - KernelSource
  <2>2. d \in 0..(kernel.file - 1) /\ KernelSource + d = Spot /\ 0 \in 0..(kernel.file - 1)
        /\ KernelSource < Spot
    BY <1>1, <1>6, <1>8
  <2>3. KernelMemory[Spot + 0] = <<"kernel", 0>>
    <3>1. ~(Spot <= KernelSource + 0)
      BY <2>2, <1>1
    <3>. QED
      BY <2>2, <3>1, <1>5
  <2> HIDE DEF d
  <2>4. KernelMemory[Spot + d] = KernelMemory[KernelSource + d]
    <3>1. Spot <= KernelSource + d
      BY <2>2, <1>1
    <3>. QED
      BY <2>2, <3>1, <1>5
  <2>5. KernelMemory[Spot + d] = <<"kernel", 0>>
    BY <2>2, <2>3, <2>4, <1>1
  <2>. QED
    BY <2>1, <2>5 DEF d
<1>9. \A x \in Addresses \ Image : KernelMemory[x] = FirstMemory[x]
  BY <1>2, LastMemoryAt
<1>. QED
  BY <1>7, <1>8, <1>9

\* A boot that has reached the kernel, as the invariant describes it.
Reached ==
  /\ Run /\ mem = LastMemory
  /\ command.param1 = Spot /\ command.param2 = DtbAddress % W
  /\ load["initramfs"] = InitramfsBase

\* What Intact asks for, in the last memory.
LEMMA IntactIs ==
  ASSUME Reached
  PROVE  Intact <=>
           /\ \A j \in 0..(kernel.file - 1) : LastMemory[(Spot + j) % W] = <<"kernel", j>>
           /\ \A x \in BssCells : LastMemory[x] = <<"bss", 0>>
           /\ \A j \in 0..(DtbSize - 1) : LastMemory[((DtbAddress % W) + j) % W] = <<"dtb", j>>
           /\ \A j \in 0..(InitramfsSize - 1) :
                LastMemory[(InitramfsBase + j) % W] = <<"initramfs", j>>
           /\ \A x \in Firmware : LastMemory[x] = <<"firmware", x>>
<1>1. Bss = BssCells
  BY DEF Reached, Bss, BssCells
<1>2. Size("kernel") = kernel.file /\ Size("dtb") = DtbSize /\ Size("initramfs") = InitramfsSize
  BY Sizes DEF Reached, Run
<1>. QED
  BY <1>1, <1>2 DEF Reached, Intact, Lies, Cleared

\* A device tree of the archive is whole behind a kernel in RAM, and one of the
\* loader at its own place if that is aligned.
LEMMA DtbCopied ==
  ASSUME Run, Fits
  PROVE  /\ DtbAddress \in Addresses /\ DtbAddress = DtbSpot
         /\ DtbTarget \subseteq DtbCells
         /\ \A j \in 0..(DtbSize - 1) :
              /\ (DtbAddress + j) % W = DtbAddress + j
              /\ DtbAddress + j \in DtbCells
              /\ DtbAddress + j \in Addresses
              /\ DtbMemory[DtbAddress + j] = <<"dtb", j>>
<1>1. Image \subseteq RAM /\ DtbCells \subseteq RAM /\ DtbSpot % DtbAlign = 0
      /\ Image \cap DtbCells = {} /\ BootInv
  BY DEF Fits, Run
<1>2. DtbAddress \in Addresses /\ DtbAddress = DtbSpot
  <2>1. CASE init_reg_a1 = 0
    <3>1. DtbSpot = DtbAddress /\ DtbAddress < W /\ DtbAddress \in Nat
      BY <2>1, <1>1, ImageInRAM, Copies
    <3>. QED
      BY <3>1, Numbers DEF Addresses
  <2>2. CASE init_reg_a1 # 0
    <3>1. "dtb" \in DOMAIN Brought /\ Brought["dtb"] = init_reg_a1 /\ init_reg_a1 \in Addresses
      BY <2>2, <1>1, BroughtFiles
    <3>2. DtbSpot = init_reg_a1 /\ DtbBase = init_reg_a1
      BY <2>2, <3>1 DEF DtbSpot, DtbBase
    <3>3. DtbBase % DtbAlign = 0
      BY <1>1, <3>2
    <3>4. DtbAddress = DtbBase
      BY <3>1, <3>2, <3>3, Numbers DEF DtbAddress, Addresses
    <3>. QED
      BY <3>1, <3>2, <3>4
  <2>. QED
    BY <2>1, <2>2
<1>3. DtbAddress \in Nat /\ DtbAddress + DtbSize <= W /\ DtbSize \in Nat
      /\ DtbCells = DtbAddress..(DtbAddress + DtbSize - 1)
  <2>1. DtbCells = Cells(DtbAddress, DtbSize) /\ DtbAddress \in Nat /\ DtbSize \in Nat
    BY <1>2, Numbers DEF DtbCells, Addresses
  <2>2. DtbAddress + DtbSize <= W
    BY <1>1, <1>2, <2>1, CellsInRAMFollow
  <2>. QED
    BY <2>1, <2>2, CellsFollow
<1>4. DtbTarget \subseteq DtbCells
  BY <1>2 DEF DtbTarget, DtbCells
<1>5. ASSUME NEW j \in 0..(DtbSize - 1)
      PROVE  /\ (DtbAddress + j) % W = DtbAddress + j
             /\ DtbAddress + j \in DtbCells
             /\ DtbAddress + j \in Addresses
             /\ DtbMemory[DtbAddress + j] = <<"dtb", j>>
  <2> DEFINE x == DtbAddress + j
  <2>1. x \in Nat /\ x < W /\ x \in DtbCells
    BY <1>3, Numbers
  <2>2. x \in Addresses /\ x \in RAM /\ x \notin Image
    BY <2>1, <1>1, RAMIsAddressed
  <2>3. x % W = x
    <3> HIDE DEF x
    <3> QED BY <2>1, Remainders
  <2>4. CASE init_reg_a1 = 0
    <3> DEFINE source == Flash["dtb"]
               before == KernelMemory
    <3>1. /\ "dtb" \in archive /\ source \in Nat /\ source + DtbSize <= PROGAMIMAGE_START
          /\ j \in 0..(Size("dtb") - 1)
      BY <2>4, <1>1, Copies, Archived, Sizes DEF Files
    <3>2. FirstMemory[source + j] = <<"dtb", j>>
      BY <3>1, <1>1, FirstMemoryHas
    <3>3. source + j \in Addresses /\ source + j \notin RAM
      BY <3>1, Numbers DEF Addresses, RAM
    <3>4. before[source + j] = FirstMemory[source + j]
      BY <3>3, LastMemoryAt
    <3>5. DtbMemory = memcpy(before, DtbAddress, source, DtbSize)
      BY <2>4 DEF DtbMemory
    <3>6. before \in Memories /\ DtbAddress >= PROGAMIMAGE_START
      BY <2>4, <1>1, ImageInRAM, LastMemoryAt, Copies, Numbers
    <3> HIDE DEF source, before
    <3>7. memcpy(before, DtbAddress, source, DtbSize)[DtbAddress + j] = before[source + j]
      BY <2>2, <3>1, <3>6, <1>3, CopyFromFlash
    <3>. QED
      BY <2>1, <2>2, <2>3, <3>2, <3>4, <3>5, <3>7
  <2>5. CASE init_reg_a1 # 0
    <3>1. "dtb" \in DOMAIN Brought /\ Brought["dtb"] = DtbAddress
      BY <2>5, <1>1, <1>2, BroughtFiles DEF DtbSpot
    <3>2. FirstMemory[x] = <<"dtb", j>>
      BY <3>1, <1>1, FirstMemoryHas, Sizes
    <3>3. DtbMemory[x] = FirstMemory[x]
      BY <2>2, <2>5, <1>1, KernelCopied DEF DtbMemory
    <3>. QED
      BY <2>1, <2>2, <2>3, <3>2, <3>3
  <2>. QED
    BY <2>4, <2>5
<1>. QED
  BY <1>2, <1>4, <1>5

\* An initramfs of the archive is copied whole if its place is in RAM, and one of
\* the loader is left whole by the copies that do not reach it.
LEMMA InitramfsCopied ==
  ASSUME Run, Fits
  PROVE  /\ InitramfsTarget \subseteq InitramfsCells
         /\ \A j \in 0..(InitramfsSize - 1) :
              /\ (InitramfsBase + j) % W = InitramfsBase + j
              /\ InitramfsBase + j \in InitramfsCells
              /\ InitramfsBase + j \in Addresses
              /\ InitramfsMemory[InitramfsBase + j] = <<"initramfs", j>>
<1>1. Image \subseteq RAM /\ InitramfsCells \subseteq RAM
      /\ Image \cap InitramfsCells = {} /\ DtbCells \cap InitramfsCells = {} /\ BootInv
  BY DEF Fits, Run
<1>2. /\ InitramfsCells = Cells(InitramfsBase, InitramfsSize)
      /\ InitramfsBase \in Addresses /\ InitramfsBase \in Nat /\ InitramfsSize \in Nat
      /\ InitramfsBase >= PROGAMIMAGE_START
  BY Copies, Numbers DEF InitramfsCells, Addresses
<1>3. InitramfsBase + InitramfsSize <= W
  BY <1>1, <1>2, CellsInRAMFollow
<1>4. InitramfsCells = InitramfsBase..(InitramfsBase + InitramfsSize - 1)
  BY <1>2, <1>3, CellsFollow
<1>5. InitramfsTarget \subseteq InitramfsCells
  BY <1>2 DEF InitramfsTarget, InitramfsBase
<1>6. ASSUME NEW j \in 0..(InitramfsSize - 1)
      PROVE  /\ (InitramfsBase + j) % W = InitramfsBase + j
             /\ InitramfsBase + j \in InitramfsCells
             /\ InitramfsBase + j \in Addresses
             /\ InitramfsMemory[InitramfsBase + j] = <<"initramfs", j>>
  <2> DEFINE x == InitramfsBase + j
  <2>1. x \in Nat /\ x < W /\ x \in InitramfsCells
    BY <1>2, <1>3, <1>4, Numbers
  <2>2. x \in Addresses /\ x \in RAM /\ x \notin Image /\ x \notin DtbCells
    BY <2>1, <1>1, RAMIsAddressed
  <2>3. x % W = x
    <3> HIDE DEF x
    <3> QED BY <2>1, Remainders
  <2>4. CASE ~InitrdBrought
    <3> DEFINE source == Flash["initramfs"]
               before == DtbMemory
    <3>1. /\ "initramfs" \in archive /\ source \in Nat
          /\ source + InitramfsSize <= PROGAMIMAGE_START
          /\ j \in 0..(Size("initramfs") - 1)
      BY <2>4, <1>1, Copies, Archived, Sizes DEF Files
    <3>2. FirstMemory[source + j] = <<"initramfs", j>>
      BY <3>1, <1>1, FirstMemoryHas
    <3>3. source + j \in Addresses /\ source + j \notin RAM
      BY <3>1, Numbers DEF Addresses, RAM
    <3>4. before[source + j] = FirstMemory[source + j]
      BY <3>3, LastMemoryAt
    <3>5. InitramfsMemory = memcpy(before, InitramfsBase, source, InitramfsSize)
      BY <2>4 DEF InitramfsMemory, InitramfsBase
    <3>6. before \in Memories
      BY LastMemoryAt
    <3> HIDE DEF source, before
    <3>7. memcpy(before, InitramfsBase, source, InitramfsSize)[InitramfsBase + j] = before[source + j]
      BY <2>2, <3>1, <3>6, <1>2, <1>3, CopyFromFlash
    <3>. QED
      BY <2>1, <2>2, <2>3, <3>2, <3>4, <3>5, <3>7
  <2>5. CASE InitrdBrought
    <3>1. "initramfs" \in DOMAIN Brought /\ Brought["initramfs"] = InitramfsBase
      BY <2>5, <1>1, BroughtFiles DEF InitrdBrought, InitramfsBase
    <3>2. FirstMemory[x] = <<"initramfs", j>>
      BY <3>1, <1>1, FirstMemoryHas, Sizes
    <3>3. x \notin DtbTarget
      BY <2>2, DtbCopied
    <3>4. InitramfsMemory[x] = DtbMemory[x]
      BY <2>5 DEF InitramfsMemory
    <3>5. DtbMemory[x] = FirstMemory[x]
      BY <2>2, <3>3, <1>1, KernelCopied, LastMemoryAt
    <3>. QED
      BY <2>1, <2>2, <2>3, <3>2, <3>4, <3>5
  <2>. QED
    BY <2>4, <2>5
<1>. QED
  BY <1>5, <1>6

\* What has room is whole.
LEMMA FitsIsIntact ==
  ASSUME Reached, Fits
  PROVE  Intact
<1>1. Run /\ BootInv
  BY DEF Reached, Run
<1>2. /\ Image \subseteq RAM \ Firmware
      /\ DtbCells \subseteq RAM \ Firmware /\ InitramfsCells \subseteq RAM \ Firmware
      /\ Image \cap DtbCells = {} /\ Image \cap InitramfsCells = {}
      /\ DtbCells \cap InitramfsCells = {}
  BY DEF Fits
<1>3. /\ Spot \in Nat /\ kernel.file \in Nat /\ kernel.image \in Nat
      /\ kernel.file <= kernel.image
      /\ Image = Spot..(Spot + kernel.image - 1)
      /\ BssCells = (Spot + kernel.file)..(Spot + kernel.image - 1)
      /\ BssCells \subseteq Image
  BY <1>1, <1>2, ImageInRAM, Copies, Sizes
<1>4. DtbTarget \subseteq DtbCells /\ InitramfsTarget \subseteq InitramfsCells
  BY <1>1, DtbCopied, InitramfsCopied
<1>5. ASSUME NEW j \in 0..(kernel.file - 1)
      PROVE  LastMemory[(Spot + j) % W] = <<"kernel", j>>
  <2> DEFINE x == Spot + j
  <2>1. x \in Nat /\ x \in Image /\ x \notin BssCells
    BY <1>3
  <2>2. x \in Addresses /\ x \notin DtbTarget /\ x \notin InitramfsTarget
    BY <2>1, <1>2, <1>4, RAMIsAddressed
  <2>3. x % W = x
    <3>1. x < W
      BY <2>2, Numbers DEF Addresses
    <3> HIDE DEF x
    <3>. QED
      BY <2>1, <3>1, Remainders
  <2>4. ~Smears
    <3> SUFFICES ASSUME Smears PROVE FALSE
      OBVIOUS
    <3>1. "kernel" \in DOMAIN Brought /\ Brought["kernel"] = fw_dyninfo.next_addr
      BY <1>1, BroughtFiles DEF Smears
    <3>. QED
      BY <3>1 DEF Smears, Fits
  <2>5. KernelMemory[x] = <<"kernel", j>>
    BY <2>4, <1>1, <1>2, KernelCopied
  <2>6. LastMemory[x] = KernelMemory[x]
    <3> HIDE DEF x
    <3> QED BY <2>1, <2>2, <1>1, LastMemoryAt
  <2>. QED
    BY <2>3, <2>5, <2>6
<1>6. ASSUME NEW x \in BssCells PROVE LastMemory[x] = <<"bss", 0>>
  BY <1>1, <1>2, <1>3, RAMIsAddressed, LastMemoryAt
<1>7. ASSUME NEW j \in 0..(DtbSize - 1)
      PROVE  LastMemory[((DtbAddress % W) + j) % W] = <<"dtb", j>>
  <2> DEFINE x == DtbAddress + j
  <2>1. DtbAddress % W = DtbAddress
    <3>1. DtbAddress \in Nat /\ DtbAddress < W
      BY <1>1, DtbCopied, Numbers DEF Addresses
    <3>. QED
      BY <3>1, Remainders
  <2>2. x % W = x /\ x \in DtbCells /\ x \in Addresses /\ DtbMemory[x] = <<"dtb", j>>
    BY <1>1, DtbCopied
  <2>3. x \notin InitramfsTarget /\ x \notin BssCells
    BY <2>2, <1>2, <1>3, <1>4
  <2>4. LastMemory[x] = DtbMemory[x]
    <3> HIDE DEF x
    <3> QED BY <2>2, <2>3, <1>1, LastMemoryAt
  <2>. QED
    BY <2>1, <2>2, <2>4
<1>8. ASSUME NEW j \in 0..(InitramfsSize - 1)
      PROVE  LastMemory[(InitramfsBase + j) % W] = <<"initramfs", j>>
  <2> DEFINE x == InitramfsBase + j
  <2>1. /\ x % W = x /\ x \in InitramfsCells /\ x \in Addresses
        /\ InitramfsMemory[x] = <<"initramfs", j>>
    BY <1>1, InitramfsCopied
  <2>2. x \notin BssCells
    BY <2>1, <1>2, <1>3
  <2>3. LastMemory[x] = InitramfsMemory[x]
    <3> HIDE DEF x
    <3> QED BY <2>1, <2>2, <1>1, LastMemoryAt
  <2>. QED
    BY <2>1, <2>3
<1>9. ASSUME NEW x \in Firmware PROVE LastMemory[x] = <<"firmware", x>>
  <2>1. x \in Addresses /\ FirstMemory[x] = <<"firmware", x>>
    BY <1>1, FirstMemoryHas
  <2>2. x \notin Image /\ x \notin DtbTarget /\ x \notin InitramfsTarget /\ x \notin BssCells
    BY <1>2, <1>3, <1>4
  <2>3. KernelMemory[x] = FirstMemory[x]
    BY <2>1, <2>2, <1>1, <1>2, KernelCopied
  <2>. QED
    BY <2>1, <2>2, <2>3, <1>1, LastMemoryAt
<1>. QED
  BY <1>5, <1>6, <1>7, <1>8, <1>9, IntactIs

\* Where a whole kernel, device tree and initramfs lie.
LEMMA IntactCells ==
  ASSUME Reached, Intact
  PROVE  /\ \A x \in Image :
              \/ \E j \in 0..(kernel.file - 1) : x = (Spot + j) % W /\ LastMemory[x] = <<"kernel", j>>
              \/ LastMemory[x] = <<"bss", 0>>
         /\ \A x \in Cells(DtbAddress % W, DtbSize) :
              \E j \in 0..(DtbSize - 1) :
                x = ((DtbAddress % W) + j) % W /\ LastMemory[x] = <<"dtb", j>>
         /\ \A x \in InitramfsCells :
              \E j \in 0..(InitramfsSize - 1) :
                x = (InitramfsBase + j) % W /\ LastMemory[x] = <<"initramfs", j>>
<1>1. /\ \A j \in 0..(kernel.file - 1) : LastMemory[(Spot + j) % W] = <<"kernel", j>>
      /\ \A x \in BssCells : LastMemory[x] = <<"bss", 0>>
      /\ \A j \in 0..(DtbSize - 1) : LastMemory[((DtbAddress % W) + j) % W] = <<"dtb", j>>
      /\ \A j \in 0..(InitramfsSize - 1) :
           LastMemory[(InitramfsBase + j) % W] = <<"initramfs", j>>
  BY IntactIs
<1>2. /\ Spot \in Nat /\ kernel.file \in Nat /\ kernel.image \in Nat
      /\ InitramfsSpot = InitramfsBase
  BY Copies, Sizes DEF Reached, Run
<1>3. ASSUME NEW x \in Image
      PROVE  \/ \E j \in 0..(kernel.file - 1) : x = (Spot + j) % W /\ LastMemory[x] = <<"kernel", j>>
             \/ LastMemory[x] = <<"bss", 0>>
  <2>1. PICK j \in 0..(kernel.image - 1) : x = (Spot + j) % W
    BY DEF Image, Cells
  <2>2. CASE j < kernel.file
    <3>1. j \in 0..(kernel.file - 1)
      BY <2>2, <1>2
    <3>. QED
      BY <3>1, <2>1, <1>1
  <2>3. CASE j >= kernel.file
    <3> DEFINE k == j - kernel.file
    <3>1. k \in 0..((kernel.image - kernel.file) - 1) /\ (Spot + kernel.file) + k = Spot + j
      BY <2>3, <1>2
    <3> HIDE DEF k
    <3>2. x \in BssCells
      BY <2>1, <3>1 DEF BssCells, Cells
    <3>. QED
      BY <3>2, <1>1
  <2>. QED
    BY <2>2, <2>3, <1>2
<1>4. \A x \in Cells(DtbAddress % W, DtbSize) :
        \E j \in 0..(DtbSize - 1) :
          x = ((DtbAddress % W) + j) % W /\ LastMemory[x] = <<"dtb", j>>
  BY <1>1 DEF Cells
<1>5. \A x \in InitramfsCells :
        \E j \in 0..(InitramfsSize - 1) :
          x = (InitramfsBase + j) % W /\ LastMemory[x] = <<"initramfs", j>>
  BY <1>1, <1>2 DEF InitramfsCells, Cells
<1>. QED
  BY <1>3, <1>4, <1>5

\* The image of a whole kernel is in RAM, and not over the firmware.
LEMMA IntactImage ==
  ASSUME Reached, Intact
  PROVE  Image \subseteq RAM \ Firmware
<1>1. Run /\ BootInv /\ Spot \in Addresses /\ Spot \in Nat /\ Spot >= PROGAMIMAGE_START
      /\ kernel.image \in Nat /\ Size("kernel") = kernel.file
  BY Copies, Sizes, Numbers DEF Reached, Run
<1> SUFFICES ASSUME NEW x \in Image PROVE x \in RAM \ Firmware
  OBVIOUS
<1>2. x \in Addresses
  BY <1>1, CellsFollow DEF Image
<1>3. CASE \E j \in 0..(kernel.file - 1) : x = (Spot + j) % W /\ LastMemory[x] = <<"kernel", j>>
  <2>1. PICK j \in 0..(kernel.file - 1) : x = (Spot + j) % W /\ LastMemory[x] = <<"kernel", j>>
    BY <1>3
  <2>2. x \in RAM
    BY <2>1, <1>1, CopiedIsInRAM DEF Files
  <2>3. x \notin Firmware
    BY <2>1, IntactIs
  <2>. QED
    BY <2>2, <2>3
<1>4. CASE LastMemory[x] = <<"bss", 0>>
  <2>1. x \in RAM
    BY <1>1, <1>2, <1>4, LastMemoryAt, FirstMemoryOnly
  <2>2. x \notin Firmware
    BY <1>4, IntactIs
  <2>. QED
    BY <2>1, <2>2
<1>. QED
  BY <1>3, <1>4, IntactCells

\* A whole device tree is aligned: rounding down moves the address of one that is
\* not, which then is not found where it lies.
LEMMA IntactAligned ==
  ASSUME Reached, Intact
  PROVE  /\ DtbSpot % DtbAlign = 0
         /\ DtbAddress = DtbSpot /\ DtbAddress \in Addresses /\ DtbAddress >= PROGAMIMAGE_START
<1>1. Run /\ BootInv /\ Image \subseteq RAM
  BY IntactImage DEF Reached, Run
<1>2. CASE init_reg_a1 = 0
  <2>1. DtbSpot = DtbAddress /\ DtbSpot % DtbAlign = 0 /\ DtbAddress > Spot /\ DtbAddress < W
    BY <1>1, <1>2, ImageInRAM
  <2>2. DtbAddress \in Nat /\ Spot \in Nat /\ Spot > PROGAMIMAGE_START
    BY <1>1, Copies
  <2>. QED
    BY <2>1, <2>2, Numbers DEF Addresses
<1>3. CASE init_reg_a1 # 0
  <2> DEFINE a == init_reg_a1
             r == a - (a % DtbAlign)
  <2>1. /\ "dtb" \in DOMAIN Brought /\ Brought["dtb"] = a /\ a \in Addresses
        /\ BroughtCells("dtb") = a..(a + Size("dtb") - 1)
        /\ BroughtCells("dtb") \subseteq RAM \ Firmware
    BY <1>1, <1>3, BroughtFiles
  <2>2. a \in Nat /\ DtbSize \in Nat \ {0} /\ Size("dtb") = DtbSize /\ DtbAlign \in Nat \ {0}
    BY <2>1, <1>1, Sizes, Numbers DEF Addresses
  <2>3. DtbAddress = r /\ DtbSpot = a
    BY <2>1, <1>3 DEF DtbAddress, DtbBase, DtbSpot
  <2>4. a \in RAM
    BY <2>1, <2>2
  <2>5. r \in Nat /\ (r % DtbAlign) = 0 /\ r <= a /\ a < r + DtbAlign
    <3>1. (a % DtbAlign) \in 0..(DtbAlign - 1) /\ r \in Nat /\ (r % DtbAlign) = 0
      BY <2>2, Quotient, Multiples
    <3> DEFINE e == a % DtbAlign
    <3>2. e \in 0..(DtbAlign - 1) /\ r = a - e
      BY <3>1
    <3> HIDE DEF e, r
    <3>. QED
      BY <3>1, <3>2, <2>2
  <2> HIDE DEF a, r
  <2>6. r >= PROGAMIMAGE_START
    <3> SUFFICES ASSUME r < PROGAMIMAGE_START PROVE FALSE
      BY <2>5, Numbers
    <3>1. (PROGAMIMAGE_START % DtbAlign) = 0
      BY LoadAssumption
    <3>2. r + DtbAlign <= PROGAMIMAGE_START
      BY <2>5, <3>1, Multiples, Numbers
    <3>3. a >= PROGAMIMAGE_START
      BY <2>4, Numbers DEF RAM
    <3>. QED
      BY <3>2, <3>3, <2>2, <2>5, Numbers
  <2>7. r \in RAM /\ r \in Addresses /\ r < W
    <3>1. r \in RAM
      BY <2>4, <2>5, <2>6, Numbers DEF RAM
    <3>. QED
      BY <3>1, RAMIsAddressed, Numbers DEF Addresses
  <2>8. (r % W) = r /\ r + 0 = r /\ 0 \in 0..(DtbSize - 1)
    BY <2>2, <2>5, <2>7, Remainders
  <2>9. LastMemory[r] = <<"dtb", 0>>
    <3>1. LastMemory[((DtbAddress % W) + 0) % W] = <<"dtb", 0>>
      BY <2>8, IntactIs
    <3>. QED
      BY <3>1, <2>3, <2>8
  <2>10. r \notin Image
    BY <2>9, IntactCells
  <2>11. r \notin InitramfsTarget
    <3>1. InitramfsTarget \subseteq InitramfsCells
      BY <1>1, Copies DEF InitramfsTarget, InitramfsBase, InitramfsCells
    <3>2. r \notin InitramfsCells
      BY <2>9, IntactCells
    <3>. QED
      BY <3>1, <3>2
  <2>12. r \notin BssCells
    BY <2>9, IntactIs
  <2>13. LastMemory[r] = FirstMemory[r]
    <3>1. r \notin DtbTarget
      BY <1>3 DEF DtbTarget
    <3>2. KernelMemory[r] = FirstMemory[r]
      BY <2>7, <2>10, <1>1, KernelCopied
    <3>. QED
      BY <3>1, <3>2, <2>7, <2>11, <2>12, <1>1, LastMemoryAt
  <2>14. FirstMemory[r] = <<"dtb", 0>>
    BY <2>9, <2>13
  <2>15. r = a + 0
    <3>1. \/ r = Brought["dtb"] + 0
          \/ r < PROGAMIMAGE_START
      BY <2>7, <2>14, <1>1, FirstMemoryOnly DEF Files
    <3>. QED
      BY <3>1, <2>1, <2>5, <2>6, Numbers
  <2>16. r = a
    BY <2>15, <2>2
  <2>. QED
    BY <2>16, <2>3, <2>5, <2>6, <2>7
<1>. QED
  BY <1>2, <1>3

\* What is whole had room.
LEMMA IntactIsFits ==
  ASSUME Reached, Intact
  PROVE  Fits
<1>1. Run /\ BootInv /\ Image \subseteq RAM \ Firmware /\ Image \subseteq RAM
  BY IntactImage DEF Reached, Run
<1>2. /\ DtbSpot % DtbAlign = 0
      /\ DtbAddress = DtbSpot /\ DtbAddress \in Addresses /\ DtbAddress >= PROGAMIMAGE_START
  BY IntactAligned
<1>3. DtbAddress % W = DtbAddress
  <2>1. DtbAddress \in Nat /\ DtbAddress < W
    BY <1>2, Numbers DEF Addresses
  <2>. QED
    BY <2>1, Remainders
<1>4. \A x \in DtbCells :
        \E j \in 0..(DtbSize - 1) : x = (DtbAddress + j) % W /\ LastMemory[x] = <<"dtb", j>>
  <2>1. DtbCells = Cells(DtbAddress % W, DtbSize)
    BY <1>2, <1>3 DEF DtbCells
  <2>. QED
    BY <2>1, <1>3, IntactCells
<1>5. /\ Size("dtb") = DtbSize /\ Size("initramfs") = InitramfsSize
      /\ InitramfsBase \in Addresses /\ InitramfsBase >= PROGAMIMAGE_START
  BY <1>1, Copies, Sizes
<1>6. DtbCells \subseteq RAM \ Firmware
  <2> SUFFICES ASSUME NEW x \in DtbCells PROVE x \in RAM \ Firmware
    OBVIOUS
  <2>1. PICK j \in 0..(DtbSize - 1) : x = (DtbAddress + j) % W /\ LastMemory[x] = <<"dtb", j>>
    BY <1>4
  <2>2. x \in RAM
    BY <2>1, <1>1, <1>2, <1>5, CopiedIsInRAM DEF Files
  <2>3. x \notin Firmware
    BY <2>1, IntactIs
  <2>. QED
    BY <2>2, <2>3
<1>7. InitramfsCells \subseteq RAM \ Firmware
  <2> SUFFICES ASSUME NEW x \in InitramfsCells PROVE x \in RAM \ Firmware
    OBVIOUS
  <2>1. PICK j \in 0..(InitramfsSize - 1) :
          x = (InitramfsBase + j) % W /\ LastMemory[x] = <<"initramfs", j>>
    BY IntactCells
  <2>2. x \in RAM
    BY <2>1, <1>1, <1>5, CopiedIsInRAM DEF Files
  <2>3. x \notin Firmware
    BY <2>1, IntactIs
  <2>. QED
    BY <2>2, <2>3
<1>8. Image \cap (DtbCells \cup InitramfsCells) = {} /\ DtbCells \cap InitramfsCells = {}
  <2>1. \A x \in Image : (\E j : LastMemory[x] = <<"kernel", j>>) \/ LastMemory[x] = <<"bss", 0>>
    BY IntactCells
  <2>2. \A x \in DtbCells : \E j : LastMemory[x] = <<"dtb", j>>
    BY <1>4
  <2>3. \A x \in InitramfsCells : \E j : LastMemory[x] = <<"initramfs", j>>
    BY IntactCells
  <2>. QED
    BY <2>1, <2>2, <2>3
<1>9. ~Smears
  <2> SUFFICES ASSUME Smears PROVE FALSE
    OBVIOUS
  <2> DEFINE d == Spot - fw_dyninfo.next_addr
             x == Spot + d
  <2>1. /\ fw_dyninfo.next_addr \in Nat /\ Spot \in Nat
        /\ kernel.file \in Nat \ {0} /\ kernel.image \in Nat /\ kernel.file <= kernel.image
    BY <1>1, Copies, Sizes, LoadAssumption, Numbers DEF BootInv, Addresses
  <2>2. d \in 1..(kernel.file - 1)
    BY <2>1 DEF Smears
  <2>3. KernelMemory[x] = <<"kernel", 0>>
    BY <1>1, KernelCopied
  <2> HIDE DEF d
  <2>4. x \in Image /\ x \in Nat
    <3>1. Image = Spot..(Spot + kernel.image - 1)
      BY <1>1, ImageInRAM
    <3>. QED
      BY <3>1, <2>1, <2>2
  <2>5. x \in Addresses /\ x < W
    BY <2>4, <1>1, RAMIsAddressed, Numbers DEF Addresses
  <2>6. x % W = x
    <3> HIDE DEF x
    <3> QED BY <2>4, <2>5, Remainders
  <2>7. LastMemory[x] = <<"kernel", d>>
    <3>1. d \in 0..(kernel.file - 1)
      BY <2>2
    <3>2. LastMemory[(Spot + d) % W] = <<"kernel", d>>
      BY <3>1, IntactIs
    <3>. QED
      BY <3>2, <2>6
  <2>8. x \notin DtbTarget
    <3>1. DtbTarget \subseteq DtbCells
      BY <1>2 DEF DtbTarget, DtbCells
    <3>. QED
      BY <3>1, <1>8, <2>4
  <2>9. x \notin InitramfsTarget
    <3>1. InitramfsTarget \subseteq InitramfsCells
      BY <1>1, Copies DEF InitramfsTarget, InitramfsBase, InitramfsCells
    <3>. QED
      BY <3>1, <1>8, <2>4
  <2>10. x \notin BssCells
    BY <2>7, IntactIs
  <2> HIDE DEF x
  <2>11. LastMemory[x] = KernelMemory[x]
    BY <2>5, <2>8, <2>9, <2>10, <1>1, LastMemoryAt
  <2>12. <<"kernel", d>> = <<"kernel", 0>>
    BY <2>3, <2>7, <2>11
  <2>. QED
    BY <2>2, <2>12
<1>10. "kernel" \in DOMAIN Brought =>
         Spot \notin (Brought["kernel"] + 1)..(Brought["kernel"] + kernel.file - 1)
  BY <1>1, <1>9, BroughtFiles DEF Smears
<1>. QED
  BY <1>1, <1>2, <1>6, <1>7, <1>8, <1>10 DEF Fits

\* The invariant says of a boot that has reached the kernel, and of one that has
\* not located a file, what IntactIffFits asks for.
LEMMA LoadInvIntact == LoadInv => IntactIffFits
<1> SUFFICES ASSUME LoadInv PROVE IntactIffFits
  OBVIOUS
<1>1. place = "halt" => Missing # {}
  BY DEF LoadInv, FilesInv
<1>2. ASSUME place = "runs" PROVE Missing = {} /\ command.param1 = Spot /\ (Intact <=> Fits)
  <2>1. /\ BootInv /\ Spot \in Addresses /\ Spot >= mem_block_end
        /\ mem = LastMemory /\ command.param1 = Spot /\ command.param2 = DtbAddress % W
        /\ load["initramfs"] = InitramfsBase % W
    BY <1>2 DEF LoadInv, PlacesInv, MemoryInv
  <2>2. Missing = {}
    <3>1. /\ Located("kernel", HasNextAddr, fw_dyninfo.next_addr)
          /\ Located("dtb", init_reg_a1 # 0, init_reg_a1)
          /\ Located("initramfs", InitrdBrought, initrd_start)
      BY <1>2 DEF LoadInv, FilesInv
    <3>. QED
      BY <3>1, <2>1, BroughtFiles DEF Located, Missing, Files, InitrdBrought
  <2>3. Run
    BY <2>1, <2>2 DEF Run
  <2>4. InitramfsBase % W = InitramfsBase
    <3>1. InitramfsBase \in Nat /\ InitramfsBase < W
      BY <2>3, Copies, Numbers DEF Addresses
    <3>. QED
      BY <3>1, Remainders
  <2>5. Reached
    BY <2>1, <2>3, <2>4 DEF Reached
  <2>. QED
    BY <2>1, <2>2, <2>5, FitsIsIntact, IntactIsFits
<1>. QED
  BY <1>1, <1>2 DEF IntactIffFits

\* For any memory, files and loader: a boot halts only if a file is missing, and
\* else starts the kernel at Spot, which finds all whole exactly if it had room.
THEOREM IntactExactlyIfFits == Spec => []IntactIffFits
  BY LoadInvariant, LoadInvIntact, PTL
=============================================================================
