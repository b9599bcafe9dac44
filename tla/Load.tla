-------------------------------- MODULE Load --------------------------------
(***************************************************************************)
(* kmain: how the boot hart locates kernel, device tree and initramfs,     *)
(* places them and starts the kernel.  Memory is a function from addresses *)
(* to what lies there: the cells of a file are <<file, n>>.  A file comes  *)
(* from the loader that ran before (in RAM, by registers a1 and a2) or     *)
(* from the archive in flash.                                              *)
(*                                                                         *)
(* The search in the archive is in Cpio, the one in the device tree in Dtb.*)
(***************************************************************************)
EXTENDS Integers

CONSTANTS
  XLEN,              \* bits of an address
  PROGAMIMAGE_START, \* where the firmware begins, and RAM
  mem_block_end,     \* the end of its heap
  MEMORY_AVAILABLE,  \* cells of RAM
  Boundary,          \* 2 MiB: the kernel begins at a multiple of it
  DtbAlign,          \* 16: the device tree begins at a multiple of it
  INITRAMFS,         \* 0x86000000
  Flash,             \* where the archive has its files, a function
  Kernels,           \* the kernels: cells of the file, of the image, text offset
  DtbSize, InitramfsSize,
  FwDyninfos, DtbAddrs, InitrdAddrs  \* what the loader before may pass on

W         == 2^XLEN
Addresses == 0..(W - 1)
RAM       == PROGAMIMAGE_START..(PROGAMIMAGE_START + MEMORY_AVAILABLE - 1)
Firmware  == PROGAMIMAGE_START..(mem_block_end - 1)
Files     == {"kernel", "dtb", "initramfs"}

Cells(start, n) == {(start + j) % W : j \in 0..(n - 1)}

SizeOf(k, file) ==
  CASE file = "kernel"    -> k.file
    [] file = "dtb"       -> DtbSize
    [] file = "initramfs" -> InitramfsSize

\* The archive is below RAM, and its files are apart from each other.  RAM ends
\* before the addresses do.  The powers of two divide what is larger.
ASSUME LoadAssumption ==
  /\ {XLEN, W, Boundary, DtbAlign, DtbSize, InitramfsSize} \subseteq Nat \ {0}
  /\ {PROGAMIMAGE_START, MEMORY_AVAILABLE, mem_block_end} \subseteq Nat \ {0}
  /\ PROGAMIMAGE_START < mem_block_end
  /\ mem_block_end < PROGAMIMAGE_START + MEMORY_AVAILABLE
  /\ PROGAMIMAGE_START + MEMORY_AVAILABLE + DtbAlign < W
  /\ W % Boundary = 0 /\ W % DtbAlign = 0 /\ PROGAMIMAGE_START % DtbAlign = 0
  /\ INITRAMFS \in Addresses /\ PROGAMIMAGE_START <= INITRAMFS
  /\ FwDyninfos \subseteq [magic : {"right", "wrong", "none"}, next_addr : Addresses]
  /\ DtbAddrs \cup InitrdAddrs \subseteq Addresses
  /\ Kernels \subseteq [file : Nat \ {0}, image : Nat, text : Nat]
  /\ Flash \in [Files -> Nat \ {0}]
  /\ \A k \in Kernels :
       /\ k.file <= k.image
       /\ \A f \in Files :
            /\ Flash[f] + SizeOf(k, f) <= PROGAMIMAGE_START
            /\ \A g \in Files \ {f} :
                 \/ Flash[f] + SizeOf(k, f) <= Flash[g]
                 \/ Flash[g] + SizeOf(k, g) <= Flash[f]

VARIABLES
  kernel,        \* the kernel of this boot
  fw_dyninfo,    \* behind a2: magic, "right", "wrong" or "none" if a2 is 0, and next_addr
  init_reg_a1,
  initrd_start,  \* what the device tree says of the initramfs, or 0
  archive,       \* the files that the archive has
  place,
  mem,
  ptr,           \* where each file was located, 0 if it was not
  from_cpio,     \* the files that were located in the archive
  load,          \* where each file is loaded to
  command        \* what hart 0 is started with

vars == <<kernel, fw_dyninfo, init_reg_a1, initrd_start, archive, place, mem, ptr, from_cpio,
          load, command>>
boot == <<kernel, fw_dyninfo, init_reg_a1, initrd_start, archive>>

Size(file) == SizeOf(kernel, file)

-----------------------------------------------------------------------------
Go(from, to) == place = from /\ place' = to

Locate(file, address) == ptr' = [ptr EXCEPT ![file] = address] /\ UNCHANGED from_cpio

LocateInCpio(file) ==
  /\ file \in archive
  /\ ptr' = [ptr EXCEPT ![file] = Flash[file]]
  /\ from_cpio' = from_cpio \cup {file}

UnchangedMemory == UNCHANGED <<boot, mem, load, command>>

\* fw_dynamic_info counts if its magic is right and it names an address.
HasNextAddr == fw_dyninfo.magic = "right" /\ fw_dyninfo.next_addr # 0

LocateKernel ==
  /\ Go("kernel", "dtb")
  /\ \/ HasNextAddr /\ Locate("kernel", fw_dyninfo.next_addr)
     \/ ~HasNextAddr /\ LocateInCpio("kernel")
  /\ UnchangedMemory

LocateDtb ==
  /\ Go("dtb", "initramfs")
  /\ \/ init_reg_a1 # 0 /\ Locate("dtb", init_reg_a1)
     \/ init_reg_a1 = 0 /\ LocateInCpio("dtb")
  /\ UnchangedMemory

\* Only the device tree of the loader is asked for an initramfs.
InitrdNamed == "dtb" \notin from_cpio /\ initrd_start # 0

LocateInitramfs ==
  /\ Go("initramfs", "place")
  /\ \/ InitrdNamed /\ Locate("initramfs", initrd_start)
     \/ ~InitrdNamed /\ LocateInCpio("initramfs")
  /\ UnchangedMemory

\* "Could Not Locate": the boot hart stays in idle_loop.
Halt ==
  /\ place' = "halt"
  /\ \/ place = "kernel" /\ ~HasNextAddr /\ "kernel" \notin archive
     \/ place = "dtb" /\ init_reg_a1 = 0 /\ "dtb" \notin archive
     \/ place = "initramfs" /\ ~InitrdNamed /\ "initramfs" \notin archive
  /\ UNCHANGED <<ptr, from_cpio>>
  /\ UnchangedMemory

-----------------------------------------------------------------------------
PlaceAt(file, address) == load' = [load EXCEPT ![file] = address % W]

PlaceKernel ==
  /\ Go("place", "behind")
  /\ LET start == (PROGAMIMAGE_START + kernel.text) % W
         over  == start % Boundary
     IN  PlaceAt("kernel", IF over = 0 THEN start ELSE (start - over) + Boundary)
  /\ UNCHANGED <<boot, mem, ptr, from_cpio, command>>

\* One pass of the loop that looks for room behind the heap.
NextBoundary ==
  /\ place = "behind"
  /\ load["kernel"] < mem_block_end
  /\ PlaceAt("kernel", load["kernel"] + Boundary)
  /\ UNCHANGED <<boot, place, mem, ptr, from_cpio, command>>

\* memcpy, a cell after the other from the first on.  Only RAM takes a store.
memcpy(before, to, from, n) ==
  LET copied[j \in 0..n] ==
        IF j = 0 THEN before
        ELSE LET m    == copied[j - 1]
                 dest == (to + (j - 1)) % W
             IN  IF dest \in RAM THEN [m EXCEPT ![dest] = m[(from + (j - 1)) % W]] ELSE m
  IN  copied[n]

\* A kernel of the archive is copied as long as its file, one of the loader as
\* long as its image.
CopyKernel ==
  /\ Go("behind", "copy_dtb")
  /\ load["kernel"] >= mem_block_end
  /\ mem' = memcpy(mem, load["kernel"], ptr["kernel"],
                   IF "kernel" \in from_cpio THEN kernel.file ELSE kernel.image)
  /\ UNCHANGED <<boot, ptr, from_cpio, load, command>>

\* A device tree of the archive goes behind the kernel, one of the loader stays;
\* either address is rounded down.
CopyDtbBehind(end) ==
  LET address == IF "dtb" \in from_cpio THEN load["kernel"] + end + DtbAlign ELSE init_reg_a1
      rounded == address - (address % DtbAlign)
  IN  /\ Go("copy_dtb", "copy_initramfs")
      /\ PlaceAt("dtb", rounded)
      /\ mem' = IF "dtb" \in from_cpio THEN memcpy(mem, rounded, ptr["dtb"], DtbSize) ELSE mem
      /\ UNCHANGED <<boot, ptr, from_cpio, command>>

\* Mutation: the device tree goes behind the file of the kernel.
CopyDtb_behind_file == CopyDtbBehind(kernel.file)

CopyDtb == CopyDtbBehind(kernel.image)

CopyInitramfs ==
  /\ Go("copy_initramfs", "start")
  /\ IF "initramfs" \in from_cpio
     THEN /\ PlaceAt("initramfs", INITRAMFS)
          /\ mem' = memcpy(mem, INITRAMFS, ptr["initramfs"], InitramfsSize)
     ELSE /\ PlaceAt("initramfs", ptr["initramfs"])
          /\ UNCHANGED mem
  /\ UNCHANGED <<boot, ptr, from_cpio, command>>

Start ==
  /\ Go("start", "started")
  /\ command' = [param0 |-> 0, param1 |-> load["kernel"], param2 |-> load["dtb"]]
  /\ UNCHANGED <<boot, mem, ptr, from_cpio, load>>

\* The kernel clears what its image has behind its file.
Bss == Cells(command.param1 + kernel.file, kernel.image - kernel.file)

KernelClears ==
  /\ Go("started", "runs")
  /\ mem' = [x \in Addresses |-> IF x \in Bss \cap RAM THEN <<"bss", 0>> ELSE mem[x]]
  /\ UNCHANGED <<boot, ptr, from_cpio, load, command>>

-----------------------------------------------------------------------------
\* What the loader before left in RAM: where each file that it brought lies.
Brought ==
  [file \in {f \in Files :
               \/ f = "kernel" /\ HasNextAddr
               \/ f = "dtb" /\ init_reg_a1 # 0
               \/ f = "initramfs" /\ init_reg_a1 # 0 /\ initrd_start # 0} |->
     CASE file = "kernel" -> fw_dyninfo.next_addr
       [] file = "dtb" -> init_reg_a1
       [] file = "initramfs" -> initrd_start]

BroughtCells(file) == Cells(Brought[file], Size(file))

\* The loader before did its work: its files are in RAM, behind the firmware and
\* apart from each other.
BroughtWell ==
  \A f \in DOMAIN Brought :
    /\ BroughtCells(f) \subseteq RAM \ Firmware
    /\ \A g \in DOMAIN Brought \ {f} : BroughtCells(f) \cap BroughtCells(g) = {}

InFlash(x) == {f \in archive : x \in Cells(Flash[f], Size(f))}
InRAM(x)   == {f \in DOMAIN Brought : x \in BroughtCells(f)}

FirstMemory ==
  [x \in Addresses |->
     CASE x \in Firmware -> <<"firmware", x>>
       [] InRAM(x) # {}   -> LET f == CHOOSE f \in InRAM(x) : TRUE IN <<f, x - Brought[f]>>
       [] InFlash(x) # {} -> LET f == CHOOSE f \in InFlash(x) : TRUE IN <<f, x - Flash[f]>>
       [] OTHER -> <<"none", 0>>]

Init ==
  /\ kernel \in Kernels
  /\ fw_dyninfo \in FwDyninfos
  /\ init_reg_a1 \in DtbAddrs
  /\ initrd_start \in InitrdAddrs
  /\ init_reg_a1 = 0 => initrd_start = 0
  /\ archive \in SUBSET Files
  /\ BroughtWell
  /\ place = "kernel"
  /\ mem = FirstMemory
  /\ ptr = [f \in Files |-> 0]
  /\ from_cpio = {}
  /\ load = [f \in Files |-> 0]
  /\ command = [param0 |-> -1, param1 |-> 0, param2 |-> 0]

Next ==
  \/ LocateKernel \/ LocateDtb \/ LocateInitramfs \/ Halt
  \/ PlaceKernel \/ NextBoundary \/ CopyKernel
  \/ CopyDtb \/ CopyInitramfs
  \/ Start \/ KernelClears

Spec == Init /\ [][Next]_vars /\ WF_vars(Next)

-----------------------------------------------------------------------------
(* Where the files go and when they have room, from the boot's inputs.     *)

Missing == Files \ (archive \cup DOMAIN Brought)

LeastOf(S) == CHOOSE x \in S : \A y \in S : x <= y

\* The first boundary behind the heap that is not below the text offset; behind
\* the last address, the first one behind the heap.
Spot ==
  LET rooms == {x \in Addresses : x % Boundary = 0 /\ x >= mem_block_end}
      above == {x \in rooms : x >= (PROGAMIMAGE_START + kernel.text) % W}
  IN  LeastOf(IF above = {} THEN rooms ELSE above)

Image   == Cells(Spot, kernel.image)
DtbSpot ==
  IF "dtb" \in DOMAIN Brought THEN Brought["dtb"]
  ELSE ((Spot + kernel.image + DtbAlign) \div DtbAlign) * DtbAlign
InitramfsSpot == IF "initramfs" \in DOMAIN Brought THEN Brought["initramfs"] ELSE INITRAMFS

DtbCells       == Cells(DtbSpot, DtbSize)
InitramfsCells == Cells(InitramfsSpot, InitramfsSize)

Fits ==
  /\ Image \cup DtbCells \cup InitramfsCells \subseteq RAM \ Firmware
  /\ Image \cap (DtbCells \cup InitramfsCells) = {}
  /\ DtbCells \cap InitramfsCells = {}
  /\ DtbSpot % DtbAlign = 0
  \* A copy upwards must not reach cells that it has yet to read.
  /\ "kernel" \in DOMAIN Brought =>
       Spot \notin (Brought["kernel"] + 1)..(Brought["kernel"] + kernel.file - 1)

Lies(file, start) == \A j \in 0..(Size(file) - 1) : mem[(start + j) % W] = <<file, j>>

Cleared == \A x \in Bss : mem[x] = <<"bss", 0>>

Intact ==
  /\ Lies("kernel", command.param1) /\ Cleared
  /\ Lies("dtb", command.param2)
  /\ Lies("initramfs", load["initramfs"])
  /\ \A x \in Firmware : mem[x] = <<"firmware", x>>

\* The kernel starts at the right boundary, and once it has cleared its own
\* memory it finds itself, the device tree and the initramfs whole, and the
\* firmware is whole, exactly if the images had room: no order of the copies
\* loses a file that had room, and what the code does not check is all in Fits.
IntactIffFits ==
  /\ place = "halt" => Missing # {}
  /\ place = "runs" => /\ Missing = {}
                       /\ command.param1 = Spot
                       /\ Intact <=> Fits
=============================================================================
