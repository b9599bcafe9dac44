------------------------------ MODULE Routines ------------------------------
(***************************************************************************)
(* The sequential routines of the firmware side by side: a behaviour is    *)
(* one call of one of them, with any of its arguments.  The SBI calls are  *)
(* here by their own names and constants, the other routines as instances. *)
(***************************************************************************)
EXTENDS SbiCalls

CONSTANTS
  MulDivXLEN,                                    \* of MulDiv
  BufSize, Bits, Directives, Followers,          \* of Printm
  CpioByte, Header, Archives, Filenames, Orders, \* of Cpio
  DtbByte, Register, Trees, Magics,              \* of Dtb
  Machines, PAGE, FLAGS, Tables, Frames, Asids   \* of WalkPts

VARIABLES
  routine,                                                    \* the module that runs
  call, label, a, b, quot, bit, count, sign,                        \* of MulDiv
  line, format, at, buf, flags, fdwidth, ap, out,                   \* of Printm
  archive, order, filename, ptr, datasize, found,           \* of Cpio
  tree, magic, dt_struct, offset, initrd_start, walk,               \* of Dtb
  pm, csr_satp, location, path, page_walk, shift_ammount, stage, mem_addr \* of WalkPts

mdVars == <<call, label, a, b, quot, bit, count, sign>>
prVars == <<line, format, at, buf, flags, fdwidth, ap, out>>
cpVars == <<archive, order, filename, ptr, datasize, found>>
dtVars == <<tree, magic, dt_struct, offset, initrd_start, walk>>
wpVars == <<pm, csr_satp, location, path, page_walk, shift_ammount, stage, mem_addr>>
routineVars == <<routine, mdVars, prVars, vars, cpVars, dtVars, wpVars>>

-----------------------------------------------------------------------------
\* The ten routines of ext_m_supplement.S.
MulDivRoutines ==
  {"SINGLE_MUL", "DOUBLE_MUL", "SINGLE_DIV", "DOUBLE_DIV", "SINGLE_UDIV",
   "DOUBLE_UDIV", "SINGLE_MOD", "DOUBLE_MOD", "SINGLE_UMOD", "DOUBLE_UMOD"}

MD == INSTANCE MulDiv WITH XLEN <- MulDivXLEN, mask <- bit, Routines <- MulDivRoutines
PR == INSTANCE Printm WITH i <- at
CP == INSTANCE Cpio WITH Byte <- CpioByte
DT == INSTANCE Dtb WITH Byte <- DtbByte, i <- offset, place <- walk
WP == INSTANCE WalkPts WITH machine <- pm

ASSUME RoutinesAssumption ==
  /\ MD!MulDivAssumption /\ PR!PrintmAssumption
  /\ CP!CpioAssumption /\ DT!DtbAssumption /\ WP!WalkAssumption

-----------------------------------------------------------------------------
mdIdle ==
  /\ call = 0 /\ label = "idle" /\ a = 0 /\ b = 0
  /\ quot = 0 /\ bit = 0 /\ count = 0 /\ sign = 0

prIdle ==
  /\ line = <<>> /\ format = <<>> /\ at = 0 /\ buf = 0
  /\ flags = 0 /\ fdwidth = 0 /\ ap = 0 /\ out = 0

sbIdle ==
  /\ req = 0 /\ place = "idle" /\ mask = 0 /\ base = 0 /\ i = 0
  /\ sent = 0 /\ hsm = 0 /\ device = 0 /\ machine = 0 /\ answer = 0

cpIdle ==
  /\ archive = 0 /\ order = 0 /\ filename = 0
  /\ ptr = 0 /\ datasize = 0 /\ found = <<>>

dtIdle ==
  /\ tree = 0 /\ magic = 0 /\ dt_struct = 0
  /\ offset = 0 /\ initrd_start = 0 /\ walk = "idle"

wpIdle ==
  /\ pm = 0 /\ csr_satp = 0 /\ location = 0 /\ path = 0
  /\ page_walk = 0 /\ shift_ammount = 0 /\ stage = "idle" /\ mem_addr = 0

RoutinesInit ==
  \/ /\ routine = "MulDiv" /\ MD!Init
     /\ prIdle /\ sbIdle /\ cpIdle /\ dtIdle /\ wpIdle
  \/ /\ routine = "Printm" /\ PR!Init
     /\ mdIdle /\ sbIdle /\ cpIdle /\ dtIdle /\ wpIdle
  \/ /\ routine = "SbiCalls" /\ Init
     /\ mdIdle /\ prIdle /\ cpIdle /\ dtIdle /\ wpIdle
  \/ /\ routine = "Cpio" /\ CP!Init
     /\ mdIdle /\ prIdle /\ sbIdle /\ dtIdle /\ wpIdle
  \/ /\ routine = "Dtb" /\ DT!Init
     /\ mdIdle /\ prIdle /\ sbIdle /\ cpIdle /\ wpIdle
  \/ /\ routine = "WalkPts" /\ WP!Init
     /\ mdIdle /\ prIdle /\ sbIdle /\ cpIdle /\ dtIdle

CallMulDiv ==
  /\ routine = "MulDiv" /\ MD!Next
  /\ UNCHANGED <<routine, prVars, vars, cpVars, dtVars, wpVars>>
CallPrintm ==
  /\ routine = "Printm" /\ PR!Next
  /\ UNCHANGED <<routine, mdVars, vars, cpVars, dtVars, wpVars>>
CallSbiCalls ==
  /\ routine = "SbiCalls" /\ Next
  /\ UNCHANGED <<routine, mdVars, prVars, cpVars, dtVars, wpVars>>
CallCpio ==
  /\ routine = "Cpio" /\ CP!Next
  /\ UNCHANGED <<routine, mdVars, prVars, vars, dtVars, wpVars>>
CallDtb ==
  /\ routine = "Dtb" /\ DT!Next
  /\ UNCHANGED <<routine, mdVars, prVars, vars, cpVars, wpVars>>
CallWalkPts ==
  /\ routine = "WalkPts" /\ WP!Next
  /\ UNCHANGED <<routine, mdVars, prVars, vars, cpVars, dtVars>>

RoutinesNext ==
  CallMulDiv \/ CallPrintm \/ CallSbiCalls \/ CallCpio \/ CallDtb \/ CallWalkPts

\* The hart that runs the routine goes on: nothing in a routine waits.
RoutinesSpec ==
  RoutinesInit /\ [][RoutinesNext]_routineVars /\ WF_routineVars(RoutinesNext)

-----------------------------------------------------------------------------
\* MulDiv: every routine returns what the instruction it stands in for does.
ResultRight == MD!ResultRight

\* MulDiv: the invariant of the loops of the divisions.
LongDivision == MD!LongDivision

\* Printm: a call prints its texts and directives in order and each of them
\* once, whatever the buffer holds and the last directive left behind.
PrintsRight == PR!PrintsRight

\* Cpio and Dtb: the search finds the first file of a name, with its length, and
\* the walk over a device tree finds the address of the initramfs.
FilesFound == CP!CpioFound /\ DT!DtbFound

\* WalkPts: the walk finds what the page tables map an address to.
WalkRight == WP!WalkRight

\* Every routine returns, whatever it is called with: the loops of the divisions
\* and of the hart masks end, the interpreter reaches the end of its string, and
\* the searches reach the end of archive, tree and page tables.
Returns ==
  <>(\/ label = "done"
     \/ routine = "Printm" /\ PR!Finished
     \/ place \in {"smode", "gone"}
     \/ found # <<>>
     \/ walk = "done"
     \/ stage = "done")
=============================================================================
