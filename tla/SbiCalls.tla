------------------------------ MODULE SbiCalls ------------------------------
(***************************************************************************)
(* One environment call of S-mode, from the trap to the answer: the        *)
(* dispatch of call_to_sbi, the checks of every function in their order,   *)
(* the loops over the hart masks at the width of a register, and what the  *)
(* call does to the world.  The interleaving of such calls is in Harts;    *)
(* here a call is alone and its arguments are numbers.                     *)
(***************************************************************************)
EXTENDS Integers, Sequences, FiniteSets

CONSTANTS
  XLEN,              \* bits of a register
  TOTAL_HART_COUNT, USE_HART_COUNT,
  MEMORY_BASE, MEMORY_AVAILABLE,
  mhartid,           \* the hart that makes the call
  INT_BITS,          \* bits of a uint32_t, no more than XLEN
  ResetDevices       \* whether the build knows a reset device

W == 2^XLEN
ULONG_MAX == W - 1

ASSUME SbiCallsAssumption ==
  /\ XLEN \in Nat \ {0}
  /\ TOTAL_HART_COUNT \in 1..XLEN
  /\ USE_HART_COUNT \in 1..TOTAL_HART_COUNT
  /\ mhartid \in (TOTAL_HART_COUNT - USE_HART_COUNT)..(TOTAL_HART_COUNT - 1)
  /\ MEMORY_BASE \in Nat /\ MEMORY_AVAILABLE \in Nat
  /\ MEMORY_BASE + MEMORY_AVAILABLE < W
  /\ INT_BITS \in 4..XLEN
  /\ ResetDevices \subseteq BOOLEAN

\* What the proofs need to know of ^, of which the provers know nothing.
ASSUME PowersOfTwo ==
  /\ 2^0 = 1
  /\ \A n \in 0..XLEN : 2^n \in Nat \ {0} /\ 2^(n + 1) = 2 * 2^n

Words == 0..ULONG_MAX
Harts == 0..(TOTAL_HART_COUNT - 1)

\* The extensions by name.  A call, or a probe, may name any number.
Extensions == {"BASE", "TIME", "IPI", "RFNC", "HSM", "SRST", "PMU", "unknown"}

VARIABLES
  req,       \* the registers of the call: a7, a6 and a0, a1, as ext, fid, p0, p1
  place,     \* "entry", the loops "check" and "act", "reset", "smode", "gone"
  mask,      \* tmp_hart_mask
  base,      \* hart_mask_base
  i,         \* the count of the loop
  sent,      \* the commands that left this hart, in order
  hsm,       \* sbi_hsm_states
  device,    \* what was stored to the reset device, "absent" without one
  machine,   \* "on", or "off" once the device has stopped it
  answer     \* REG_A0 and REG_A1 of the caller

vars == <<req, place, mask, base, i, sent, hsm, device, machine, answer>>

world == <<sent, hsm, device, machine>>
loop  == <<mask, base, i>>

-----------------------------------------------------------------------------
is_valid_hartid(id) == id >= TOTAL_HART_COUNT - USE_HART_COUNT /\ id < TOTAL_HART_COUNT

is_valid_phys_mem_addr(address, required_alignment) ==
  /\ address % 2^required_alignment = 0
  /\ address >= MEMORY_BASE
  /\ address < MEMORY_BASE + MEMORY_AVAILABLE

Called(ext, fid) == place = "entry" /\ req.ext = ext /\ req.fid = fid

\* The answer of call_to_sbi goes to the registers of the caller.
Answer(error, value) ==
  /\ place' = "smode"
  /\ answer' = [error |-> error, value |-> value]
  /\ UNCHANGED <<req, loop>>

Fail(error) == Answer(error, 0) /\ UNCHANGED world

-----------------------------------------------------------------------------
(* The base extension. *)

sbi_get_spec_version == Called("BASE", 0) /\ Answer("SUCCESS", 3) /\ UNCHANGED world
sbi_get_impl_id      == Called("BASE", 1) /\ Answer("SUCCESS", 6) /\ UNCHANGED world
sbi_get_impl_version == Called("BASE", 2) /\ Answer("SUCCESS", 0) /\ UNCHANGED world

Probe(ext) == IF ext \in {"BASE", "TIME", "IPI", "RFNC", "HSM", "SRST"} THEN 1 ELSE 0

sbi_probe_extension ==
  Called("BASE", 3) /\ Answer("SUCCESS", Probe(req.p0)) /\ UNCHANGED world

\* mvendorid, marchid and mimpid: what the machine says.
ReadIdentity ==
  /\ \E fid \in 4..6 : Called("BASE", fid)
  /\ \E id \in {0, ULONG_MAX} : Answer("SUCCESS", id)
  /\ UNCHANGED world

\* The timer itself is in Timer.
sbi_set_timer == Called("TIME", 0) /\ Answer("SUCCESS", 0) /\ UNCHANGED world

-----------------------------------------------------------------------------
(* Interprocessor interrupts and remote fences: one pass of a loop is a    *)
(* step.                                                                   *)

MaskCalls ==
  [ext : {"IPI"}, fid : {0}] \cup [ext : {"RFNC"}, fid : {0, 1, 2}]

Command ==
  CASE req.ext = "IPI"                   -> "SMODE_SOFTINT"
    [] req.ext = "RFNC" /\ req.fid = 0 -> "REMOTE_FENCE_I"
    [] req.ext = "RFNC" /\ req.fid = 1 -> "REMOTE_SFENCE_VMA"
    [] req.ext = "RFNC" /\ req.fid = 2 -> "REMOTE_SFENCE_VMA_ASID"

\* The bits from TOTAL_HART_COUNT - USE_HART_COUNT to TOTAL_HART_COUNT - 1.
AllHarts == 2^TOTAL_HART_COUNT - 2^(TOTAL_HART_COUNT - USE_HART_COUNT)

hart_mask == IF req.p1 = ULONG_MAX THEN AllHarts ELSE req.p0

\* hart_mask_base + i
hartid == (base + i) % W

EnterMask ==
  /\ \E c \in MaskCalls : Called(c.ext, c.fid)
  /\ place' = "check"
  /\ mask' = hart_mask
  /\ base' = IF req.p1 = ULONG_MAX THEN 0 ELSE req.p1
  /\ i' = 0
  /\ UNCHANGED <<req, answer, world>>

\* Mutation: the bit is not counted.
NextBit_keeps_i ==
  /\ mask' = mask \div 2
  /\ UNCHANGED <<req, place, base, i, answer>>

NextBit ==
  /\ mask' = mask \div 2
  /\ i' = i + 1
  /\ UNCHANGED <<req, place, base, answer>>

\* Mutation: the id is checked without the base.
CheckBit_no_base ==
  /\ place = "check" /\ i < XLEN
  /\ mask % 2 = 1 => is_valid_hartid(i)
  /\ NextBit
  /\ UNCHANGED world

CheckBit ==
  /\ place = "check" /\ i < XLEN
  /\ mask % 2 = 1 => is_valid_hartid(hartid)
  /\ NextBit
  /\ UNCHANGED world

CheckFails ==
  /\ place = "check" /\ i < XLEN
  /\ mask % 2 = 1 /\ ~is_valid_hartid(hartid)
  /\ Fail("INVALID_PARAM")

CheckEnd ==
  /\ place = "check" /\ i = XLEN
  /\ place' = "act"
  /\ mask' = hart_mask
  /\ i' = 0
  /\ UNCHANGED <<req, base, answer, world>>

\* The caller acts on itself at once and sends a command to any other hart.
ActBit ==
  /\ place = "act" /\ i < XLEN
  /\ sent' = IF mask % 2 = 0 THEN sent
             ELSE Append(sent, [to |-> hartid,
                                command |-> IF hartid = mhartid THEN "local" ELSE Command])
  /\ NextBit
  /\ UNCHANGED <<hsm, device, machine>>

ActEnd == place = "act" /\ i = XLEN /\ Answer("SUCCESS", 0) /\ UNCHANGED world

\* The fences of the hypervisor extension.
HFence == (\E fid \in 3..6 : Called("RFNC", fid)) /\ Fail("NOT_SUPPORTED")

-----------------------------------------------------------------------------
(* Hart state management.  p0 is the hart id, p1 the address. *)

SBI_HSM ==
  [STARTED |-> 0, STOPPED |-> 1, START_PENDING |-> 2, STOP_PENDING |-> 3, SUSPENDED |-> 4,
   SUSPEND_PENDING |-> 5, RESUME_PENDING |-> 6]

AlreadyUp == {"STARTED", "START_PENDING", "RESUME_PENDING"}

sbi_hart_start_fails ==
  /\ Called("HSM", 0)
  /\ \/ ~is_valid_hartid(req.p0) /\ Fail("INVALID_PARAM")
     \/ /\ is_valid_hartid(req.p0)
        /\ ~is_valid_phys_mem_addr(req.p1, 2)
        /\ Fail("INVALID_ADDRESS")
     \/ /\ is_valid_hartid(req.p0)
        /\ is_valid_phys_mem_addr(req.p1, 2)
        /\ req.p0 = mhartid \/ hsm[req.p0] \in AlreadyUp
        /\ Fail("ALREADY_AVAILABLE")

sbi_hart_start ==
  /\ Called("HSM", 0)
  /\ is_valid_hartid(req.p0)
  /\ is_valid_phys_mem_addr(req.p1, 2)
  /\ req.p0 # mhartid
  /\ hsm[req.p0] \notin AlreadyUp
  /\ hsm' = [hsm EXCEPT ![req.p0] = "START_PENDING"]
  /\ sent' = Append(sent, [to |-> req.p0, command |-> "STARTHART"])
  /\ Answer("SUCCESS", 0)
  /\ UNCHANGED <<device, machine>>

\* The hart leaves S-mode by switch_context and gives no answer.
Leave(state) ==
  /\ hsm' = [hsm EXCEPT ![mhartid] = state]
  /\ place' = "gone"
  /\ UNCHANGED <<req, loop, sent, device, machine, answer>>

sbi_hart_stop == Called("HSM", 1) /\ Leave("STOPPED")

sbi_hart_get_status ==
  /\ Called("HSM", 2)
  /\ \/ ~is_valid_hartid(req.p0) /\ Fail("INVALID_PARAM")
     \/ is_valid_hartid(req.p0) /\ Answer("SUCCESS", SBI_HSM[hsm[req.p0]]) /\ UNCHANGED world

\* A uint32_t parameter takes the low bits of its register.
uint32(word) == word % 2^INT_BITS

\* 0 and 0x80000000 are the retentive and the nonretentive default; up to
\* 0x0FFFFFFF behind each the types are reserved, and the rest is for platforms.
DefaultType(type)  == type % 2^(INT_BITS - 1) = 0
ReservedType(type) == type % 2^(INT_BITS - 1) \in 1 .. (2^(INT_BITS - 4) - 1)

sbi_hart_suspend ==
  /\ Called("HSM", 3)
  /\ is_valid_phys_mem_addr(req.p1, 2)
  /\ DefaultType(uint32(req.p0))
  /\ Leave("SUSPENDED")

\* Mutation: the state of the hart is set before its type is looked at.
sbi_hart_suspend_fails_late ==
  /\ Called("HSM", 3)
  /\ is_valid_phys_mem_addr(req.p1, 2)
  /\ ~DefaultType(uint32(req.p0))
  /\ hsm' = [hsm EXCEPT ![mhartid] = "SUSPENDED"]
  /\ Answer("INVALID_PARAM", 0)
  /\ UNCHANGED <<sent, device, machine>>

sbi_hart_suspend_fails ==
  /\ Called("HSM", 3)
  /\ LET type == uint32(req.p0)
     IN  \/ ~is_valid_phys_mem_addr(req.p1, 2) /\ Fail("INVALID_ADDRESS")
         \/ /\ is_valid_phys_mem_addr(req.p1, 2)
            /\ ~DefaultType(type)
            /\ Fail(IF ReservedType(type) THEN "INVALID_PARAM" ELSE "NOT_SUPPORTED")

-----------------------------------------------------------------------------
(* System reset.  p0 is the type, p1 the reason. *)

ResetTypes == {0, 1, 2}   \* shutdown, cold reboot, warm reboot

sbi_system_reset_fails ==
  /\ Called("SRST", 0)
  /\ uint32(req.p1) # 0 \/ uint32(req.p0) \notin ResetTypes
  /\ Fail("INVALID_PARAM")

sbi_system_reset ==
  /\ Called("SRST", 0)
  /\ uint32(req.p1) = 0 /\ uint32(req.p0) \in ResetTypes
  /\ place' = "reset"
  /\ device' = CASE device = "absent" -> "absent"
                 [] device # "absent" /\ uint32(req.p0) = 0 -> "shutdown"
                 [] OTHER -> "reset"
  /\ UNCHANGED <<req, loop, sent, hsm, machine, answer>>

\* The device stops the machine, or the hart comes back from the store.
ResetTaken ==
  /\ place = "reset"
  /\ device # "absent"
  /\ place' = "gone"
  /\ machine' = "off"
  /\ UNCHANGED <<req, loop, sent, hsm, device, answer>>

ResetReturns == place = "reset" /\ Fail("FAILED")

-----------------------------------------------------------------------------
Functions ==
  [ext : {"BASE"}, fid : 0..6] \cup [ext : {"TIME", "IPI", "SRST"}, fid : {0}]
    \cup [ext : {"RFNC"}, fid : 0..6] \cup [ext : {"HSM"}, fid : 0..3]

Unsupported ==
  /\ place = "entry"
  /\ [ext |-> req.ext, fid |-> req.fid] \notin Functions
  /\ Fail("NOT_SUPPORTED")

\* The arguments that the functions tell apart.
Requests ==
  LET Req(ext, fids, ps, qs) == [ext : {ext}, fid : fids, p0 : ps, p1 : qs]
  IN  Req("BASE", 0..7, Extensions, {0}) \cup Req("TIME", 0..1, {0}, {0})
        \cup Req("IPI", {0}, Words, Words) \cup Req("IPI", {1}, {0}, {0})
        \cup Req("RFNC", 0..2, Words, Words) \cup Req("RFNC", 3..7, {0}, {0})
        \cup Req("HSM", {0, 3}, Words, Words) \cup Req("HSM", {1, 2, 4}, Words, {0})
        \cup Req("SRST", 0..1, Words, Words)
        \cup Req("PMU", 0..1, {0}, {0}) \cup Req("unknown", 0..1, {0}, {0})

\* The caller is a started hart; a hart that the call names may be in any state.
HsmTables(id) ==
  {[h \in Harts |-> IF h \in {id} \ {mhartid} THEN state ELSE "STARTED"] :
     state \in {"STARTED", "STOPPED", "START_PENDING", "SUSPENDED"}}

Call(r) ==
  /\ req = r
  /\ place = "entry"
  /\ mask = 0 /\ base = 0 /\ i = 0
  /\ sent = <<>>
  /\ hsm \in HsmTables(IF r.ext = "HSM" THEN r.p0 ELSE mhartid)
  /\ \E present \in IF r.ext = "SRST" THEN ResetDevices ELSE {TRUE} :
       device = IF present THEN "none" ELSE "absent"
  /\ machine = "on"
  /\ answer = [error |-> "none", value |-> 0]

Init == \E r \in Requests : Call(r)

Next ==
  \/ sbi_get_spec_version \/ sbi_get_impl_id \/ sbi_get_impl_version
  \/ sbi_probe_extension \/ ReadIdentity
  \/ sbi_set_timer
  \/ EnterMask \/ CheckBit \/ CheckFails \/ CheckEnd \/ ActBit \/ ActEnd
  \/ HFence
  \/ sbi_hart_start_fails \/ sbi_hart_start
  \/ sbi_hart_stop \/ sbi_hart_get_status
  \/ sbi_hart_suspend \/ sbi_hart_suspend_fails
  \/ sbi_system_reset_fails \/ sbi_system_reset \/ ResetTaken \/ ResetReturns
  \/ Unsupported

Spec == Init /\ [][Next]_vars /\ WF_vars(Next)

-----------------------------------------------------------------------------
Usable == {id \in Words : is_valid_hartid(id)}

\* The harts that the mask and its base name; the sum wraps around at the width
\* of a register.
Named ==
  IF req.p1 = ULONG_MAX THEN Usable
  ELSE {(req.p1 + n) % W : n \in {b \in 0..(XLEN - 1) : (req.p0 \div 2^b) % 2 = 1}}

\* An interprocessor interrupt or a remote fence reaches every hart that its
\* mask and base name, each of them once, the caller by itself, and no other
\* hart; if they name one that S-mode may not use, it reaches none and says so.
TargetsReached ==
  place = "smode" /\ [ext |-> req.ext, fid |-> req.fid] \in MaskCalls =>
    LET times(id) == Cardinality({n \in DOMAIN sent : sent[n].to = id})
    IN  /\ answer.error = IF Named \subseteq Usable THEN "SUCCESS" ELSE "INVALID_PARAM"
        /\ \A id \in Words :
             times(id) = IF id \in Named /\ Named \subseteq Usable THEN 1 ELSE 0
        /\ \A n \in DOMAIN sent :
             sent[n].command = IF sent[n].to = mhartid THEN "local" ELSE Command

\* sbi_probe_extension and call_to_sbi agree: no function of an extension that
\* the probe denies is supported, and the first function of an extension that
\* it confirms is.
ProbeTruthful ==
  place = "smode" /\ (Probe(req.ext) = 0 \/ req.fid = 0) =>
    (answer.error = "NOT_SUPPORTED" <=> Probe(req.ext) = 0)

\* The state table and the answers agree about the caller: a hart that got an
\* answer is a started one; a hart that got none is down in the table, or the
\* machine is off.
CallerUp ==
  /\ place = "smode" => hsm[mhartid] = "STARTED" /\ machine = "on"
  /\ place = "gone" => (hsm[mhartid] = "STARTED" <=> machine = "off")

\* What the probe and the state table say agrees with what the calls do.
AnswersTruthful == ProbeTruthful /\ CallerUp
=============================================================================
