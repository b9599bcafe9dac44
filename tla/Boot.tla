-------------------------------- MODULE Boot --------------------------------
(***************************************************************************)
(* From reset to the first hart commands: my_entry_pt, kinit on the boot   *)
(* hart, and hart_init_handler, the trap handler every hart runs once.     *)
(*                                                                         *)
(* kinit prepares the contexts of all harts, raises the software interrupt *)
(* of each, its own included, and waits until the interrupts are clear.    *)
(* hart_init_handler clears the interrupt before it has installed          *)
(* interrupt_entry_handler, so that from then on kmain, and every hart     *)
(* that it starts, may send a command to a hart that still initialises.    *)
(*                                                                         *)
(* A hart has a base thread (pc), which is the boot code or the idle loop, *)
(* and an interrupt thread (irq), which runs with mstatus.MIE clear.       *)
(***************************************************************************)
EXTENDS Integers

CONSTANT TOTAL_HART_COUNT

ASSUME BootAssumption == TOTAL_HART_COUNT \in Nat \ {0}

Harts == 0..(TOTAL_HART_COUNT - 1)
BootHart == 0

VARIABLES
  \* memory and devices
  contexts,  \* harts whose entry of hart_contexts is set up
  saved,     \* what hart_contexts_exception of the boot hart holds
  msip,      \* per hart: software interrupt pending
  \* per hart: CSRs
  mtvec,     \* trap vector
  mscratch,  \* the context that traps save to
  mie,       \* mstatus.MIE
  \* per hart: registers
  regs,      \* the registers of the base thread: its own, or another's
  tp, sp,    \* thread and stack pointer
  s0,        \* hart_init_handler's copy of the old mscratch
  \* per hart: control
  pc,        \* base thread
  irq,       \* interrupt thread, "none" when there is none
  i,         \* the hart that kinit's loops are at
  \* history
  owed       \* per hart: a command was sent and not received

csrs == <<mtvec, mscratch, mie>>
rgs  == <<regs, tp, sp, s0>>
mem  == <<contexts, saved>>
ctl  == <<pc, irq, i>>
vars == <<mem, msip, csrs, rgs, ctl, owed>>

\* After reset interrupts are disabled; what mscratch and sp hold is not known.
Init ==
  /\ contexts = {} /\ saved = "nothing"
  /\ msip = [h \in Harts |-> 0]
  /\ mtvec = [h \in Harts |-> "unknown"]
  /\ mscratch = [h \in Harts |-> "unknown"]
  /\ mie = [h \in Harts |-> FALSE]
  /\ regs = [h \in Harts |-> "own"]
  /\ tp = [h \in Harts |-> "unknown"]
  /\ sp = [h \in Harts |-> "unknown"]
  /\ s0 = [h \in Harts |-> "zero"]
  /\ pc = [h \in Harts |-> "entry"]
  /\ irq = [h \in Harts |-> "none"]
  /\ i = 0
  /\ owed = [h \in Harts |-> FALSE]

-----------------------------------------------------------------------------
Goto(h, from, to) ==
  /\ irq[h] = "none"
  /\ pc[h] = from
  /\ pc' = [pc EXCEPT ![h] = to]
  /\ UNCHANGED irq

IrqGoto(h, from, to) ==
  /\ irq[h] = from
  /\ irq' = [irq EXCEPT ![h] = to]
  /\ UNCHANGED <<pc, i>>

\* One pass of a loop of kinit over the harts, then the next place.
ForEach(from, to) ==
  /\ Goto(BootHart, from, IF i = TOTAL_HART_COUNT - 1 THEN to ELSE from)
  /\ i' = (i + 1) % TOTAL_HART_COUNT

-----------------------------------------------------------------------------
(***************************************************************************)
(* Mutations: plausible bugs of the definitions that follow.               *)
(***************************************************************************)

\* kinit rings without having set its own mscratch.
SetScratch_missing ==
  /\ Goto(BootHart, "scratch", "ring")
  /\ UNCHANGED <<mem, msip, csrs, rgs, i, owed>>

\* kinit does not ring its own hart.
Ring_skips_self ==
  /\ ForEach("ring", "wait")
  /\ msip' = IF i = BootHart THEN msip ELSE [msip EXCEPT ![i] = 1]
  /\ UNCHANGED <<mem, csrs, rgs, owed>>

\* The hart keeps hart_init_handler as its trap handler.
InitVector_missing(h) ==
  /\ IrqGoto(h, "vector", "probe")
  /\ UNCHANGED <<mem, msip, csrs, rgs, owed>>

\* mscratch is left swapped.
InitScratch_missing(h) ==
  /\ IrqGoto(h, "scratch", "tp")
  /\ UNCHANGED <<mem, msip, csrs, rgs, owed>>

\* A hart whose registers were not saved jumps to idle_loop: no mret.
InitRestore_masked(h) ==
  /\ IrqGoto(h, "restore", "none")
  /\ regs' = [regs EXCEPT ![h] =
       IF s0[h] = "exception" /\ saved = "base" THEN "own" ELSE @]
  /\ mie' = [mie EXCEPT ![h] = s0[h] = "exception"]
  /\ UNCHANGED <<mem, msip, mtvec, mscratch, tp, sp, s0, owed>>

\* The contexts are set up after the harts have been woken.
Contexts_late ==
  /\ ForEach("contexts", "scratch")
  /\ UNCHANGED <<mem, msip, csrs, rgs, owed>>

-----------------------------------------------------------------------------
(***************************************************************************)
(* my_entry_pt and kinit                                                   *)
(***************************************************************************)

\* my_entry_pt.  The boot hart goes on to kinit, the others to idle_loop.
Entry(h) ==
  /\ Goto(h, "entry", IF h = BootHart THEN "contexts" ELSE "idle")
  /\ mtvec' = [mtvec EXCEPT ![h] = "hart_init_handler"]
  /\ mscratch' = [mscratch EXCEPT ![h] = "zero"]
  /\ mie' = [mie EXCEPT ![h] = TRUE]
  /\ sp' = [sp EXCEPT ![h] = IF h = BootHart THEN "KISTACK" ELSE @]
  /\ UNCHANGED <<mem, msip, regs, tp, s0, i, owed>>

Contexts ==
  /\ ForEach("contexts", "scratch")
  /\ contexts' = contexts \cup {i}
  /\ UNCHANGED <<saved, msip, csrs, rgs, owed>>

SetScratch ==
  /\ Goto(BootHart, "scratch", "ring")
  /\ mscratch' = [mscratch EXCEPT ![BootHart] = "exception"]
  /\ UNCHANGED <<mem, msip, mtvec, mie, rgs, i, owed>>

Ring ==
  /\ ForEach("ring", "wait")
  /\ msip' = [msip EXCEPT ![i] = 1]
  /\ UNCHANGED <<mem, csrs, rgs, owed>>

\* while (clint_hart_msip_ctls[i]) {}
Wait ==
  /\ msip[i] = 0
  /\ ForEach("wait", "kmain")
  /\ UNCHANGED <<mem, msip, csrs, rgs, owed>>

-----------------------------------------------------------------------------
(***************************************************************************)
(* hart_init_handler                                                       *)
(***************************************************************************)

TakeIrq(h) ==
  /\ msip[h] = 1 /\ mie[h]
  /\ IrqGoto(h, "none",
       IF mtvec[h] = "hart_init_handler" THEN "swap" ELSE "command")
  /\ mie' = [mie EXCEPT ![h] = FALSE]
  /\ UNCHANGED <<mem, msip, mtvec, mscratch, rgs, owed>>

\* csrrw s0, mscratch, s0, and SAVE_REGS if a context was in mscratch.  From
\* here on the registers are the handler's.
InitSwap(h) ==
  /\ IrqGoto(h, "swap", "find")
  /\ s0' = [s0 EXCEPT ![h] = mscratch[h]]
  /\ mscratch' = [mscratch EXCEPT ![h] = "unknown"]
  /\ saved' = IF mscratch[h] = "exception" THEN "base" ELSE saved
  /\ regs' = [regs EXCEPT ![h] = "handler"]
  /\ UNCHANGED <<contexts, msip, mtvec, mie, tp, sp, owed>>

\* A hart that is not found in hart_contexts stays in idle_loop, interrupts
\* disabled.
InitFind(h) ==
  /\ IrqGoto(h, "find", IF h \in contexts THEN "ack" ELSE "dead")
  /\ UNCHANGED <<mem, msip, csrs, rgs, owed>>

InitAck(h) ==
  /\ IrqGoto(h, "ack", "scratch")
  /\ msip' = [msip EXCEPT ![h] = 0]
  /\ UNCHANGED <<mem, csrs, rgs, owed>>

InitScratch(h) ==
  /\ IrqGoto(h, "scratch", "tp")
  /\ mscratch' = [mscratch EXCEPT ![h] = "user"]
  /\ UNCHANGED <<mem, msip, mtvec, mie, rgs, owed>>

InitTp(h) ==
  /\ IrqGoto(h, "tp", "vector")
  /\ tp' = [tp EXCEPT ![h] = "own"]
  /\ UNCHANGED <<mem, msip, csrs, regs, sp, s0, owed>>

InitVector(h) ==
  /\ IrqGoto(h, "vector", "probe")
  /\ mtvec' = [mtvec EXCEPT ![h] = "interrupt_entry_handler"]
  /\ UNCHANGED <<mem, msip, mscratch, mie, rgs, owed>>

\* probe_csr: writes its instructions below sp, and borrows mtvec.
InitProbe(h) ==
  /\ IrqGoto(h, "probe", "restore")
  /\ UNCHANGED <<mem, msip, csrs, rgs, owed>>

\* LOAD_REGS if they were saved, with the new tp, and mret.
InitRestore(h) ==
  /\ IrqGoto(h, "restore", "none")
  /\ regs' = [regs EXCEPT ![h] =
       IF s0[h] = "exception" /\ saved = "base" THEN "own" ELSE @]
  /\ mie' = [mie EXCEPT ![h] = TRUE]
  /\ UNCHANGED <<mem, msip, mtvec, mscratch, tp, sp, s0, owed>>

-----------------------------------------------------------------------------
(***************************************************************************)
(* Hart commands, which Harts models in detail.                            *)
(***************************************************************************)

\* send_hart_command_que: from kmain, or from a hart that it has started.
SendCommand(h) ==
  /\ pc[BootHart] = "kmain"
  /\ msip[h] = 0
  /\ msip' = [msip EXCEPT ![h] = 1]
  /\ owed' = [owed EXCEPT ![h] = TRUE]
  /\ UNCHANGED <<mem, csrs, rgs, ctl>>

\* interrupt_c_handler receives the command, and the hart returns from the
\* trap.  An empty mailbox halts it.
Command(h) ==
  /\ IrqGoto(h, "command", IF owed[h] THEN "none" ELSE "dead")
  /\ msip' = [msip EXCEPT ![h] = IF owed[h] THEN 0 ELSE @]
  /\ owed' = [owed EXCEPT ![h] = FALSE]
  /\ mie' = [mie EXCEPT ![h] = owed[h]]
  /\ UNCHANGED <<mem, mtvec, mscratch, rgs>>

-----------------------------------------------------------------------------
Kinit == Contexts \/ SetScratch \/ Ring \/ Wait

Trap(h) ==
  \/ TakeIrq(h)
  \/ InitSwap(h) \/ InitFind(h) \/ InitAck(h) \/ InitScratch(h) \/ InitTp(h)
  \/ InitVector(h) \/ InitProbe(h) \/ InitRestore(h)
  \/ Command(h)

Next ==
  \/ Kinit
  \/ \E h \in Harts : Entry(h) \/ Trap(h) \/ SendCommand(h)

\* A hart goes on executing; nobody has to send a command.
Fairness ==
  /\ WF_vars(Kinit)
  /\ \A h \in Harts : WF_vars(Entry(h)) /\ WF_vars(Trap(h))

Spec == Init /\ [][Next]_vars /\ Fairness

-----------------------------------------------------------------------------
InitStages ==
  {"swap", "find", "ack", "scratch", "tp", "vector", "probe", "restore"}

\* The values that the variables take.
TypeOK ==
  /\ contexts \subseteq Harts
  /\ saved \in {"nothing", "base"}
  /\ msip \in [Harts -> {0, 1}]
  /\ mtvec \in [Harts ->
       {"unknown", "hart_init_handler", "interrupt_entry_handler"}]
  /\ mscratch \in [Harts -> {"unknown", "zero", "exception", "user"}]
  /\ mie \in [Harts -> BOOLEAN]
  /\ regs \in [Harts -> {"own", "handler"}]
  /\ tp \in [Harts -> {"unknown", "own"}]
  /\ sp \in [Harts -> {"unknown", "KISTACK"}]
  /\ s0 \in [Harts -> {"unknown", "zero", "exception", "user"}]
  /\ pc \in [Harts ->
       {"entry", "idle", "contexts", "scratch", "ring", "wait", "kmain"}]
  /\ irq \in [Harts -> InitStages \cup {"none", "command", "dead"}]
  /\ i \in Harts
  /\ owed \in [Harts -> BOOLEAN]

-----------------------------------------------------------------------------
\* No hart is lost: each finds itself in hart_contexts, and is interrupted for
\* a command only when there is one.
NoHartDead == \A h \in Harts : irq[h] # "dead"

\* A command that is sent while its hart still runs hart_init_handler waits
\* for interrupt_entry_handler: the one-time handler clears no interrupt but
\* the one that kinit has raised.
NoCommandLost == \A h \in Harts : owed[h] => msip[h] = 1

\* interrupt_entry_handler finds a context to save to in mscratch, and its
\* thread pointer.
HandlerReady ==
  \A h \in Harts :
    irq[h] = "command" => mscratch[h] = "user" /\ tp[h] = "own"

\* hart_init_handler saves to a context or nowhere, and where it interrupts the
\* boot hart inside kinit, kinit goes on with its own registers, stays inside the
\* tables of the harts, and ends with a thread pointer.
KinitIntact ==
  /\ \A h \in Harts :
       irq[h] \in InitStages \ {"swap"} => s0[h] \in {"zero", "exception"}
  /\ irq[BootHart] = "none" => regs[BootHart] = "own" /\ i \in Harts
  /\ pc[BootHart] = "kmain" /\ irq[BootHart] = "none" => tp[BootHart] = "own"

\* kinit ends, whatever the order in which the harts answer, and every hart
\* waits for commands.
HartsReady ==
  <>[](/\ pc[BootHart] = "kmain"
       /\ \A h \in Harts : mtvec[h] = "interrupt_entry_handler")

\* A command that is sent is received.
CommandReceived == \A h \in Harts : owed[h] ~> ~owed[h]

\* What main.c:131 says: "The special registers (sp and tp) in these harts will
\* be set up by the one-time interrupt handler".
SpAndTpSetUp ==
  \A h \in Harts :
    irq[h] = "restore" => tp[h] # "unknown" /\ sp[h] # "unknown"

=============================================================================
