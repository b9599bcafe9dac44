----------------------------- MODULE BootProofs -----------------------------
(***************************************************************************)
(* Proofs about Boot, for any number of harts.                             *)
(***************************************************************************)
EXTENDS Boot, TLAPS

USE DEF csrs, rgs, mem, ctl

\* kinit has raised the software interrupt of h.
Rung(h) ==
  \/ pc[BootHart] = "ring" /\ h < i
  \/ pc[BootHart] \in {"wait", "kmain"}

\* h has cleared the software interrupt that kinit has raised.
Acked(h) ==
  mtvec[h] = "interrupt_entry_handler" \/ irq[h] \in {"scratch", "tp", "vector"}

\* Where the two kinds of hart are, and what they know there: the loops of
\* kinit start at hart 0 and cover every hart.
KinitLoops ==
  /\ pc[BootHart] \in {"entry", "contexts", "scratch", "ring", "wait", "kmain"}
  /\ \A h \in Harts \ {BootHart} : pc[h] \in {"entry", "idle"}
  /\ pc[BootHart] \in {"entry", "scratch"} => i = 0
  /\ pc[BootHart] = "contexts" => \A h \in Harts : h < i => h \in contexts
  /\ pc[BootHart] \in {"scratch", "ring", "wait", "kmain"} => Harts \subseteq contexts
  /\ pc[BootHart] = "wait" => \A h \in Harts : h < i => Acked(h)
  /\ pc[BootHart] = "kmain" => \A h \in Harts : Acked(h)

\* Nothing interrupts a hart before kinit rings it; when it has been rung, its
\* interrupt is pending until it has cleared it.
RungOnce ==
  \A h \in Harts :
    IF Rung(h) THEN Acked(h) \/ msip[h] = 1
    ELSE msip[h] = 0 /\ irq[h] = "none" /\ mtvec[h] # "interrupt_entry_handler"

\* The trap vector, by the stage of the one-time handler.
Vectors ==
  \A h \in Harts :
    /\ mtvec[h] = "unknown" <=> pc[h] = "entry"
    /\ pc[h] = "entry" \/ irq[h] # "none" => ~mie[h]
    /\ irq[h] \in {"swap", "find", "ack", "scratch", "tp", "vector"} =>
         mtvec[h] = "hart_init_handler"
    /\ irq[h] \in {"probe", "restore", "command", "dead"} =>
         mtvec[h] = "interrupt_entry_handler"

\* Once the hart has cleared the interrupt of kinit, its interrupt means a
\* command, and there are no commands before.
OwedIsPending ==
  \A h \in Harts :
    /\ owed[h] => pc[BootHart] = "kmain"
    /\ Acked(h) => (owed[h] <=> msip[h] = 1)
    /\ irq[h] = "command" => owed[h]
    /\ irq[h] # "dead"

\* The context pointer: before the one-time handler runs it is what the boot
\* code has left, and at the boot hart the context kinit's registers go to.
Scratches ==
  \A h \in Harts :
    /\ mtvec[h] = "hart_init_handler" /\ irq[h] \in {"none", "swap"} =>
         /\ mscratch[h] \in {"zero", "exception"}
         /\ h = BootHart /\ pc[h] \in {"ring", "wait", "kmain"} =>
              mscratch[h] = "exception"
    /\ irq[h] \in {"tp", "vector"} \/ mtvec[h] = "interrupt_entry_handler" =>
         mscratch[h] = "user"
    /\ irq[h] = "vector" \/ mtvec[h] = "interrupt_entry_handler" => tp[h] = "own"

\* The registers that the one-time handler saves, and where.
KinitSaved ==
  /\ \A h \in Harts :
       irq[h] \in InitStages \ {"swap"} => s0[h] \in {"zero", "exception"}
  /\ IF irq[BootHart] \in InitStages \ {"swap"}
       THEN s0[BootHart] = "exception" /\ saved = "base"
       ELSE regs[BootHart] = "own"

BootParts ==
  KinitLoops /\ RungOnce /\ Vectors /\ OwedIsPending /\ Scratches /\ KinitSaved

BootInv == TypeOK /\ BootParts

-----------------------------------------------------------------------------
\* The boot hart is a hart, and ids are numbers.
LEMMA HartIds ==
  /\ BootHart \in Harts
  /\ \A h \in Harts : h \in Int /\ 0 <= h /\ h <= TOTAL_HART_COUNT - 1
  /\ TOTAL_HART_COUNT \in Nat /\ TOTAL_HART_COUNT >= 1
BY BootAssumption DEF Harts, BootHart

\* A pass of a loop of kinit goes to the next hart, and after the last one back
\* to the first.
LEMMA LoopPass ==
  ASSUME TypeOK, NEW from, NEW to, ForEach(from, to)
  PROVE  /\ irq[BootHart] = "none" /\ pc[BootHart] = from /\ irq' = irq
         /\ \/ /\ i = TOTAL_HART_COUNT - 1 /\ i' = 0
               /\ pc' = [pc EXCEPT ![BootHart] = to]
            \/ /\ i < TOTAL_HART_COUNT - 1 /\ i' = i + 1
               /\ pc' = [pc EXCEPT ![BootHart] = from]
<1>1. i \in Nat /\ i <= TOTAL_HART_COUNT - 1
  BY HartIds DEF TypeOK, Harts
<1>2. CASE i = TOTAL_HART_COUNT - 1
  <2>1. TOTAL_HART_COUNT % TOTAL_HART_COUNT = 0
    BY HartIds
  <2> QED BY <1>1, <1>2, <2>1, HartIds DEF ForEach, Goto
<1>3. CASE i < TOTAL_HART_COUNT - 1
  <2>1. (i + 1) % TOTAL_HART_COUNT = i + 1
    BY <1>1, <1>3, HartIds
  <2>2. i # TOTAL_HART_COUNT - 1
    BY <1>1, <1>3, HartIds
  <2>3. i' = i + 1
    BY <2>1 DEF ForEach
  <2> QED BY <1>3, <2>2, <2>3 DEF ForEach, Goto
<1> QED BY <1>1, <1>2, <1>3, HartIds

\* After reset every hart is at my_entry_pt.
LEMMA InitBootInv == Init => BootInv
<1> SUFFICES ASSUME Init PROVE BootInv
  OBVIOUS
<1>1. TypeOK
  BY HartIds DEF Init, TypeOK, BootHart
<1>2. KinitLoops
  BY HartIds DEF Init, KinitLoops
<1>3. RungOnce
  BY HartIds DEF Init, RungOnce, Rung
<1>4. Vectors /\ OwedIsPending /\ Scratches /\ KinitSaved
  BY HartIds DEF Init, Vectors, OwedIsPending, Acked, Scratches, KinitSaved, InitStages
<1> QED BY <1>1, <1>2, <1>3, <1>4 DEF BootInv, BootParts

\* Every step of the boot code and of the handlers keeps the types.
LEMMA BootTypes == TypeOK /\ [Next]_vars => TypeOK'
<1> SUFFICES ASSUME TypeOK, [Next]_vars PROVE TypeOK'
  OBVIOUS
<1>1. CASE UNCHANGED vars
  BY <1>1 DEF vars, TypeOK
<1>2. ASSUME NEW from, NEW to \in {"contexts", "scratch", "ring", "wait", "kmain"},
             ForEach(from, to),
             from \in {"contexts", "scratch", "ring", "wait", "kmain"}
      PROVE  /\ i' \in Harts /\ irq' = irq
             /\ pc' \in [Harts ->
                  {"entry", "idle", "contexts", "scratch", "ring", "wait", "kmain"}]
  BY <1>2, LoopPass, HartIds DEF TypeOK, Harts
<1> USE DEF TypeOK
<1>3. CASE Contexts
  BY <1>2, <1>3 DEF Contexts
<1>4. CASE SetScratch
  BY <1>4, HartIds DEF SetScratch, Goto
<1>5. CASE Ring
  BY <1>2, <1>5 DEF Ring
<1>6. CASE Wait
  BY <1>2, <1>6 DEF Wait
<1> USE DEF InitStages, IrqGoto
<1>7. ASSUME NEW h \in Harts, Entry(h) PROVE TypeOK'
  BY <1>7 DEF Entry, Goto
<1>8. ASSUME NEW h \in Harts, TakeIrq(h) PROVE TypeOK'
  BY <1>8 DEF TakeIrq
<1>9. ASSUME NEW h \in Harts, InitSwap(h) PROVE TypeOK'
  BY <1>9 DEF InitSwap
<1>10. ASSUME NEW h \in Harts, InitFind(h) PROVE TypeOK'
  BY <1>10 DEF InitFind
<1>11. ASSUME NEW h \in Harts, InitAck(h) PROVE TypeOK'
  BY <1>11 DEF InitAck
<1>12. ASSUME NEW h \in Harts, InitScratch(h) PROVE TypeOK'
  BY <1>12 DEF InitScratch
<1>13. ASSUME NEW h \in Harts, InitTp(h) PROVE TypeOK'
  BY <1>13 DEF InitTp
<1>14. ASSUME NEW h \in Harts, InitVector(h) PROVE TypeOK'
  BY <1>14 DEF InitVector
<1>15. ASSUME NEW h \in Harts, InitProbe(h) PROVE TypeOK'
  BY <1>15 DEF InitProbe
<1>16. ASSUME NEW h \in Harts, InitRestore(h) PROVE TypeOK'
  BY <1>16 DEF InitRestore
<1>17. ASSUME NEW h \in Harts, Command(h) PROVE TypeOK'
  BY <1>17 DEF Command
<1>18. ASSUME NEW h \in Harts, SendCommand(h) PROVE TypeOK'
  BY <1>18 DEF SendCommand
<1> QED BY <1>1, <1>3, <1>4, <1>5, <1>6, <1>7, <1>8, <1>9, <1>10, <1>11, <1>12, <1>13,
       <1>14, <1>15, <1>16, <1>17, <1>18 DEF Next, Kinit, Trap

\* Every step keeps the invariant.
LEMMA BootStep == BootInv /\ [Next]_vars => BootInv'
<1> SUFFICES ASSUME BootInv, [Next]_vars PROVE BootInv'
  OBVIOUS
<1>0. TypeOK /\ TypeOK' /\ BootParts
  BY BootTypes DEF BootInv
<1> SUFFICES BootParts'
  BY <1>0 DEF BootInv
<1> USE <1>0, HartIds DEF BootParts, TypeOK, Rung, Acked, KinitLoops, RungOnce,
      Vectors, OwedIsPending, Scratches, KinitSaved, InitStages
<1>1. CASE UNCHANGED vars
  BY <1>1 DEF vars
<1>3. CASE Contexts
  BY <1>3, LoopPass DEF Contexts
<1>4. CASE SetScratch
  BY <1>4 DEF SetScratch, Goto
<1>5. CASE Ring
  BY <1>5, LoopPass DEF Ring
<1>6. CASE Wait
  BY <1>6, LoopPass DEF Wait
<1> USE DEF IrqGoto
<1>7. ASSUME NEW h \in Harts, Entry(h) PROVE BootParts'
  BY <1>7 DEF Entry, Goto
<1>8. ASSUME NEW h \in Harts, TakeIrq(h) PROVE BootParts'
  BY <1>8 DEF TakeIrq
<1>9. ASSUME NEW h \in Harts, InitSwap(h) PROVE BootParts'
  BY <1>9 DEF InitSwap
<1>10. ASSUME NEW h \in Harts, InitFind(h) PROVE BootParts'
  BY <1>10 DEF InitFind
<1>11. ASSUME NEW h \in Harts, InitAck(h) PROVE BootParts'
  BY <1>11 DEF InitAck
<1>12. ASSUME NEW h \in Harts, InitScratch(h) PROVE BootParts'
  BY <1>12 DEF InitScratch
<1>13. ASSUME NEW h \in Harts, InitTp(h) PROVE BootParts'
  BY <1>13 DEF InitTp
<1>14. ASSUME NEW h \in Harts, InitVector(h) PROVE BootParts'
  BY <1>14 DEF InitVector
<1>15. ASSUME NEW h \in Harts, InitProbe(h) PROVE BootParts'
  BY <1>15 DEF InitProbe
<1>16. ASSUME NEW h \in Harts, InitRestore(h) PROVE BootParts'
  BY <1>16 DEF InitRestore
<1>17. ASSUME NEW h \in Harts, Command(h) PROVE BootParts'
  BY <1>17 DEF Command
<1>18. ASSUME NEW h \in Harts, SendCommand(h) PROVE BootParts'
  BY <1>18 DEF SendCommand
<1> QED BY <1>1, <1>3, <1>4, <1>5, <1>6, <1>7, <1>8, <1>9, <1>10, <1>11, <1>12, <1>13,
       <1>14, <1>15, <1>16, <1>17, <1>18 DEF Next, Kinit, Trap

\* The invariant holds in whatever order any number of harts answer kinit.
THEOREM BootInvariant == Spec => []BootInv
BY InitBootInv, BootStep, PTL DEF Spec

\* NoHartDead: no hart misses its context, or is interrupted for a command that
\* does not exist.
THEOREM NoHartIsDead == Spec => []NoHartDead
<1>1. BootInv => NoHartDead
  BY DEF BootInv, BootParts, OwedIsPending, NoHartDead
<1> QED BY <1>1, BootInvariant, PTL

\* NoCommandLost: kinit waits long enough, so that hart_init_handler never
\* clears the interrupt of a command (InitAck against SendCommand).
THEOREM CommandsKept == Spec => []NoCommandLost
<1>1. BootInv => NoCommandLost
  BY DEF BootInv, BootParts, KinitLoops, OwedIsPending, NoCommandLost
<1> QED BY <1>1, BootInvariant, PTL

\* HandlerReady: when interrupt_entry_handler runs for the first time, its
\* context pointer and its thread pointer are those of its hart.
THEOREM HandlersReady == Spec => []HandlerReady
<1>1. BootInv => HandlerReady
  BY DEF BootInv, BootParts, Vectors, Scratches, HandlerReady
<1> QED BY <1>1, BootInvariant, PTL

\* KinitIntact: the one-time handler interrupts the boot hart in the middle of
\* kinit and leaves it its registers, its loop counter and a thread pointer.
THEOREM KinitStaysIntact == Spec => []KinitIntact
<1>1. BootInv => KinitIntact
  <2> SUFFICES ASSUME BootInv PROVE KinitIntact
    OBVIOUS
  <2>1. /\ \A h \in Harts :
             irq[h] \in InitStages \ {"swap"} => s0[h] \in {"zero", "exception"}
        /\ irq[BootHart] = "none" => regs[BootHart] = "own" /\ i \in Harts
    BY DEF BootInv, BootParts, TypeOK, KinitSaved, InitStages
  <2>2. ASSUME pc[BootHart] = "kmain", irq[BootHart] = "none"
        PROVE  tp[BootHart] = "own"
    BY <2>2, HartIds DEF BootInv, BootParts, KinitLoops, Acked, Scratches
  <2> QED BY <2>1, <2>2 DEF KinitIntact
<1> QED BY <1>1, BootInvariant, PTL

=============================================================================
