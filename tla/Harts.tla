------------------------------- MODULE Harts -------------------------------
(***************************************************************************)
(* The harts of the firmware and everything they share: the hart command   *)
(* mailboxes with their software interrupt bits, the spin locks, and the   *)
(* hart state table of the SBI HSM extension.                              *)
(*                                                                         *)
(* Each hart runs two threads of control.  The base thread (pc) is the     *)
(* code an M-mode interrupt interrupts: S-mode, the handler of an          *)
(* environment call (which runs with mstatus.MIE set), the idle loop, or   *)
(* kmain on the boot hart.  The interrupt thread (irq) is                  *)
(* interrupt_c_handler: it runs with MIE clear, so that it is never        *)
(* interrupted itself, and the base thread waits until it is done.         *)
(*                                                                         *)
(* A step reads or writes one shared location.  ksem_wait is one step that *)
(* is enabled when the semaphore is free: a spinning hart changes nothing. *)
(***************************************************************************)
EXTENDS Integers, FiniteSets

CONSTANTS
  TOTAL_HART_COUNT,  \* number of harts in the machine
  USE_HART_COUNT,    \* how many of them, the last ones, S-mode may name
  Calls,             \* the SBI calls that S-mode makes
  FenceCommands,     \* the remote fence commands in use
  StartAddrs,        \* valid start addresses S-mode passes to hart_start
  KernelAddr,        \* where kmain loaded the kernel
  NoAddr             \* no address, or an address that is not valid

AllCalls == {"ipi", "fence", "start", "stop", "suspend", "query"}

AllFences ==
  {"REMOTE_FENCE_I", "REMOTE_SFENCE_VMA", "REMOTE_SFENCE_VMA_ASID"}

ASSUME HartsAssumption ==
  /\ TOTAL_HART_COUNT \in Nat \ {0}
  /\ USE_HART_COUNT \in 1..TOTAL_HART_COUNT
  /\ Calls \subseteq AllCalls
  /\ FenceCommands \subseteq AllFences
  /\ NoAddr \notin StartAddrs \cup {KernelAddr}

Harts == 0..(TOTAL_HART_COUNT - 1)
BootHart == 0

\* Mutation: the id one past the last hart is accepted.
is_valid_hartid_off_by_one(id) ==
  /\ id >= TOTAL_HART_COUNT - USE_HART_COUNT
  /\ id <= TOTAL_HART_COUNT

\* is_valid_hartid
is_valid_hartid(id) ==
  /\ id >= TOTAL_HART_COUNT - USE_HART_COUNT
  /\ id < TOTAL_HART_COUNT

\* The hart ids S-mode may pass: every hart, and one that does not exist.
HartIdArgs == 0..TOTAL_HART_COUNT

Addrs == StartAddrs \cup {KernelAddr}
Commands == FenceCommands \cup {"STARTHART", "SMODE_SOFTINT"}
NoCommand == "0"
Hart_Command == [command : Commands \cup {NoCommand},
                 param1 : Addrs \cup {NoAddr}]
Message(command, param1) == [command |-> command, param1 |-> param1]
Empty == Message(NoCommand, NoAddr)

HsmStates == {"STARTED", "STOPPED", "START_PENDING", "SUSPENDED"}

VARIABLES
  \* shared memory and devices
  hart_commands,           \* per hart: its mailbox
  msip,                    \* per hart: software interrupt pending (CLINT)
  hart_command_que_locks,  \* per hart: semaphore of the mailbox
  sbi_hsm_states,          \* per hart: HSM state
  sbi_hsm_locks,           \* per hart: semaphore of the HSM state
  printm_lock,             \* semaphore of the console
  \* per hart: the base thread and its locals
  pc,                      \* where it is
  op,                      \* the SBI call it serves
  todo,                    \* target harts that it has not commanded yet
  out,                     \* the command it sends
  \* per hart: the interrupt thread and its locals
  irq,                     \* where it is, "none" if no interrupt is served
  cmd,                     \* its local copy of the command
  \* per hart: what S-mode sees
  ssip,                    \* S-mode software interrupt pending
  user_pc,                 \* REG_PC of its context in hart_contexts_user
  \* history
  want                     \* per hart: address of its outstanding start order

locks == <<hart_command_que_locks, sbi_hsm_locks, printm_lock>>
box   == <<hart_commands, msip>>
base  == <<pc, op, todo, out>>
intr  == <<irq, cmd>>
smode == <<ssip, user_pc>>
hsm   == <<sbi_hsm_states, want>>
vars  == <<locks, box, base, intr, smode, hsm>>

Init ==
  /\ hart_commands = [h \in Harts |-> Empty]
  /\ msip = [h \in Harts |-> 0]
  /\ hart_command_que_locks = [h \in Harts |-> 0]
  /\ sbi_hsm_states = [h \in Harts |-> "STOPPED"]
  /\ sbi_hsm_locks = [h \in Harts |-> 0]
  /\ printm_lock = 0
  /\ pc = [h \in Harts |-> IF h = BootHart THEN "que_lock" ELSE "idle"]
  /\ op = [h \in Harts |-> IF h = BootHart THEN "kmain" ELSE "none"]
  /\ todo = [h \in Harts |-> IF h = BootHart THEN {BootHart} ELSE {}]
  /\ out = [h \in Harts |-> IF h = BootHart
                              THEN Message("STARTHART", KernelAddr)
                              ELSE Empty]
  /\ irq = [h \in Harts |-> "none"]
  /\ cmd = [h \in Harts |-> Empty]
  /\ ssip = [h \in Harts |-> FALSE]
  /\ user_pc = [h \in Harts |-> NoAddr]
  /\ want = [h \in Harts |-> IF h = BootHart THEN KernelAddr ELSE NoAddr]

-----------------------------------------------------------------------------
(***************************************************************************)
(* Semaphores (thread_locking.S) and control flow.                         *)
(***************************************************************************)

ksem_wait(sem, t) == sem[t] = 0 /\ sem' = [sem EXCEPT ![t] = 1]
ksem_post(sem, t) == sem' = [sem EXCEPT ![t] = 0]

\* The base thread of h runs, from one location to another.
Goto(h, from, to) ==
  /\ irq[h] = "none"
  /\ pc[h] = from
  /\ pc' = [pc EXCEPT ![h] = to]

\* The interrupt thread of h goes from one location to another.
IrqGoto(h, from, to) ==
  /\ irq[h] = from
  /\ irq' = [irq EXCEPT ![h] = to]

\* The loops over the bits of a hart mask visit the targets in ascending order.
IsNext(h, t) == t \in todo[h] /\ \A u \in todo[h] : t <= u

\* Entering and leaving the handler of an environment call.
Serve(h, call, to, targets, command) ==
  /\ Goto(h, "smode", to)
  /\ op' = [op EXCEPT ![h] = call]
  /\ todo' = [todo EXCEPT ![h] = targets]
  /\ out' = [out EXCEPT ![h] = command]
  /\ UNCHANGED <<locks, box, intr, smode, hsm>>

Locals(h) ==
  /\ op' = [op EXCEPT ![h] = "none"]
  /\ todo' = [todo EXCEPT ![h] = {}]
  /\ out' = [out EXCEPT ![h] = Empty]

-----------------------------------------------------------------------------
(***************************************************************************)
(* Mutations: plausible bugs of the definitions that follow.  No           *)
(* specification uses them; each shows that a property can fail.           *)
(***************************************************************************)

\* A refused start returns without releasing the lock of the hart's state.
PrintPost_keeps_lock(h) ==
  /\ Goto(h, "print_post",
          IF op[h] \in {"stop", "suspend"} THEN "down_lock" ELSE "sret")
  /\ printm_lock' = 0
  /\ UNCHANGED <<hart_command_que_locks, sbi_hsm_locks, box, op, todo, out,
                 intr, smode, hsm>>

\* A hart that is started already is not refused.
HsCheck_pending_only(h) ==
  \E t \in todo[h] :
    LET refused == sbi_hsm_states[t] = "START_PENDING" IN
      /\ Goto(h, "hs_check", IF refused THEN "print" ELSE "hs_set")
      /\ out' = [out EXCEPT ![h] = IF refused THEN Empty ELSE @]
      /\ UNCHANGED <<locks, box, op, todo, intr, smode, hsm>>

\* The state of the hart is checked without its lock.
HsLock_missing(h) ==
  /\ Goto(h, "hs_lock", "hs_check")
  /\ UNCHANGED <<locks, box, op, todo, out, intr, smode, hsm>>

\* An accepted start leaves the state as it is.
HsSet_missing(h) ==
  /\ Goto(h, "hs_set", "hs_post")
  /\ \E t \in todo[h] : want' = [want EXCEPT ![t] = out[h].param1]
  /\ UNCHANGED <<locks, box, op, todo, out, intr, smode, sbi_hsm_states>>

\* An accepted start returns without sending the command.
HsPost_no_send(h) ==
  /\ Goto(h, "hs_post", "sret")
  /\ \E t \in todo[h] : ksem_post(sbi_hsm_locks, t)
  /\ UNCHANGED <<hart_command_que_locks, printm_lock, box, op, todo, out,
                 intr, smode, hsm>>

\* The mailbox is written without its lock.
QueLock_missing(h) ==
  /\ Goto(h, "que_lock", "que_wait")
  /\ UNCHANGED <<locks, box, op, todo, out, intr, smode, hsm>>

\* The sender does not wait for the software interrupt of its target to clear.
QueWait_missing(h) ==
  /\ Goto(h, "que_wait", "que_cmd")
  /\ UNCHANGED <<locks, box, op, todo, out, intr, smode, hsm>>

\* The software interrupt is raised before the parameters are written.
QueCommand_rings(h) ==
  /\ Goto(h, "que_cmd", "que_par")
  /\ \E t \in Harts :
       /\ IsNext(h, t)
       /\ hart_commands' = [hart_commands EXCEPT
            ![t] = Message(out[h].command, @.param1)]
       /\ msip' = [msip EXCEPT ![t] = 1]
  /\ UNCHANGED <<locks, op, todo, out, intr, smode, hsm>>

\* The sender keeps the lock of the mailbox.
QuePost_keeps_lock(h) ==
  /\ Goto(h, "que_post", IF op[h] = "kmain" THEN "idle" ELSE "loop")
  /\ \E t \in Harts :
       IsNext(h, t) /\ todo' = [todo EXCEPT ![h] = @ \ {t}]
  /\ UNCHANGED <<locks, box, op, out, intr, smode, hsm>>

\* The STARTHART handler leaves the state START_PENDING.
StartSet_missing(h) ==
  /\ IrqGoto(h, "s_set", "s_post")
  /\ want' = [want EXCEPT ![h] = NoAddr]
  /\ UNCHANGED <<locks, box, base, cmd, smode, sbi_hsm_states>>

\* The handler returns without clearing its software interrupt.
IrqAck_missing(h) ==
  /\ IrqGoto(h, "ack", "none")
  /\ cmd' = [cmd EXCEPT ![h] = Empty]
  /\ UNCHANGED <<locks, box, base, smode, hsm>>

\* The S-mode software interrupt is not raised.
IrqSsip_missing(h) ==
  /\ IrqGoto(h, "ssip", "none")
  /\ UNCHANGED <<locks, box, base, cmd, smode, hsm>>

-----------------------------------------------------------------------------
(***************************************************************************)
(* Environment calls from S-mode (exception_c_handler, call_to_sbi): the   *)
(* part before the first access to shared memory.                          *)
(***************************************************************************)

\* A call that prints and returns: sbi_hart_get_status, a call that is not
\* supported, a suspend with invalid arguments.
Query(h) ==
  /\ "query" \in Calls
  /\ Serve(h, "query", "print", {}, Empty)

\* sbi_send_ipi, sbi_remote_fence_i, sbi_remote_sfence_vma(_asid): all the ids
\* are checked before the first command is sent.
ToHarts(h, call, command) ==
  \E targets \in SUBSET HartIdArgs :
    IF \A t \in targets : is_valid_hartid(t)
      THEN Serve(h, call, "loop", targets, Message(command, NoAddr))
      ELSE Serve(h, call, "print", {}, Empty)

SendIpi(h) == "ipi" \in Calls /\ ToHarts(h, "ipi", "SMODE_SOFTINT")

RemoteFence(h) ==
  /\ "fence" \in Calls
  /\ \E c \in FenceCommands : ToHarts(h, "fence", c)

\* sbi_hart_start
HartStart(h) ==
  /\ "start" \in Calls
  /\ \E t \in HartIdArgs, addr \in StartAddrs \cup {NoAddr} :
       IF is_valid_hartid(t) /\ addr # NoAddr /\ t # h
         THEN Serve(h, "start", "hs_lock", {t}, Message("STARTHART", addr))
         ELSE Serve(h, "start", "print", {}, Empty)

\* sbi_hart_stop, and sbi_hart_suspend with valid arguments
HartDown(h) ==
  \E call \in {"stop", "suspend"} \cap Calls :
    Serve(h, call, "print", {}, Empty)

Ecall(h) ==
  \/ Query(h)
  \/ SendIpi(h)
  \/ RemoteFence(h)
  \/ HartStart(h)
  \/ HartDown(h)

-----------------------------------------------------------------------------
(***************************************************************************)
(* printm in the handler of an environment call                            *)
(***************************************************************************)

PrintWait(h) ==
  /\ Goto(h, "print", "print_post")
  /\ printm_lock = 0 /\ printm_lock' = 1
  /\ UNCHANGED <<hart_command_que_locks, sbi_hsm_locks, box, op, todo, out,
                 intr, smode, hsm>>

PrintPost(h) ==
  /\ Goto(h, "print_post",
          IF op[h] \in {"stop", "suspend"} THEN "down_lock"
          ELSE IF todo[h] # {} THEN "hs_post" ELSE "sret")
  /\ printm_lock' = 0
  /\ UNCHANGED <<hart_command_que_locks, sbi_hsm_locks, box, op, todo, out,
                 intr, smode, hsm>>

-----------------------------------------------------------------------------
(***************************************************************************)
(* sbi_hart_start, after the checks of its arguments                       *)
(***************************************************************************)

HsLock(h) ==
  /\ Goto(h, "hs_lock", "hs_check")
  /\ \E t \in todo[h] : ksem_wait(sbi_hsm_locks, t)
  /\ UNCHANGED <<hart_command_que_locks, printm_lock, box, op, todo, out,
                 intr, smode, hsm>>

\* A hart that is started, or that is going to be, is refused.  (Nothing sets
\* RESUME_PENDING.)
HsCheck(h) ==
  \E t \in todo[h] :
    LET refused == sbi_hsm_states[t] \in {"STARTED", "START_PENDING"} IN
      /\ Goto(h, "hs_check", IF refused THEN "print" ELSE "hs_set")
      /\ out' = [out EXCEPT ![h] = IF refused THEN Empty ELSE @]
      /\ UNCHANGED <<locks, box, op, todo, intr, smode, hsm>>

HsSet(h) ==
  /\ Goto(h, "hs_set", "hs_post")
  /\ \E t \in todo[h] :
       /\ sbi_hsm_states' = [sbi_hsm_states EXCEPT ![t] = "START_PENDING"]
       /\ want' = [want EXCEPT ![t] = out[h].param1]
  /\ UNCHANGED <<locks, box, op, todo, out, intr, smode>>

HsPost(h) ==
  /\ Goto(h, "hs_post", IF out[h] = Empty THEN "sret" ELSE "que_lock")
  /\ \E t \in todo[h] : ksem_post(sbi_hsm_locks, t)
  /\ UNCHANGED <<hart_command_que_locks, printm_lock, box, op, todo, out,
                 intr, smode, hsm>>

-----------------------------------------------------------------------------
(***************************************************************************)
(* sbi_hart_stop and sbi_hart_suspend                                      *)
(***************************************************************************)

DownLock(h) ==
  /\ Goto(h, "down_lock", "down_set")
  /\ ksem_wait(sbi_hsm_locks, h)
  /\ UNCHANGED <<hart_command_que_locks, printm_lock, box, op, todo, out,
                 intr, smode, hsm>>

DownSet(h) ==
  /\ Goto(h, "down_set", "down_post")
  /\ sbi_hsm_states' = [sbi_hsm_states EXCEPT
       ![h] = IF op[h] = "stop" THEN "STOPPED" ELSE "SUSPENDED"]
  /\ UNCHANGED <<locks, box, op, todo, out, intr, smode, want>>

DownPost(h) ==
  /\ Goto(h, "down_post", "switch")
  /\ ksem_post(sbi_hsm_locks, h)
  /\ UNCHANGED <<hart_command_que_locks, printm_lock, box, op, todo, out,
                 intr, smode, hsm>>

\* switch_context(hart_contexts + mhartid).  kinit cleared that context, except
\* its mode (M), stack and thread pointers, and what later saves into it is an
\* interrupt taken at the place this goes to: the hart jumps to address 0.
SwitchToZero(h) ==
  /\ Goto(h, "switch", "zero")
  /\ Locals(h)
  /\ UNCHANGED <<locks, box, intr, smode, hsm>>

\* Address 0 is not memory: Instruction Access Fault, whose handler clears
\* mstatus.MIE, prints and stays in idle_loop.  A software interrupt that is
\* pending is taken before the fetch.
FetchFault(h) ==
  /\ Goto(h, "zero", "fault")
  /\ msip[h] = 0
  /\ UNCHANGED <<locks, box, op, todo, out, intr, smode, hsm>>

FaultPrint(h) ==
  /\ Goto(h, "fault", "fault_post")
  /\ printm_lock = 0 /\ printm_lock' = 1
  /\ UNCHANGED <<hart_command_que_locks, sbi_hsm_locks, box, op, todo, out,
                 intr, smode, hsm>>

FaultHalt(h) ==
  /\ Goto(h, "fault_post", "halted")
  /\ printm_lock' = 0
  /\ UNCHANGED <<hart_command_que_locks, sbi_hsm_locks, box, op, todo, out,
                 intr, smode, hsm>>

-----------------------------------------------------------------------------
(***************************************************************************)
(* The loop over the target harts, and send_hart_command_que.              *)
(***************************************************************************)

LoopEnd(h) ==
  /\ Goto(h, "loop", "sret")
  /\ todo[h] = {}
  /\ UNCHANGED <<locks, box, op, todo, out, intr, smode, hsm>>

\* The hart itself is a target: it raises its own S-mode software interrupt,
\* or executes the fence.
LoopSelf(h) ==
  /\ Goto(h, "loop", "loop")
  /\ IsNext(h, h)
  /\ todo' = [todo EXCEPT ![h] = @ \ {h}]
  /\ ssip' = [ssip EXCEPT ![h] = @ \/ op[h] = "ipi"]
  /\ UNCHANGED <<locks, box, op, out, intr, user_pc, hsm>>

LoopOther(h) ==
  /\ Goto(h, "loop", "que_lock")
  /\ \E t \in todo[h] \ {h} : IsNext(h, t)
  /\ UNCHANGED <<locks, box, op, todo, out, intr, smode, hsm>>

QueLock(h) ==
  /\ Goto(h, "que_lock", "que_wait")
  /\ \E t \in Harts : IsNext(h, t) /\ ksem_wait(hart_command_que_locks, t)
  /\ UNCHANGED <<sbi_hsm_locks, printm_lock, box, op, todo, out, intr, smode,
                 hsm>>

\* while (clint_hart_msip_ctls[hart_id]) {}
QueWait(h) ==
  /\ Goto(h, "que_wait", "que_cmd")
  /\ \E t \in Harts : IsNext(h, t) /\ msip[t] = 0
  /\ UNCHANGED <<locks, box, op, todo, out, intr, smode, hsm>>

\* hart_commands[hart_id] = *command, one word after the other.
QueCommand(h) ==
  /\ Goto(h, "que_cmd", "que_par")
  /\ \E t \in Harts :
       /\ IsNext(h, t)
       /\ hart_commands' = [hart_commands EXCEPT
            ![t] = Message(out[h].command, @.param1)]
  /\ UNCHANGED <<locks, msip, op, todo, out, intr, smode, hsm>>

QueParams(h) ==
  /\ Goto(h, "que_par", "que_ring")
  /\ \E t \in Harts :
       /\ IsNext(h, t)
       /\ hart_commands' = [hart_commands EXCEPT
            ![t] = Message(@.command, out[h].param1)]
  /\ UNCHANGED <<locks, msip, op, todo, out, intr, smode, hsm>>

QueRing(h) ==
  /\ Goto(h, "que_ring", "que_post")
  /\ \E t \in Harts : IsNext(h, t) /\ msip' = [msip EXCEPT ![t] = 1]
  /\ UNCHANGED <<locks, hart_commands, op, todo, out, intr, smode, hsm>>

\* The boot hart's kmain returns to the idle loop; a call goes on with the
\* next target.
QuePost(h) ==
  /\ Goto(h, "que_post", IF op[h] = "kmain" THEN "idle" ELSE "loop")
  /\ \E t \in Harts :
       /\ IsNext(h, t)
       /\ ksem_post(hart_command_que_locks, t)
       /\ todo' = [todo EXCEPT ![h] = @ \ {t}]
  /\ UNCHANGED <<sbi_hsm_locks, printm_lock, box, op, out, intr, smode, hsm>>

\* The trap returns to S-mode.
Sret(h) ==
  /\ Goto(h, "sret", "smode")
  /\ Locals(h)
  /\ UNCHANGED <<locks, box, intr, smode, hsm>>

\* S-mode takes its software interrupt and clears sip.SSIP.
ClearSsip(h) ==
  /\ Goto(h, "smode", "smode")
  /\ ssip[h] /\ ssip' = [ssip EXCEPT ![h] = FALSE]
  /\ UNCHANGED <<locks, box, op, todo, out, intr, user_pc, hsm>>

-----------------------------------------------------------------------------
(***************************************************************************)
(* interrupt_c_handler: the machine software interrupt                     *)
(***************************************************************************)

\* Where mstatus.MIE is clear without an interrupt being served.
Masked == {"fault", "fault_post", "halted"}

TakeIrq(h) ==
  /\ msip[h] = 1
  /\ pc[h] \notin Masked
  /\ IrqGoto(h, "none", "read")
  /\ UNCHANGED <<locks, box, base, cmd, smode, hsm>>

\* The handler copies the command before anyone can overwrite it.  A word that
\* is no command halts the hart.
IrqRead(h) ==
  /\ IrqGoto(h, "read",
       IF hart_commands[h].command = "STARTHART" THEN "s_print"
       ELSE IF hart_commands[h].command \in Commands THEN "clear"
       ELSE "unhandled")
  /\ cmd' = [cmd EXCEPT ![h] = hart_commands[h]]
  /\ UNCHANGED <<locks, box, base, smode, hsm>>

StartPrint(h) ==
  /\ IrqGoto(h, "s_print", "s_print_post")
  /\ printm_lock = 0 /\ printm_lock' = 1
  /\ UNCHANGED <<hart_command_que_locks, sbi_hsm_locks, box, base, cmd, smode,
                 hsm>>

StartPrintPost(h) ==
  /\ IrqGoto(h, "s_print_post", "s_ctx")
  /\ printm_lock' = 0
  /\ UNCHANGED <<hart_command_que_locks, sbi_hsm_locks, box, base, cmd, smode,
                 hsm>>

\* The CSRs (mip is cleared) and the context that S-mode will start from.
StartContext(h) ==
  /\ IrqGoto(h, "s_ctx", "s_lock")
  /\ ssip' = [ssip EXCEPT ![h] = FALSE]
  /\ user_pc' = [user_pc EXCEPT ![h] = cmd[h].param1]
  /\ UNCHANGED <<locks, box, base, cmd, hsm>>

StartLock(h) ==
  /\ IrqGoto(h, "s_lock", "s_set")
  /\ ksem_wait(sbi_hsm_locks, h)
  /\ UNCHANGED <<hart_command_que_locks, printm_lock, box, base, cmd, smode,
                 hsm>>

StartSet(h) ==
  /\ IrqGoto(h, "s_set", "s_post")
  /\ sbi_hsm_states' = [sbi_hsm_states EXCEPT ![h] = "STARTED"]
  /\ want' = [want EXCEPT ![h] = NoAddr]
  /\ UNCHANGED <<locks, box, base, cmd, smode>>

StartPost(h) ==
  /\ IrqGoto(h, "s_post", "clear")
  /\ ksem_post(sbi_hsm_locks, h)
  /\ UNCHANGED <<hart_command_que_locks, printm_lock, box, base, cmd, smode,
                 hsm>>

\* hart_commands[mhartid].command = 0
IrqClear(h) ==
  /\ IrqGoto(h, "clear", "ack")
  /\ hart_commands' = [hart_commands EXCEPT
       ![h] = Message(NoCommand, @.param1)]
  /\ UNCHANGED <<locks, msip, base, cmd, smode, hsm>>

\* clint_hart_msip_ctls[mhartid] = 0
IrqAck(h) ==
  /\ IrqGoto(h, "ack",
       IF cmd[h].command = "STARTHART" THEN "enter"
       ELSE IF cmd[h].command = "SMODE_SOFTINT" THEN "ssip"
       ELSE "none")
  /\ msip' = [msip EXCEPT ![h] = 0]
  /\ cmd' = [cmd EXCEPT ![h] = Empty]  \* its last use
  /\ UNCHANGED <<locks, hart_commands, base, smode, hsm>>

IrqSsip(h) ==
  /\ IrqGoto(h, "ssip", "none")
  /\ ssip' = [ssip EXCEPT ![h] = TRUE]
  /\ UNCHANGED <<locks, box, base, cmd, user_pc, hsm>>

\* switch_context(hart_contexts_user + mhartid): what the interrupt
\* interrupted is never resumed.
Enter(h) ==
  /\ IrqGoto(h, "enter", "none")
  /\ pc' = [pc EXCEPT ![h] = "smode"]
  /\ Locals(h)
  /\ UNCHANGED <<locks, box, cmd, smode, hsm>>

-----------------------------------------------------------------------------
Serving(h) ==
  \/ PrintWait(h) \/ PrintPost(h)
  \/ HsLock(h) \/ HsCheck(h) \/ HsSet(h) \/ HsPost(h)
  \/ DownLock(h) \/ DownSet(h) \/ DownPost(h) \/ SwitchToZero(h)
  \/ FetchFault(h) \/ FaultPrint(h) \/ FaultHalt(h)
  \/ LoopEnd(h) \/ LoopSelf(h) \/ LoopOther(h)
  \/ QueLock(h) \/ QueWait(h) \/ QueCommand(h) \/ QueParams(h) \/ QueRing(h)
  \/ QuePost(h) \/ Sret(h)

Interrupt(h) ==
  \/ TakeIrq(h) \/ IrqRead(h)
  \/ StartPrint(h) \/ StartPrintPost(h) \/ StartContext(h)
  \/ StartLock(h) \/ StartSet(h) \/ StartPost(h)
  \/ IrqClear(h) \/ IrqAck(h) \/ IrqSsip(h) \/ Enter(h)

Step(h) == Ecall(h) \/ Serving(h) \/ Interrupt(h) \/ ClearSsip(h)

Next == \E h \in Harts : Step(h)

Spec == Init /\ [][Next]_vars

-----------------------------------------------------------------------------
(***************************************************************************)
(* Type invariant                                                          *)
(***************************************************************************)

QueHeld == {"que_wait", "que_cmd", "que_par", "que_ring", "que_post"}
StartStages == {"s_print", "s_print_post", "s_ctx", "s_lock", "s_set", "s_post"}

Locations ==
  {"idle", "smode", "print", "print_post", "hs_lock", "hs_check", "hs_set",
   "hs_post", "down_lock", "down_set", "down_post", "switch", "zero", "loop",
   "que_lock", "sret"} \cup QueHeld \cup Masked

IrqLocations ==
  {"none", "read", "clear", "ack", "ssip", "enter", "unhandled"}
    \cup StartStages

\* Every variable keeps its type; in particular a hart only ever holds targets
\* that exist, so that no command is sent outside hart_commands.
TypeOK ==
  /\ hart_commands \in [Harts -> Hart_Command]
  /\ msip \in [Harts -> {0, 1}]
  /\ hart_command_que_locks \in [Harts -> {0, 1}]
  /\ sbi_hsm_states \in [Harts -> HsmStates]
  /\ sbi_hsm_locks \in [Harts -> {0, 1}]
  /\ printm_lock \in {0, 1}
  /\ pc \in [Harts -> Locations]
  /\ op \in [Harts -> AllCalls \cup {"none", "kmain"}]
  /\ todo \in [Harts -> SUBSET Harts]
  /\ out \in [Harts -> Hart_Command]
  /\ irq \in [Harts -> IrqLocations]
  /\ cmd \in [Harts -> Hart_Command]
  /\ ssip \in [Harts -> BOOLEAN]
  /\ user_pc \in [Harts -> Addrs \cup {NoAddr}]
  /\ want \in [Harts -> Addrs \cup {NoAddr}]

-----------------------------------------------------------------------------
(***************************************************************************)
(* Safety of the mailboxes                                                 *)
(***************************************************************************)

\* h is in the critical section of the mailbox of t.
InQue(h, t) == pc[h] \in QueHeld /\ IsNext(h, t)

\* interrupt_c_handler always finds a command it knows: never a mailbox that
\* another hart has cleared or not filled yet (the halt of context_switch.c:230
\* is not reached).
NoUnhandledCommand == \A h \in Harts : irq[h] # "unhandled"

\* One sender at a time writes a mailbox, and only while the software interrupt
\* of its owner is clear, so that the owner reads a command nobody is writing.
MailboxExclusive ==
  \A g \in Harts, t \in Harts :
    InQue(g, t) =>
      /\ \A h \in Harts \ {g} : ~InQue(h, t)
      /\ pc[g] \in {"que_cmd", "que_par", "que_ring"} =>
           /\ msip[t] = 0
           /\ irq[t] \notin {"read", "clear", "ack"}

-----------------------------------------------------------------------------
(***************************************************************************)
(* Safety of the locks and of the hart states                              *)
(***************************************************************************)

HoldsHsm(h, t) ==
  \/ pc[h] \in {"hs_check", "hs_set", "hs_post"} /\ t \in todo[h]
  \/ pc[h] \in {"print", "print_post"} /\ op[h] = "start" /\ t \in todo[h]
  \/ pc[h] \in {"down_set", "down_post"} /\ t = h
  \/ irq[h] \in {"s_set", "s_post"} /\ t = h

HoldsPrint(h) ==
  pc[h] \in {"print_post", "fault_post"} \/ irq[h] = "s_print_post"

\* A STARTHART interrupt never returns to what it interrupts, and most of
\* the firmware runs with interrupts enabled: still every lock that is taken
\* has one holder which is going to release it, except the mailbox lock of the
\* boot hart, which kmain takes to command its own hart.
NoLockLost ==
  /\ \A t \in Harts \ {BootHart} :
       hart_command_que_locks[t] = 1 => \E h \in Harts : InQue(h, t)
  /\ \A t \in Harts :
       sbi_hsm_locks[t] = 1 => \E h \in Harts : HoldsHsm(h, t)
  /\ printm_lock = 1 => \E h \in Harts : HoldsPrint(h)
  /\ \A h \in Harts, t \in Harts : HoldsHsm(h, t) => sbi_hsm_locks[t] = 1
  /\ \A h \in Harts : HoldsPrint(h) => printm_lock = 1

\* What an interrupt waits for is never held by what it interrupted: a hart
\* does not spin on a lock of its own.
NoSelfDeadlock ==
  \A h \in Harts :
    /\ irq[h] = "s_print" => pc[h] \notin {"print_post", "fault_post"}
    /\ irq[h] = "s_lock" =>
         \A t \in todo[h] : ~HoldsHsm(h, t) \/ t # h
    /\ irq[h] \in StartStages =>
         pc[h] \in {"idle", "switch", "zero"} \/ op[h] = "kmain"

\* S-mode executes on a hart only while the HSM table says STARTED, whatever
\* starts, stops and interrupts are under way (what sbi_hart_get_status
\* answers about a running hart is true).
RunsOnlyWhenStarted ==
  \A h \in Harts :
    pc[h] = "smode" /\ irq[h] = "none" => sbi_hsm_states[h] = "STARTED"

\* At most one start is under way for a hart: the orders that are being sent,
\* lie in its mailbox or are being carried out number one if it is wanted, and
\* none otherwise.
StartOrders(t) ==
  {h \in Harts : /\ op[h] \in {"start", "kmain"}
                 /\ out[h].command = "STARTHART" /\ t \in todo[h]
                 /\ pc[h] \in {"hs_post", "que_lock"} \cup (QueHeld \ {"que_post"})}
StartInBox(t) ==
  /\ msip[t] = 1 /\ hart_commands[t].command = "STARTHART"
  /\ irq[t] \notin {"s_post", "clear"}

OneStart ==
  \A t \in Harts :
    IF want[t] = NoAddr
      THEN StartOrders(t) = {} /\ ~StartInBox(t)
      ELSE IF StartInBox(t)
        THEN StartOrders(t) = {} /\ hart_commands[t].param1 = want[t]
        ELSE \E h \in Harts :
               StartOrders(t) = {h} /\ out[h].param1 = want[t]

=============================================================================
