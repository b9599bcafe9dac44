---------------------------- MODULE TrapContext ----------------------------
(***************************************************************************)
(* How one hart saves and restores what its traps interrupt                *)
(* (context_switch_asm.S).                                                 *)
(*                                                                         *)
(* There are no frames on a stack: a trap saves the registers in the       *)
(* context that mscratch points to.  An exception handler runs with        *)
(* interrupts enabled, and for that time mscratch points to another        *)
(* context, and its stack starts half way down, so that the interrupts it  *)
(* takes find a context and a stack of their own.                          *)
(*                                                                         *)
(* Code in execution is abstracted to what it is and how far it has come;  *)
(* that of switch_context and of s_delegation_trampoline, in which the     *)
(* order of the instructions matters, to the context that it loads.        *)
(***************************************************************************)
EXTENDS Integers, Sequences

CONSTANT Steps   \* places in the code of a program or of a handler

ASSUME TrapAssumption == Steps \in Nat \ {0, 1}

Contexts == {"hart_contexts", "hart_contexts_exception", "hart_contexts_user"}
Code(who, at) == [who |-> who, at |-> at]

VARIABLES
  cur,       \* the code that executes: S-mode, a handler, or what reset left
  context,   \* the code each context was saved from
  mscratch,  \* the context that the next trap saves to
  mepc,      \* how far the code had come that the last trap interrupted
  mie,       \* mstatus.MIE
  handlers   \* the handlers in progress, the innermost last

vars == <<cur, context, mscratch, mepc, mie, handlers>>

\* A handler has the context it was given (s0), the half of the stack it uses,
\* and what it will end with.  history: back is what it has to return to.
Handler(end, ctx, half, back) ==
  [end |-> end, ctx |-> ctx, half |-> half, back |-> back]

Innermost == handlers[Len(handlers)]
Outer == SubSeq(handlers, 1, Len(handlers) - 1)

\* S-mode has been started: STARTHART has switched to its context.
Init ==
  /\ cur = Code("smode", 0)
  /\ context = [c \in Contexts |->
       IF c = "hart_contexts_user" THEN Code("smode", 0) ELSE Code("reset", 0)]
  /\ mscratch = "hart_contexts_user"
  /\ mepc = 0
  /\ mie = FALSE
  /\ handlers = <<>>

-----------------------------------------------------------------------------
(***************************************************************************)
(* Mutations: plausible bugs of the definitions that follow.               *)
(***************************************************************************)

\* The exception handler shares the context of what it interrupted.
EnterException_same_context(end) ==
  /\ context' = [context EXCEPT ![mscratch] = cur]
  /\ handlers' = Append(handlers, Handler(end, mscratch, "low", cur))
  /\ UNCHANGED mscratch
  /\ mepc' = cur.at
  /\ cur' = Code("exception", 0)

\* The exception handler starts at the top of the stack.
EnterException_top(end) ==
  /\ context' = [context EXCEPT ![mscratch] = cur]
  /\ handlers' = Append(handlers, Handler(end, mscratch, "high", cur))
  /\ mscratch' = "hart_contexts_exception"
  /\ mepc' = cur.at
  /\ cur' = Code("exception", 0)

\* Interrupts stay enabled while a context is resumed.
SwitchContext_unmasked(c) == cur' = Code("switch", c) /\ UNCHANGED mie

\* The trampoline leaves the exception handler's context in mscratch.
DelegateSet_keeps_mscratch ==
  /\ cur.who = "delegate"
  /\ cur' = Code("sret", cur.at)
  /\ UNCHANGED <<context, mscratch, mepc, mie, handlers>>

-----------------------------------------------------------------------------
(***************************************************************************)
(* interrupt_entry_handler                                                 *)
(***************************************************************************)

\* The code that executes makes progress.
Execute ==
  /\ cur.who \in {"smode", "exception", "interrupt"}
  /\ cur' = [cur EXCEPT !.at = (@ + 1) % Steps]
  /\ UNCHANGED <<context, mscratch, mepc, mie, handlers>>

\* An interrupt is taken below M-mode, and in M-mode if mstatus.MIE is set.
Interrupt ==
  /\ cur.who = "smode" \/ mie
  /\ context' = [context EXCEPT ![mscratch] = cur]
  /\ handlers' = Append(handlers, Handler("return", mscratch, "high", cur))
  /\ cur' = Code("interrupt", 0)
  /\ mepc' = cur.at
  /\ mie' = FALSE
  /\ UNCHANGED mscratch

EnterException(end) ==
  /\ context' = [context EXCEPT ![mscratch] = cur]
  /\ handlers' = Append(handlers, Handler(end, mscratch, "low", cur))
  /\ mscratch' = "hart_contexts_exception"
  /\ mepc' = cur.at
  /\ cur' = Code("exception", 0)

\* An exception of S-mode: an environment call, one that is delegated, or one
\* that the firmware does not survive.
Exception(end) ==
  /\ cur.who = "smode"
  /\ EnterException(end)
  /\ mie' = TRUE

\* A load of walk_pts or of the instruction faults in the exception handler, or
\* the hart that has gone down fetches from address 0.
\* The offset 0x08 is that of execution_mode where xlen is 64: interrupts stay
\* as they are; where it is 32 they are enabled.
Fault ==
  /\ \/ cur.who = "reset"
     \/ cur.who = "exception" /\ Len(handlers) = 1
  /\ EnterException("halt")
  /\ mie' \in {mie, TRUE}

-----------------------------------------------------------------------------
(***************************************************************************)
(* switch_context, s_delegation_trampoline and the ends of the handlers    *)
(***************************************************************************)

\* "Ensure that interrupts are disabled so that this is atomic"
SwitchContext(c) == cur' = Code("switch", c) /\ mie' = FALSE

\* mscratch and mepc, of the context that is resumed.
SwitchSet ==
  /\ cur.who = "switch"
  /\ cur' = Code("mret", cur.at)
  /\ mscratch' = cur.at
  /\ mepc' = context[cur.at].at
  /\ UNCHANGED <<context, mie, handlers>>

\* The registers are those of the context, the place is that of mepc.  mret
\* sets MIE.
Mret ==
  /\ cur.who = "mret"
  /\ cur' = Code(context[cur.at].who, mepc)
  /\ mie' = TRUE
  /\ handlers' = Outer
  /\ UNCHANGED <<context, mscratch, mepc>>

\* exception_c_handler: REG_PC += 4 in the context, before the call is served.
SkipEcall ==
  /\ cur.who = "exception" /\ Innermost.end = "ecall"
  /\ LET next == (Innermost.back.at + 1) % Steps IN
       /\ context' = [context EXCEPT
            ![Innermost.ctx].at = (@ + 1) % Steps]
       /\ handlers' = Append(Outer,
            Handler("return", Innermost.ctx, Innermost.half,
                    Code(Innermost.back.who, next)))
  /\ UNCHANGED <<cur, mscratch, mepc, mie>>

Return ==
  /\ cur.who \in {"exception", "interrupt"} /\ Innermost.end = "return"
  /\ SwitchContext(Innermost.ctx)
  /\ UNCHANGED <<context, mscratch, mepc, handlers>>

\* s_delegation_trampoline disables interrupts too, before it sets mscratch.
Delegate ==
  /\ cur.who = "exception" /\ Innermost.end = "delegate"
  /\ cur' = Code("delegate", Innermost.ctx)
  /\ mie' = FALSE
  /\ UNCHANGED <<context, mscratch, mepc, handlers>>

DelegateSet ==
  /\ cur.who = "delegate"
  /\ cur' = Code("sret", cur.at)
  /\ mscratch' = cur.at
  /\ UNCHANGED <<context, mepc, mie, handlers>>

\* The S-mode trap handler executes; sepc is the pc of the context.
DelegateMret ==
  /\ cur.who = "sret"
  /\ cur' = Code(context[cur.at].who, 0)
  /\ mepc' = 0
  /\ mie' = TRUE
  /\ handlers' = Outer
  /\ UNCHANGED <<context, mscratch>>

\* The handler resumes another context than it was called for, and nothing of
\* what it interrupted is resumed.
Leave(ctx, code) ==
  /\ SwitchContext(ctx)
  /\ context' = [context EXCEPT ![ctx] = code]
  /\ handlers' = <<Handler("return", ctx, Innermost.half, code)>>
  /\ UNCHANGED <<mscratch, mepc>>

\* sbi_hart_stop: switch_context(hart_contexts + mhartid), which is never saved
\* to before.
Stop ==
  /\ cur.who = "exception" /\ Innermost.end = "return"
  /\ Leave("hart_contexts", context["hart_contexts"])

\* The STARTHART interrupt of a hart that waits for it.
Start ==
  /\ cur.who = "interrupt" /\ Innermost.back.who = "reset"
  /\ Leave("hart_contexts_user", Code("smode", 0))

\* CSR_BITCLR(CSR_MSTATUS, 0x8) and idle_loop
Halt ==
  /\ cur.who = "exception" /\ Innermost.end = "halt"
  /\ mie
  /\ mie' = FALSE
  /\ UNCHANGED <<cur, context, mscratch, mepc, handlers>>

-----------------------------------------------------------------------------
Ends == {"ecall", "delegate", "halt"}

Next ==
  \/ Execute
  \/ Interrupt
  \/ \E end \in Ends : Exception(end)
  \/ Fault
  \/ SkipEcall \/ Return \/ Stop \/ Start \/ Halt
  \/ SwitchSet \/ Mret
  \/ Delegate \/ DelegateSet \/ DelegateMret

Spec == Init /\ [][Next]_vars

-----------------------------------------------------------------------------
\* The handlers that will return: up to the first one that halts the hart.
Returning ==
  {k \in DOMAIN handlers : \A j \in 1..k : handlers[j].end # "halt"}

\* What a handler interrupted is in the context that it will switch to, as it
\* was, or behind the environment call: while interrupts are enabled the next
\* traps save somewhere else.
ContextsKept ==
  \A k \in Returning :
    /\ context[handlers[k].ctx] = handlers[k].back
    /\ k = Len(handlers) /\ mie => mscratch # handlers[k].ctx

\* No handler uses the half of the stack that one it interrupted uses.
StackKept ==
  \A j, k \in Returning : j # k => handlers[j].half # handlers[k].half

\* S-mode executes with its own context in mscratch: its registers are saved
\* where sbi_hart_start and the exception handlers look for them.
SmodeContext == cur.who = "smode" => mscratch = "hart_contexts_user"

\* A trap returns to what it interrupted, at the same place, or at the next one
\* after an environment call.
ReturnsBack == [][Mret => cur' = Innermost.back]_vars

=============================================================================
