--------------------------- MODULE HartsInvariant ---------------------------
(***************************************************************************)
(* Inductive invariants of Harts.                                          *)
(***************************************************************************)
EXTENDS Harts

\* Between the check of the software interrupt and raising it.
Writing == {"que_cmd", "que_par", "que_ring"}

\* While an interrupt serves the command in the mailbox.
Reading == {"read", "clear", "ack"} \cup StartStages

\* A hart in the critical section of a mailbox holds its lock, alone.
QueLocked ==
  \A g \in Harts, t \in Harts :
    InQue(g, t) =>
      /\ hart_command_que_locks[t] = 1
      /\ \A h \in Harts : InQue(h, t) => h = g

\* The software interrupt of a hart is clear while its mailbox is written, and
\* set while it is served.
BoxExclusive ==
  /\ \A g \in Harts, t \in Harts :
       pc[g] \in Writing /\ IsNext(g, t) => msip[t] = 0
  /\ \A t \in Harts : irq[t] \in Reading => msip[t] = 1

\* What a sender has written so far is in the mailbox.
BoxWritten ==
  \A g \in Harts, t \in Harts :
    IsNext(g, t) =>
      /\ pc[g] \in {"que_par", "que_ring"} =>
           hart_commands[t].command = out[g].command
      /\ pc[g] = "que_ring" => hart_commands[t].param1 = out[g].param1

\* A sender sends a command.
OutIsCommand ==
  \A g \in Harts :
    /\ pc[g] \in {"loop", "que_lock"} \cup QueHeld => out[g].command \in Commands
    /\ pc[g] \in {"hs_lock", "hs_check", "hs_set"} =>
         out[g].command = "STARTHART"
    /\ pc[g] \in {"print", "print_post", "hs_post"} =>
         out[g] = Empty \/ out[g].command = "STARTHART"

\* Until the handler clears it, a mailbox whose software interrupt is set holds
\* a command, and the handler works on that command; then it holds none.
BoxServed ==
  \A t \in Harts :
    /\ msip[t] = 1 /\ irq[t] # "ack" => hart_commands[t].command \in Commands
    /\ irq[t] \in StartStages \cup {"clear"} => cmd[t] = hart_commands[t]
    /\ irq[t] \in StartStages => cmd[t].command = "STARTHART"
    /\ irq[t] = "ack" => hart_commands[t].command = NoCommand

BoxParts ==
  /\ QueLocked
  /\ BoxExclusive
  /\ BoxWritten
  /\ OutIsCommand
  /\ BoxServed
  /\ NoUnhandledCommand

BoxInv == TypeOK /\ BoxParts

-----------------------------------------------------------------------------
(***************************************************************************)
(* Starting and stopping                                                   *)
(***************************************************************************)

\* Where the base thread executes S-mode or serves a call of S-mode, up to the
\* store that says that the hart is down.
Active ==
  {"smode", "print", "print_post", "hs_lock", "hs_check", "hs_set", "hs_post",
   "down_lock", "down_set", "loop", "que_lock", "sret"} \cup QueHeld

\* A hart that waits to be started, or waits for nothing any more.
Parked == {"idle", "switch", "zero"} \cup Masked

\* A start is in the hands of the sender: accepted, its command not sent yet.
Sending(g, t) ==
  \/ pc[g] = "hs_post" /\ out[g] # Empty /\ t \in todo[g]
  \/ /\ pc[g] \in {"que_lock"} \cup (QueHeld \ {"que_post"})
     /\ out[g].command = "STARTHART" /\ IsNext(g, t)

\* The locals of the base thread, by place.
OneTarget(h) == h \notin todo[h] /\ \A t, u \in todo[h] : t = u

NoTargets ==
  \A h \in Harts :
    pc[h] \in Parked \cup {"smode", "down_lock", "down_set", "down_post"} =>
      todo[h] = {}

StartTarget ==
  \A h \in Harts :
    /\ pc[h] \in {"hs_lock", "hs_check", "hs_set", "hs_post"} =>
         op[h] = "start" /\ todo[h] # {} /\ OneTarget(h)
    /\ pc[h] \in {"hs_lock", "hs_check", "hs_set"} => out[h].param1 # NoAddr
    /\ pc[h] \in {"print", "print_post"} =>
         /\ op[h] # "kmain"
         /\ todo[h] # {} => op[h] = "start" /\ out[h] = Empty /\ OneTarget(h)

SendTargets ==
  \A h \in Harts :
    pc[h] \in {"loop", "que_lock"} \cup QueHeld =>
      /\ op[h] \in {"ipi", "fence", "start", "kmain"}
      /\ op[h] \in {"start", "kmain"} <=> out[h].command = "STARTHART"
      /\ op[h] = "start" => OneTarget(h)
      /\ pc[h] = "loop" => op[h] # "kmain" /\ (op[h] = "start" => todo[h] = {})

DownCalls ==
  \A h \in Harts :
    /\ pc[h] \in {"down_lock", "down_set", "down_post", "switch"} =>
         op[h] \in {"stop", "suspend"}
    /\ pc[h] \in Masked => irq[h] = "none"

Places == NoTargets /\ StartTarget /\ SendTargets /\ DownCalls

\* kmain commands the boot hart alone, before any other hart runs.
Boot ==
  /\ \A h \in Harts :
       op[h] = "kmain" =>
         /\ h = BootHart
         /\ \/ pc[h] = "idle"
            \/ pc[h] \in {"que_lock"} \cup QueHeld /\ todo[h] = {BootHart}
  /\ op[BootHart] = "kmain" =>
       \A h \in Harts \ {BootHart} :
         /\ pc[h] = "idle" /\ msip[h] = 0 /\ irq[h] = "none"
         /\ sbi_hsm_states[h] = "STOPPED" /\ want[h] = NoAddr

\* The lock of a hart's state has one holder.
HsmLocked ==
  \A g \in Harts, t \in Harts :
    HoldsHsm(g, t) =>
      /\ sbi_hsm_locks[t] = 1
      /\ \A h \in Harts : HoldsHsm(h, t) => h = g

PrintLocked ==
  \A g \in Harts :
    HoldsPrint(g) => printm_lock = 1 /\ \A h \in Harts : HoldsPrint(h) => h = g

\* The STARTHART interrupt has the hart from its first instruction to S-mode.
Starting(h) ==
  \/ irq[h] \in StartStages \cup {"enter"}
  \/ irq[h] \in {"clear", "ack"} /\ cmd[h].command = "STARTHART"

\* The table of the hart states is true.
StatesTrue ==
  \A h \in Harts :
    /\ pc[h] \in Active /\ op[h] # "kmain" => sbi_hsm_states[h] = "STARTED"
    /\ pc[h] = "down_post" => sbi_hsm_states[h] \in {"STOPPED", "SUSPENDED"}
    /\ pc[h] = "hs_set" =>
         \A t \in todo[h] : sbi_hsm_states[t] \in {"STOPPED", "SUSPENDED"}
    /\ want[h] # NoAddr <=>
         \/ sbi_hsm_states[h] = "START_PENDING"
         \/ op[h] = "kmain" /\ sbi_hsm_states[h] = "STOPPED"
    /\ Starting(h) =>
         /\ IF irq[h] \in StartStages \ {"s_post"} THEN want[h] # NoAddr
            ELSE sbi_hsm_states[h] = "STARTED"
         /\ \/ pc[h] \in {"idle", "switch", "zero"}
            \/ op[h] = "kmain" /\ pc[h] = "que_post"
    /\ irq[h] \in {"s_lock", "s_set"} => user_pc[h] = want[h]

\* An outstanding start exists once: in the hands of its sender or in the
\* mailbox of its hart.
SentIsWanted ==
  \A g \in Harts, t \in Harts :
    Sending(g, t) => want[t] # NoAddr /\ out[g].param1 = want[t]

SenderUnique ==
  \A g \in Harts, h \in Harts, t \in Harts :
    Sending(g, t) /\ Sending(h, t) => g = h

SentNotInBox ==
  \A g \in Harts, t \in Harts : Sending(g, t) => ~StartInBox(t)

BoxIsWanted ==
  \A t \in Harts :
    StartInBox(t) => want[t] # NoAddr /\ hart_commands[t].param1 = want[t]

WantedExists ==
  \A t \in Harts :
    want[t] # NoAddr => StartInBox(t) \/ \E g \in Harts : Sending(g, t)

StartUnique ==
  SentIsWanted /\ SenderUnique /\ SentNotInBox /\ BoxIsWanted /\ WantedExists

HsmParts ==
  /\ Places
  /\ Boot
  /\ HsmLocked
  /\ PrintLocked
  /\ StatesTrue

StartInv == HsmParts /\ StartUnique

=============================================================================
