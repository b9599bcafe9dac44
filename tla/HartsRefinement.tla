-------------------------- MODULE HartsRefinement --------------------------
(***************************************************************************)
(* Harts implements its two abstract specifications.                       *)
(***************************************************************************)
EXTENDS HartsInvariant

\* The messages that are sent: an address goes with STARTHART only.
Messages ==
  {m \in Hart_Command :
     /\ m.command # NoCommand
     /\ m.param1 # NoAddr <=> m.command = "STARTHART"}

\* The targets h still has to command.  hart_start has asked once its order is
\* accepted; the message counts as sent when msip is set.
Unsent(h) ==
  CASE pc[h] \in {"loop", "que_lock"} \cup (QueHeld \ {"que_post"}) ->
         IF op[h] = "kmain" THEN todo[h] ELSE todo[h] \ {h}
    [] pc[h] = "que_post" -> {t \in todo[h] \ {h} : ~IsNext(h, t)}
    [] OTHER -> {}

Box == INSTANCE Mailbox WITH
  None <- Empty,
  InitialAsks <- [h \in Harts |->
    IF h = BootHart
      THEN {<<BootHart, Message("STARTHART", KernelAddr)>>}
      ELSE {}],
  asks <- [h \in Harts |-> Unsent(h) \X {out[h]}],
  slot <- [h \in Harts |->
    IF msip[h] = 1 /\ cmd[h] = Empty THEN hart_commands[h] ELSE cmd[h]],
  serving <- cmd

Life == INSTANCE HartLifecycle WITH
  state <- sbi_hsm_states,
  order <- want,
  entry <- [h \in Harts |->
    IF sbi_hsm_states[h] = "STARTED" THEN user_pc[h] ELSE NoAddr]

\* Every command that a hart is asked to send reaches its target exactly once,
\* whole and alone in the mailbox, and is served before the next one
\* (send_hart_command_que against interrupt_c_handler).
ImplementsMailbox == Box!Spec

\* sbi_hart_start, sbi_hart_stop, sbi_hart_suspend and the STARTHART interrupt,
\* on however many harts they run, do together what HartLifecycle says: one
\* start per accepted order, at its own address, in a table that is true.
ImplementsLifecycle == Life!Spec

=============================================================================
