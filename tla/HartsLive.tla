----------------------------- MODULE HartsLive -----------------------------
(***************************************************************************)
(* Harts with fairness and a bound on the number of environment calls.     *)
(*                                                                         *)
(* A hart that can take a step of the firmware takes one: the program is   *)
(* the only thing it executes.  S-mode is not obliged to make calls.  The  *)
(* locks are test-and-set spin locks, which are not fair: with unlimited   *)
(* calls of the others a hart may spin forever, so that progress is stated *)
(* for finitely many calls.                                                *)
(***************************************************************************)
EXTENDS HartsRefinement

CONSTANT MaxCalls   \* environment calls in a behaviour

ASSUME MaxCallsAssumption == MaxCalls \in Nat

VARIABLE calls      \* environment calls made

LiveInit == Init /\ calls = 0

LiveEcall(h) ==
  /\ calls < MaxCalls
  /\ calls' = calls + 1
  /\ Ecall(h)

LiveServing(h) == Serving(h) /\ UNCHANGED calls
LiveInterrupt(h) == Interrupt(h) /\ UNCHANGED calls
LiveClearSsip(h) == ClearSsip(h) /\ UNCHANGED calls

LiveNext ==
  \E h \in Harts :
    LiveEcall(h) \/ LiveServing(h) \/ LiveInterrupt(h) \/ LiveClearSsip(h)

Fairness ==
  \A h \in Harts :
    /\ WF_<<vars, calls>>(LiveServing(h))
    /\ WF_<<vars, calls>>(LiveInterrupt(h))

\* Without a bound, calls is not needed.
FreeSpec == LiveInit /\ [][Next /\ UNCHANGED calls]_<<vars, calls>>

BoundedSpec == LiveInit /\ [][LiveNext]_<<vars, calls>>
LiveSpec == BoundedSpec /\ Fairness

-----------------------------------------------------------------------------
InCall(h) == pc[h] \notin {"idle", "smode", "switch", "zero"} \cup Masked

\* An environment call returns to S-mode, or parks the hart: no hart waits
\* forever for a lock or for the software interrupt of another one.
CallReturns == \A h \in Harts : InCall(h) ~> ~InCall(h)

\* A command is carried out by its hart unless that has parked itself with
\* interrupts masked (context_switch.c:251-254) before it came.
CommandHandled == \A h \in Harts : msip[h] = 1 ~> msip[h] = 0 \/ pc[h] \in Masked

\* A successful sbi_send_ipi sets sip.SSIP of every target
\* (ipi.c:38 "Do the action on the harts").
IpiDelivered ==
  \A t \in Harts :
    (\E h \in Harts : op[h] = "ipi" /\ pc[h] = "loop" /\ t \in todo[h])
      ~> ssip[t]

\* An accepted sbi_hart_start starts its hart (sbi_commands.c:78 "Start Hart").
StartCompletes == \A h \in Harts : want[h] # NoAddr ~> want[h] = NoAddr

=============================================================================
