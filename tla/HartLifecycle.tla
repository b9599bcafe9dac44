--------------------------- MODULE HartLifecycle ---------------------------
(***************************************************************************)
(* What the HSM extension promises.  A hart that is down is started by one *)
(* accepted order, at the address of that order, and only then executes    *)
(* S-mode code; it goes down by itself.  While an order is outstanding,    *)
(* and while the hart is started, every other order is refused.            *)
(***************************************************************************)
CONSTANTS Harts, BootHart, Addrs, KernelAddr, NoAddr

VARIABLES
  state,   \* per hart: what sbi_hart_get_status answers
  order,   \* per hart: start address that was accepted and not acted upon
  entry    \* per hart: where S-mode was started, NoAddr while it is down

\* The firmware itself orders the start of the boot hart.
Init ==
  /\ state = [h \in Harts |-> "STOPPED"]
  /\ order = [h \in Harts |-> IF h = BootHart THEN KernelAddr ELSE NoAddr]
  /\ entry = [h \in Harts |-> NoAddr]

Accept(h) ==
  /\ state[h] \in {"STOPPED", "SUSPENDED"} /\ order[h] = NoAddr
  /\ \E addr \in Addrs : order' = [order EXCEPT ![h] = addr]
  /\ state' = [state EXCEPT ![h] = "START_PENDING"]
  /\ UNCHANGED entry

Begin(h) ==
  /\ order[h] # NoAddr
  /\ state' = [state EXCEPT ![h] = "STARTED"]
  /\ order' = [order EXCEPT ![h] = NoAddr]
  /\ entry' = [entry EXCEPT ![h] = order[h]]

Leave(h) ==
  /\ state[h] = "STARTED"
  /\ \E down \in {"STOPPED", "SUSPENDED"} : state' = [state EXCEPT ![h] = down]
  /\ entry' = [entry EXCEPT ![h] = NoAddr]
  /\ UNCHANGED order

Next == \E h \in Harts : Accept(h) \/ Begin(h) \/ Leave(h)

Spec == Init /\ [][Next]_<<state, order, entry>>

=============================================================================
