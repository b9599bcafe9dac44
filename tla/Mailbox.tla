------------------------------ MODULE Mailbox ------------------------------
(***************************************************************************)
(* What the hart commands promise.  A sender asks for commands to be       *)
(* executed by some harts.  Every one of them is put, whole, into the slot *)
(* of its hart once, when that slot is free; the hart serves what lies in  *)
(* its slot once, and the slot is free again.                              *)
(***************************************************************************)
CONSTANTS Harts, Messages, None, InitialAsks

VARIABLES
  asks,     \* per hart: the <<target, message>> pairs it still has to send
  slot,     \* per hart: the message in its slot, or None
  serving   \* per hart: the message it serves, or None

Init ==
  /\ asks = InitialAsks
  /\ slot = [h \in Harts |-> None]
  /\ serving = [h \in Harts |-> None]

\* One message for several targets; no request before the last one is sent.
Ask(s) ==
  /\ asks[s] = {}
  /\ \E targets \in SUBSET Harts, m \in Messages :
       asks' = [asks EXCEPT ![s] = targets \X {m}]
  /\ UNCHANGED <<slot, serving>>

Post(s) ==
  \E ask \in asks[s] :
    /\ slot[ask[1]] = None
    /\ slot' = [slot EXCEPT ![ask[1]] = ask[2]]
    /\ asks' = [asks EXCEPT ![s] = @ \ {ask}]
    /\ UNCHANGED serving

Take(t) ==
  /\ slot[t] # None /\ serving[t] = None
  /\ serving' = [serving EXCEPT ![t] = slot[t]]
  /\ UNCHANGED <<asks, slot>>

Done(t) ==
  /\ serving[t] # None
  /\ slot' = [slot EXCEPT ![t] = None]
  /\ serving' = [serving EXCEPT ![t] = None]
  /\ UNCHANGED asks

Next == \E h \in Harts : Ask(h) \/ Post(h) \/ Take(h) \/ Done(h)

Spec == Init /\ [][Next]_<<asks, slot, serving>>

=============================================================================
