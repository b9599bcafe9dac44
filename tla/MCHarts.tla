------------------------------ MODULE MCHarts ------------------------------
(***************************************************************************)
(* Harts for TLC: which calls S-mode makes in which run.  Every set makes  *)
(* harts start each other; the smaller ones leave room for a third hart or *)
(* for liveness.                                                           *)
(***************************************************************************)
EXTENDS HartsLive

HsmCalls      == {"start", "stop", "suspend", "query"}
FanOutCalls   == {"start", "ipi", "fence"}
IpiCalls      == {"start", "ipi"}
RestartCalls  == {"start", "stop"}

=============================================================================
