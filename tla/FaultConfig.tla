---------------------------- MODULE FaultConfig ----------------------------
(***************************************************************************)
(* What the fault library promises (src/fault/knobs.hpp): there is one     *)
(* configuration of faults, and each instruction replaces it as a whole or *)
(* is refused and leaves it alone.                                         *)
(***************************************************************************)
EXTENDS Instructions

VARIABLE config

Init == config = Off

Next == \E cmd \in Commands : ~Refused(cmd) /\ config' = Apply(config, cmd)

Spec == Init /\ [][Next]_config
=============================================================================
