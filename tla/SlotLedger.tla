----------------------------- MODULE SlotLedger -----------------------------
(***************************************************************************)
(* What the open-loop runner promises about the slots of its schedule,     *)
(* with no workers, clock, sockets or threads in sight.                    *)
(*                                                                         *)
(* Slots 0, 1, 2, ... are handed out in order, each to one holder.  A slot *)
(* is settled the moment it is handed out, if it is due past the end of    *)
(* the run, and otherwise it is held until it has been sent.  A held slot  *)
(* is never given back, never sent twice and never abandoned.              *)
(***************************************************************************)
EXTENDS Naturals

VARIABLES handed,   \* how many slots have been handed out
          held,     \* the slots somebody holds and has not sent
          sent,     \* the slots sent to the target
          dropped   \* the slots handed out past the end of the run

vars == <<handed, held, sent, dropped>>

Init ==
  /\ handed = 0
  /\ held = {}
  /\ sent = {}
  /\ dropped = {}

HandOut ==
  /\ handed' = handed + 1
  /\ held' = held \cup {handed}
  /\ UNCHANGED <<sent, dropped>>

HandOutLate ==
  /\ handed' = handed + 1
  /\ dropped' = dropped \cup {handed}
  /\ UNCHANGED <<held, sent>>

Send ==
  \E i \in held :
    /\ held' = held \ {i}
    /\ sent' = sent \cup {i}
    /\ UNCHANGED <<handed, dropped>>

Next == HandOut \/ HandOutLate \/ Send

(* The safety half, and the promise that while slots are held one is sent.  *)
Safety == Init /\ [][Next]_vars
Spec == Safety /\ WF_vars(Send)
=============================================================================
