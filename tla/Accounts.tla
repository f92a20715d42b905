------------------------------ MODULE Accounts ------------------------------
(***************************************************************************)
(* What both runners count (src/load/exchange.hpp, src/load/run_result.hpp)*)
(* : what an exchange may come to, which outcomes are timed, and the error *)
(* counter each outcome belongs to.                                        *)
(***************************************************************************)
EXTENDS Integers

AllOutcomes == {"Succeeded", "Rejected", "TimedOut",
                "ProtocolError", "ReadFailed", "WriteFailed"}
ErrorKinds == {"connect", "write", "read", "timeout", "protocol", "rejected"}

NoErrors == [k \in ErrorKinds |-> 0]

Bump(errors, kind) == [errors EXCEPT ![kind] = @ + 1]

(* The outcomes that produce a duration (src/load/exchange.hpp).            *)
Timed == {"Succeeded", "Rejected", "TimedOut"}

(* A slip: a broken stream is counted nowhere.                              *)
CountedButReads(errors, outcome) ==
  CASE outcome \in {"Succeeded", "ReadFailed"} -> errors
    [] outcome = "Rejected"      -> Bump(errors, "rejected")
    [] outcome = "TimedOut"      -> Bump(errors, "timeout")
    [] outcome = "ProtocolError" -> Bump(errors, "protocol")
    [] outcome = "WriteFailed"   -> Bump(errors, "write")

(* The counter an outcome increments; a success increments none.            *)
Counted(errors, outcome) ==
  CASE outcome = "Succeeded"     -> errors
    [] outcome = "Rejected"      -> Bump(errors, "rejected")
    [] outcome = "TimedOut"      -> Bump(errors, "timeout")
    [] outcome = "ProtocolError" -> Bump(errors, "protocol")
    [] outcome = "ReadFailed"    -> Bump(errors, "read")
    [] outcome = "WriteFailed"   -> Bump(errors, "write")

(* A slip: a connection on which a reply is overdue is kept.                *)
UsableOverdue(outcome) == outcome \in {"Succeeded", "Rejected", "TimedOut"}

(* A connection carries another request after a whole reply only.           *)
Usable(outcome) == outcome \in {"Succeeded", "Rejected"}

(* ErrorCounts::merge.                                                      *)
Added(e, f) == [k \in ErrorKinds |-> e[k] + f[k]]

(* RunResult::untimed: the failures with no reply to time.                  *)
Untimed(errors) ==
  errors["connect"] + errors["write"] + errors["read"] + errors["protocol"]
=============================================================================
