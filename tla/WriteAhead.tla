------------------------------ MODULE WriteAhead ------------------------------
(***************************************************************************)
(* What a row that is written ahead of an act promises, with the workers,  *)
(* locks and batches hidden.  The acts cannot be taken back and give no    *)
(* sure answer, so the row says that one may have happened before it may:  *)
(*                                                                         *)
(*   - an act happens at most once, and only while its row is open;        *)
(*   - a row is done only when its act has happened, and then for ever;    *)
(*   - a row is cleared only of an act that has not happened, and that     *)
(*     cannot happen any more until the row is opened again.               *)
(*                                                                         *)
(* A row may also stay open: nobody knows, and nobody acts again.  Several *)
(* acts may move at once, for a statement may write many rows.             *)
(***************************************************************************)
EXTENDS Naturals

CONSTANT Acts

VARIABLES row,     \* act -> "clear", "open" or "done"
          times    \* act -> how often it has happened

vars == <<row, times>>

Init ==
  /\ row = [a \in Acts |-> "clear"]
  /\ times = [a \in Acts |-> 0]

Intend(a) ==
  /\ row[a] = "clear" /\ row'[a] = "open"
  /\ times'[a] = times[a]

\* The act, which its row may learn of at once, or never.
Act(a) ==
  /\ row[a] = "open" /\ row'[a] \in {"open", "done"}
  /\ times[a] = 0 /\ times'[a] = 1

Settle(a) ==
  /\ row[a] = "open" /\ row'[a] = "done"
  /\ times[a] = 1 /\ times'[a] = 1

\* Refused.
Withdraw(a) ==
  /\ row[a] = "open" /\ row'[a] = "clear"
  /\ times[a] = 0 /\ times'[a] = 0

Rest(a) == row'[a] = row[a] /\ times'[a] = times[a]

Next ==
  \A a \in Acts : Rest(a) \/ Intend(a) \/ Act(a) \/ Settle(a) \/ Withdraw(a)

Spec == Init /\ [][Next]_vars
=============================================================================
