----------------------- MODULE ExactlyOnceSettlement -----------------------
(***************************************************************************)
(* What the payment subsystem promises about money: the provider captures  *)
(* the payment of an intent at most once, and every ledger credit names a  *)
(* captured intent that has not been credited before.                      *)
(***************************************************************************)
EXTENDS Sequences, Naturals

CONSTANT Intents

VARIABLES captured, credits

Init == captured = {} /\ credits = <<>>

Capture(i) ==
  /\ i \notin captured
  /\ captured' = captured \cup {i}
  /\ UNCHANGED credits

Credit(i) ==
  /\ i \in captured
  /\ \A k \in 1..Len(credits) : credits[k] # i
  /\ credits' = Append(credits, i)
  /\ UNCHANGED captured

Next == \E i \in Intents : Capture(i) \/ Credit(i)

Spec == Init /\ [][Next]_<<captured, credits>>
=============================================================================
