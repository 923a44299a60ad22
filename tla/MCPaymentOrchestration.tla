----------------------- MODULE MCPaymentOrchestration -----------------------
(* PaymentOrchestration for TLC: one intent per kind of checkout. *)
EXTENDS PaymentOrchestration, TLC

CONSTANTS a, h, p, v, w   \* intents a stored, h form, p order; workers v, w

FlavorOf == [i \in Intents |-> CASE i = h -> "form" [] i = p -> "order" [] OTHER -> "stored"]

\* Two workers with the same configuration are interchangeable.
AnyWorker == Permutations(Workers)
=============================================================================
