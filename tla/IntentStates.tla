---------------------------- MODULE IntentStates ----------------------------
(***************************************************************************)
(* The lifecycle of a payment intent: the pure functions of                *)
(* internal/payment/intent.go and of the result half of                    *)
(* internal/payment/provider.go.                                           *)
(***************************************************************************)

IntentState == {"created", "processing", "authorized", "requires_action",
                "unknown", "succeeded", "failed", "canceled"}

IntentStateTerminal(s) == s \in {"succeeded", "failed", "canceled"}

Successor(from) ==
  CASE from = "created"         -> {"processing", "canceled"}
    [] from = "processing"      -> {"authorized", "requires_action", "unknown",
                                    "succeeded", "failed", "canceled"}
    [] from = "authorized"      -> {"succeeded", "unknown", "failed", "canceled"}
    [] from = "requires_action" -> {"processing", "authorized", "succeeded",
                                    "unknown", "failed", "canceled"}
    [] from = "unknown"         -> {"authorized", "succeeded", "failed", "canceled"}
    [] OTHER                    -> {}

CanTransitionIntent(from, to) == from = to \/ to \in Successor(from)

\* ValidateProviderResult: what an adapter may report about a payment.
ProviderResultState == IntentState \ {"created", "processing"}

\* Mutant: every error is conclusive.
StateForProviderErrorConclusive(kind, mayHaveReachedServer) ==
  IF kind = "requires_action" THEN "requires_action" ELSE "failed"

\* The state an intent takes when the provider call returned an error.
StateForProviderError(kind, mayHaveReachedServer) ==
  IF kind \in {"declined", "invalid_request", "authentication"} /\ ~mayHaveReachedServer
    THEN "failed"
  ELSE IF kind = "requires_action" THEN "requires_action" ELSE "unknown"
=============================================================================
