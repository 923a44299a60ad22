---------------------------- MODULE CloudAccount ----------------------------
(***************************************************************************)
(* One cloud's billing account as the ownership and closure protocols see  *)
(* it: who is responsible for it, what is still to be settled, and which   *)
(* payment authority it holds.  The protocols are in OwnershipHandoff,     *)
(* CloudClosure and SettlementCollector, their composition in              *)
(* CloudLifecycle.                                                         *)
(*                                                                         *)
(* Every operation locks the account row and commits once: one action.  A  *)
(* request repeated under its identifier returns what is stored, so an     *)
(* action is the first request with its identifier.                        *)
(*                                                                         *)
(* Evidence is bound to a digest of the account's financial rows.  A row   *)
(* is never rewritten to an earlier content (versions and update times are *)
(* digested), so the digest is the number of writes so far, with the one   *)
(* set the digest lists only while it lasts: the unresolved reversals.     *)
(***************************************************************************)
EXTENDS Integers, Sequences, FiniteSets

CONSTANTS
  Users,       \* possible owners
  Methods,     \* payment methods, each with the setup session that creates it
  Payments,    \* payment intents, each of amount 1
  Reversals,   \* provider reversal events, each of amount 1
  Handoffs, Closures,  \* operation identifiers
  MinBalance, MaxBalance, MaxWrites,  \* bounds on a behaviour
  None

ASSUME AccountAssumption ==
  /\ MinBalance \in Int /\ MaxBalance \in Nat /\ MinBalance <= 0
  /\ MaxWrites \in Nat
  /\ None \notin Users \cup Payments

VARIABLES
  account,    \* commercial_accounts: state and balance
  writes,     \* writes to the digested rows so far
  usage,      \* one usage fact, from the producer to its settled invoice
  pay,        \* payment_intents, their inbox rows and responsibility
  reversal,   \* billing_provider_reversal_events and what became of them
  setups,     \* payment_method_setup_sessions.state
  methods,    \* payment_methods.status
  voided,     \* sessions invalidated by a handoff or a closure
  began,      \* the ownership version a session began under
  periods,    \* billing_responsibility_periods, by ownership version
  handoffs,   \* billing_ownership_handoffs with receipts, confirmations, grant
  closures    \* billing_cloud_closures with tasks, receipts, commands

moneyVars == <<account, usage, pay, reversal>>
payerVars == <<setups, methods, voided, began>>

-----------------------------------------------------------------------------
(* Fences and barriers *)

Committing(h) == \/ handoffs[h].phase \in {"commit_authorized", "finalizing"}
                 \/ handoffs[h].phase = "abort_pending" /\ handoffs[h].grant # None

\* requireNoHandoffTx.
Fenced ==
  \/ \E h \in Handoffs : handoffs[h].phase \notin {"none", "finalized", "aborted"}
  \/ \E c \in Closures : closures[c].phase \notin {"none", "canceled"}

\* Mutant: the barrier looks at the closure only.
BarredAfterClosure == account.state = "closed"

\* The triggers that refuse ledger entries, balances, usage, periods, invoices
\* and settlements: enforce_billing_handoff_commit_barrier and, once the
\* account is closed, the financial barrier of the closure protocol.
Barred == account.state = "closed" \/ \E h \in Handoffs : Committing(h)

\* A write to a digested row.
Digested == writes < MaxWrites /\ writes' = writes + 1

Responsible(k) == k \in DOMAIN periods /\ ~periods[k].ended
HasOwner == \E k \in DOMAIN periods : Responsible(k)
Current == IF HasOwner THEN CHOOSE k \in DOMAIN periods : Responsible(k) ELSE 0

-----------------------------------------------------------------------------
(* Provisioning *)

OpenPeriod(u, balance, op) == [owner |-> u, opening |-> balance, ended |-> FALSE, by |-> op]

\* BootstrapBrandCloud: the account and its first period; a replay after a
\* transfer or a deletion returns the receipt.
BootstrapBrandCloud(u) ==
  /\ account.state = "absent"
  /\ account' = [account EXCEPT !.state = "active"]
  /\ periods' = <<OpenPeriod(u, 0, None)>>
  /\ UNCHANGED <<writes, usage, pay, reversal, payerVars, handoffs, closures>>

\* InitializeResponsibility, for an account from before responsibility periods.
InitializeResponsibility(u) ==
  /\ account.state = "active" /\ periods = <<>>
  /\ periods' = <<OpenPeriod(u, 0, None)>>
  /\ UNCHANGED <<moneyVars, writes, payerVars, handoffs, closures>>

-----------------------------------------------------------------------------
(* Money: what the settlement and the payment writers do to the digested rows *)

\* The producer measures usage.  It is drained before a closure, while a
\* handoff in progress leaves what is measured after the cutoff to the target.
ProduceUsage ==
  /\ usage.stage = "none" /\ account.state = "active"
  /\ \A c \in Closures : closures[c].phase \in {"none", "canceled"}
  /\ usage' = [stage |-> "produced", late |-> Fenced]
  /\ UNCHANGED <<account, pay, reversal, writes, payerVars, periods, handoffs, closures>>

\* The fact is accepted, invoiced, and the invoice debited from the balance.
SettleUsage ==
  /\ ~Barred /\ Digested
  /\ \/ usage.stage = "produced" /\ usage' = [usage EXCEPT !.stage = "accepted"] /\ UNCHANGED account
     \/ usage.stage = "accepted" /\ usage' = [usage EXCEPT !.stage = "invoiced"] /\ UNCHANGED account
     \/ /\ usage.stage = "invoiced" /\ account.balance > MinBalance
        /\ usage' = [usage EXCEPT !.stage = "settled"]
        /\ account' = [account EXCEPT !.balance = @ - 1]
  /\ UNCHANGED <<pay, reversal, payerVars, periods, handoffs, closures>>

\* A payment starts under the current owner: bind_payment_responsibility_at_creation.
StartPayment(p) ==
  /\ pay[p].state = "none" /\ account.state = "active" /\ ~Fenced /\ Digested
  /\ pay' = [pay EXCEPT ![p].state = "open", ![p].period = Current]
  /\ UNCHANGED <<account, usage, reversal, payerVars, periods, handoffs, closures>>

\* Its outcome, with which the recorded notifications are processed; the credit
\* is a ledger entry and meets the barrier.
Concluded(p, outcome) ==
  [pay EXCEPT ![p].state = outcome,
              ![p].inbox = IF pay[p].inbox = "scheduled" THEN "processed" ELSE pay[p].inbox]

CapturePayment(p) ==
  /\ pay[p].state = "open" /\ ~Barred /\ Digested
  /\ account.balance < MaxBalance
  /\ pay' = Concluded(p, "settled")
  /\ account' = [account EXCEPT !.balance = @ + 1]
  /\ UNCHANGED <<usage, reversal, payerVars, periods, handoffs, closures>>

FailPayment(p) ==
  /\ pay[p].state = "open" /\ Digested
  /\ pay' = Concluded(p, "failed")
  /\ UNCHANGED <<account, usage, reversal, payerVars, periods, handoffs, closures>>

\* A provider notification, which no fence and no barrier refuses.  One for a
\* payment that has its outcome already is never processed: the job it schedules
\* finds nothing to do and is completed without it.
RecordWebhook(p) ==
  /\ pay[p].state # "none" /\ pay[p].inbox = "empty" /\ Digested
  /\ pay' = [pay EXCEPT ![p].inbox = "scheduled"]
  /\ UNCHANGED <<account, usage, reversal, payerVars, periods, handoffs, closures>>

-----------------------------------------------------------------------------
(* Provider reversals *)

Unresolved == {r \in Reversals : reversal[r].as = "review"}
Allocated(p) == {r \in Reversals : reversal[r].of = p /\ reversal[r].as \in {"balance", "predecessor"}}

\* A committed decision against the period a payment belongs to.
DecidedAgainst(k) ==
  \E h \in Handoffs : handoffs[h].phase \in {"finalizing", "finalized"} /\ handoffs[h].period = k

\* Mutant: the responsibility period of the payment is not asked for.
ClassifyByAccount(p) ==
  IF pay[p].state # "settled" \/ Allocated(p) # {} \/ Barred THEN "review" ELSE "balance"

\* classifyProviderReversalTx.
Classify(p) ==
  IF \/ pay[p].state # "settled"   \* no credit of the full amount
     \/ Allocated(p) # {}          \* the credit is reversed already
     \/ pay[p].period = 0          \* nobody's responsibility is proved
  THEN "review"
  ELSE IF periods[pay[p].period].ended \/ DecidedAgainst(pay[p].period) THEN "predecessor"
  ELSE IF account.state = "closed" \/ \E h \in Handoffs : Committing(h) THEN "review"
  ELSE "balance"

\* allocateProviderReversalTx: a debit only against the current balance.  The
\* digest covers balances and unresolved reversals, not the adjustments.
Allocate(r, p, as) ==
  /\ reversal' = [reversal EXCEPT ![r] = [as |-> as, of |-> p, in |-> Current]]
  /\ IF as = "balance"
     THEN /\ account.balance > MinBalance /\ Digested
          /\ account' = [account EXCEPT !.balance = @ - 1]
     ELSE UNCHANGED <<account, writes>>
  /\ UNCHANGED <<usage, pay, payerVars, periods, handoffs, closures>>

RecordProviderReversal(r, p) ==
  account.state # "absent" /\ reversal[r].as = "none" /\ Allocate(r, p, Classify(p))

\* Mutant: the operator's resolution forces the debit.
ResolveByForce(r) == reversal[r].as = "review" /\ Allocate(r, reversal[r].of, "balance")

\* The evidence must settle the classification, or the review stands.
ResolveProviderReversal(r) ==
  /\ reversal[r].as = "review"
  /\ Classify(reversal[r].of) # "review"
  /\ Allocate(r, reversal[r].of, Classify(reversal[r].of))

\* BindHistoricalPaymentResponsibility: once, to any period of the account.
BindHistoricalPaymentResponsibility(p, k) ==
  /\ pay[p].state # "none" /\ pay[p].period = 0
  /\ pay' = [pay EXCEPT ![p].period = k]
  /\ UNCHANGED <<account, usage, reversal, writes, payerVars, periods, handoffs, closures>>

-----------------------------------------------------------------------------
(* Payment methods and their setup *)

SetupOpen(m) == setups[m] \in {"created", "requires_action"}

BeginPaymentMethodSetup(m) ==
  /\ setups[m] = "none" /\ account.state = "active" /\ ~Fenced /\ Digested
  /\ setups' = [setups EXCEPT ![m] = "created"]
  /\ methods' = [methods EXCEPT ![m] = "pending"]
  /\ began' = [began EXCEPT ![m] = Current]
  /\ UNCHANGED <<moneyVars, voided, periods, handoffs, closures>>

MethodAfter(result) ==
  CASE result = "succeeded" -> "active" [] result = "failed" -> "failed" [] OTHER -> "pending"

\* Mutant: an invalidated session is completed like any other.
CompleteRegardless(m, result) ==
  /\ \/ setups[m] = "created"
     \/ setups[m] = "requires_action" /\ result # "requires_action"
     \/ voided[m] # "no"
  /\ Digested
  /\ setups' = [setups EXCEPT ![m] = result]
  /\ methods' = [methods EXCEPT ![m] = MethodAfter(result)]
  /\ UNCHANGED <<moneyVars, voided, began, periods, handoffs, closures>>

\* CompletePaymentMethodSetup: the provider's answer, which may come long after
\* the request.  For an invalidated session it is kept as evidence, once.
CompletePaymentMethodSetup(m, result) ==
  /\ Digested
  /\ \/ /\ voided[m] = "yes"
        /\ voided' = [voided EXCEPT ![m] = "observed"]
        /\ UNCHANGED <<setups, methods>>
     \/ /\ voided[m] = "no" /\ ~Fenced
        /\ \/ setups[m] = "created"
           \/ setups[m] = "requires_action" /\ result # "requires_action"
        /\ setups' = [setups EXCEPT ![m] = result]
        /\ methods' = [methods EXCEPT ![m] = MethodAfter(result)]
        /\ UNCHANGED voided
  /\ UNCHANGED <<moneyVars, began, periods, handoffs, closures>>

\* RevokePaymentMethod: at any time, in any state of the session.
RevokePaymentMethod(m) ==
  /\ methods[m] \notin {"none", "revoked"}
  /\ methods' = [methods EXCEPT ![m] = "revoked"]
  /\ UNCHANGED <<moneyVars, writes, setups, voided, began, periods, handoffs, closures>>

-----------------------------------------------------------------------------
(* Settlement evidence *)

\* The SHA-256 of captureSettlementStateTx.
Digest == [writes |-> writes, unresolved |-> Unresolved]

\* What captureSettlementStateTx counts.
OpenWork ==
  {w \in {"unpaid_invoices", "payments_pending", "payment_setups_pending",
          "provider_events_unresolved"} :
     \/ w = "unpaid_invoices" /\ usage.stage = "invoiced"
     \/ w = "payments_pending" /\ \E p \in Payments : pay[p].state = "open" \/ pay[p].inbox = "scheduled"
     \/ w = "payment_setups_pending" /\ \E m \in Methods : SetupOpen(m)
     \/ w = "provider_events_unresolved" /\ Unresolved # {}}

LocalEvidence == [balance |-> account.balance, complete |-> {}, open |-> OpenWork]

Checks == {"usage", "invoices", "provider"}

\* The three verdicts of ReconcileSettlementEvidence, on the rows up to a time
\* that covers the usage or comes before it.
ReconciledChecks(covered) ==
  {k \in Checks :
     \/ k = "usage" /\ usage.stage # "invoiced" /\ (covered => usage.stage # "accepted")
     \/ k = "invoices" /\ usage.stage # "invoiced"
     \/ k = "provider" /\ OpenWork \subseteq {"unpaid_invoices"}}

\* mergeSettlementEvidence: local counts can only add blockers.
Merge(external, local) ==
  [balance |-> local.balance, complete |-> external.complete, open |-> external.open \cup local.open]

OwnershipTransferBlockers(e) ==
  (Checks \ e.complete) \cup e.open \cup {b \in {"balance_negative"} : e.balance < 0}

CloudClosureBlockers(e) ==
  OwnershipTransferBlockers(e) \cup {b \in {"balance_positive"} : e.balance > 0}
=============================================================================
