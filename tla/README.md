# A TLA+ model of rtk_billing

`rtk_billing` keeps the money side of a cloud platform: one commercial account
per organization, an append-only ledger with a balance, payments through several
providers, automatic top-up, invoices from metered usage, and the protocols that
hand an account to a new owner or close it. This directory models its stateful
core in TLA+, checks it with TLC on small instances, and proves the central
safety properties with TLAPS for every instance.

## The system

Processes: the API server (`cmd/server`), any number of payment workers
(`cmd/payment-worker`), the settlement collector (`cmd/settlement-collector`), a
provider simulator, and one-shot commands. They share nothing but PostgreSQL.
Almost every store method begins a transaction, locks the row of the commercial
account with `SELECT ... FOR UPDATE`, reads, decides, writes and commits; so a
store method is an atomic step, and everything interesting happens *between* two
methods of one process: provider calls, crashes, expired leases, other processes.

| Part | State | Operations | Hard behaviour |
| --- | --- | --- | --- |
| Payment intents, jobs, attempts, inbox (`paymentstore/orchestration.go`, `intents.go`, `webhooks.go`) | intent state and provider reference; one open job per intent and reason; attempts with digest and completion; receipts | create, claim, begin, set digest, finalize, complete, record webhook | leases that expire under a live worker; a charge whose answer is lost; two jobs of one intent; duplicate and late events |
| Payment worker (`paymentservice`) | memory of one batch | run once, process job | an error ends the process; restart finds half-done work |
| Provider adapters (`paymentprovider`) | none here; the provider has its own | charge, query, create and capture order, verify webhook | an error that may hide an executed request |
| Hosted checkout API (`api/payments.go`) | a request's local memory | create top-up, PayPal return | a crash between the provider call and the transaction that records it |
| Ledger, balance, automatic top-up (`ledger.go`, `policy.go`, `customer.go`) | balance, account state, policy, intents | debit, credit, edit and disable the policy, revoke a method, reversal, outcome of a payment | limits, cooldown, generations, three failures, a clock read before the lock |
| Provider reversals (`reversals.go`) | events, allocations, reviews | record, resolve, bind responsibility | order of events around a change of owner |
| Payment method setup (`setups.go`) | sessions, methods, consents | begin, complete, revoke | completion after invalidation |
| Top-up e-mail (`topup_email.go`, `topupemail`) | outbox rows | claim, send, mark, retry | two senders of one row |
| Ownership handoff (`handoff*.go`) | operation phase, receipts, snapshots, confirmations, authorization, decision | prepare, settle, confirm, authorize, finalize, abort | stale confirmations; commit in two transactions |
| Cloud closure (`cloud_closure*.go`) | closure phase, revocation tasks, receipts | prepare, revoke, settle, close, cancel, retire | expiring evidence |
| Settlement collector | cursor | capture, ask producer, reconcile, record | evidence about a state that moved on |
| Pricing, usage, invoices (`billingstore`, `billing`, `billingservice`) | versions, facts, periods, invoices, seals | activate, put usage, prepare, debit, settle, document | a close retried after any of its steps |
| Raw retention (`rawretention`) | policies, clearances, holds, operations | put, approve, activate, hold, release, request, abort, resolve | a hold that meets a deletion in flight |

What must be true of it: a customer is credited exactly what a provider captured,
once; a charge is sent at most once; money taken is never recorded as a failure
and always ends up in the ledger; automatic charging stays within the limits its
owner gave; a new owner opens with the balance both parties confirmed and inherits
no charge, no payment method and no chargeback of the old one; a closed account is
empty; a period is billed once, from all of its usage, at one price that stays
explained, to whoever was responsible; and no record under a legal hold is removed.

`PROJECT.json` lists every part with its status, the hazards at their source
lines, and the source lines of every definition.

## Modules

| Module | Models |
| --- | --- |
| `IntentStates` | the state machine of an intent and the classification of provider errors, as operators |
| `PaymentOrchestration` | intents, queue, attempts, inbox, credits, workers, checkout handlers, providers and buyer |
| `ExactlyOnceSettlement` | the abstract promise: payments are captured, and a captured payment is credited at most once |
| `AutoTopUp` | balance, account state, automatic top-up policy and its triggers, payment outcomes, reversals, fences |
| `CloudAccount` | the account as the ownership protocols see it: responsibility, money to settle, reversals, payment methods and their setup, settlement evidence |
| `OwnershipHandoff` | the transfer protocol and the Account Manager's side of it |
| `SettlementCollector` | the collector's passes, preflight receipts and the advisory answers |
| `CloudClosure` | the deletion protocol |
| `CloudLifecycle` | the composition of these four, and its properties |
| `PriceBook` | drafts, activations and reviewed publications of pricing versions |
| `UsageIntake` | usage facts and period seals |
| `PeriodClose` | the steps of `ClosePeriod`, profile, responsibility and visibility |
| `BillingPeriod` | the composition of these three, and its properties |
| `InvoiceTotals` | rating, rounding, overflow checks and tax allocation |
| `RawRetention` | the authority over the removal of raw records, its consumers and Logger |
| `MC...` | the constants of the instances for TLC |
| `PaymentTypeProofs`, `PaymentSafetyProofs` | theorems and proofs about `PaymentOrchestration` |
| `AutoTopUpProofs` | theorems and proofs about `AutoTopUp` |
| `BillingBasisProofs`, `BillingProofs` | theorems and proofs about `BillingPeriod`: what is billed from; the calls of `ClosePeriod` and the invoices |
| `LifecycleBasisProofs`, `LifecycleProofs` | theorems and proofs about `CloudLifecycle`: owners, reversals, authority and passes; receipts, transfers and deletions |
| `RetentionProofs` | theorems and proofs about `RawRetention` |

`IntentStates` is shared by the two payment modules. The groups are checked apart,
and each contains what it needs of the others: the fence of an ownership operation
in the payment modules, a payment reduced to open, settled or failed in
`CloudAccount`, a change of owner reduced to its effect in `PeriodClose`.

### PaymentOrchestration

*State.* `state` and `reference` are columns of `payment_intents`; `jobStatus`
and `lessee` the open or last row of `payment_reconciliation_jobs` for an intent
and a reason (the partial unique index allows one open row, so one cell each is
enough); `attempts` the rows of `payment_attempts`; `inbox` the webhook receipts;
`ledger` the intents credited, in order; `payer` and `fence` what decides whether a
charge may start. `provider`, `charged` and `link` are outside the repository: what
the provider did, how many charge requests reached it, and whether the buyer holds
a form or approval link. `pc`, `batch`, `current`, `held`, `answer`, `answerRef`,
`seenRef` are the memory of a worker, `api` and `returning` that of the two
checkout handlers.

*Actions.* One per store method, with one action per outcome where a method has
several (`BeginFails`, `BeginNotActionable`, `BeginRecovers`, `BeginStarts`), one
per provider call, and one per failure of it. An error that `RunOnce` returns ends
the process: the worker forgets its batch and its leases run out (`Exit`).

*Kinds of checkout* (`Flavor`): a stored method charged by a worker, a NewebPay
form the buyer posts, a PayPal order that the API creates and captures. They differ
in who talks to the provider and in what the adapters report.

*Time* is abstracted to its effects. A lease may be taken over from a worker that
is still busy only at the price of a fault, from a worker that let go for free. The
job of a hosted top-up is due after five minutes and the handler that creates the
order has a 15 s deadline, so that job is not claimed before the handler is done
(`Due`).

*Bounds.* `MaxFaults` bounds crashes, takeovers of live leases, lost answers and
interference between two jobs of one intent: three are enough for a charge that is
lost, recovered by another worker, and interrupted again. `MaxAttempts` bounds the
inconclusive lookups (a lookup that concludes is never cut off), `MaxEvents` the
distinct webhook events, `MaxIntents` the intents created. Two workers are what a
takeover needs; a third only repeats the roles. `Intents` has one intent of each
kind and a behaviour creates one of them: intents interact only through the batch of
a worker and the fence (see Observations for the batch). In `payments` the two
workers are interchangeable, so that run uses their symmetry; so does `topup_owner`
for methods.

*Fairness* (`FairSpec`), for the liveness run only. Workers and handlers keep
going and are restarted by their supervisor (`cmd/payment-worker` exits on an
error); claims are in `due_at` order, so no due job is passed over for ever; a
provider repeats an event until it is acknowledged. Nothing is assumed of the
buyer or of the outcome at the provider.

### AutoTopUp

*State.* `balance` and `standing` are columns of `commercial_accounts`, `policy` the
one row of `auto_topup_policies`, `intents` the rows of `payment_intents` in commit
order, `method` the status of the stored methods, `fence` what `requireNoHandoffTx`
and the commit barrier look at, `owner` the version of the open responsibility
period. `terms` of an intent and `owner` of a policy remember under whom and under
which limits they were made; `recovered` is a history variable.

*Actions.* One per store method, each a single transaction: `Debit` includes the
evaluation of the policy that `PostLedgerEntry` ends with, `Credit` the rearming,
`TransitionIntent` the credit, the failure count and the account state. How a
payment reaches its outcome is the business of `PaymentOrchestration`; here an
intent takes any legal transition at any time. A debit and a manual top-up are
stamped with a clock read before the account lock, so they may commit up to `Delay`
late and out of order.

*Abstractions.* `commit` stands for every phase of a handoff from the commit
authorization to its end, and finalizing is one step. The account states `suspended`
and `closed` do not occur: nothing in the payment store but the final closure sets
them. A repeated request returns the stored row and is not a step.

*Bounds.* A tick is half a day, so `MaxClock` 3 spans two days and `Delay` 1 a
midnight. Three intents make the third failure and the second top-up of a day; two
edits make two generations. The range of the balance is -1..5, so that both of its
ends are reached. The system may stop: every action is a request from outside, and
an account nobody uses rests, so deadlock is not checked.

### CloudAccount, OwnershipHandoff, SettlementCollector, CloudClosure

*State.* `account`, `pay`, `reversal`, `setups`, `methods`, `periods`, `handoffs`,
`closures` are rows of the tables named beside them; `usage` follows one fact from
the producer to its settled invoice, `late` if it was measured after the cutoff of
the handoff in progress; `am` is the Account Manager's durable decision; `collector`
the memory of a pass; `preflight` the last receipt. Amounts are one unit: what the
protocols compare is whether a balance is negative, zero, positive, or changed.

*The digest.* Settlement evidence is bound to a SHA-256 over the account's financial
rows, which contain versions and update times. No row returns to earlier content, so
the model's digest is the number of writes to those rows, together with the set of
unresolved reversals, which the code lists only while they are unresolved
(`writes`, `Digest`). An operation that does not touch a digested row leaves it alone.

*Actions.* One per store method. `FinalizeOwnershipHandoff` of the code is two
transactions, so two actions (`RecordCommittedDecision`, `FinalizeOwnershipHandoff`).
Messages of the Account Manager may arrive at any time after they were sent, again,
and overtaken by its decision. A collector's pass is four actions (`Capture`,
`Attest`, `Reconcile`, `Record...`), and may die between any two (`Fail`). Receipts
expire all together (`ExpireReceipts`). The collector of closure receipts is not in the
repository; it is modelled as a pass like the others and marked external.

*Bounds.* `MaxWrites` bounds the writes of a behaviour, `MaxReceipts` and
`MaxSettlements` the receipts of an operation; two receipts are what a stale
confirmation needs. One handoff, or one handoff and one closure, one payment, one
reversal or one method at a time: the interference the properties are about is between
two of them. Users are interchangeable (symmetry). The system rests when nobody asks
for anything, so deadlock is not checked.

*Fairness* (`FairSpec`, run `lifecycle_advice`): the Account Manager repeats a
cancellation until it is acknowledged, and certifies the release of its holds.

### PriceBook, UsageIntake, PeriodClose

*State.* `versions` is `pricing_plan_versions` with rates and draft manifest; a card is
its metered price, the state of its OTA rates, and its tax mode. `facts`, `periods`,
`seals`, `terms` (responsibility periods), `profile`, `invoices`, `debits`,
`documents` are rows; `posts` are calls of `PutUsageFact` between check and insert,
`accepted` what producers were told; `closers` are calls of `ClosePeriod`, each with
its own copy of the invoice. Time counts half months.

*Actions.* Activation holds the pricing lock exclusively and preparation holds it
shared, so each is one step. `PutUsageFact` is two: other calls run between the check
and the insert behind the trigger `usage_period_barrier`. `ClosePeriod` is five
(prepare, debit, settle, look for the document, store it), and a call may end between
any two (`Stop`). A failed calculation rolls back and is no step.

*Abstractions.* A fact's window, metric, product, object and grant are all that the
code tells apart; the digest of a set of facts is the set. A seal is made after its
month by an honest source: the code checks the `sealed_at` it claims, not the clock.
An activation and a hand-over are stamped with the time of their step; the code reads
the clock just before the lock, or takes a time from the request, and half months do not
tell the two apart. What the Account Manager confirms of a tier and a grant is stored
with a fact for the close, and is free each time an estimate is asked for.
The handoff here is its effect on responsibility and profile, without the settlement
that precedes it: more behaviours than the code has. Amounts here are sums of prices;
their arithmetic is `InvoiceTotals`.

*Bounds.* Two calls and one early end for the close; three versions, three cutovers and
a window across a month's start for the book; three ownership versions of two users, so
that the first may return, for the rest.

*Fairness* (`FairSpec`, run `billing_close`): a running call goes on, and the caller
asks again for a period it has not seen completed. Nothing in the repository repeats
`ClosePeriod`; the operator or scheduler that calls it does.

### InvoiceTotals

Pure arithmetic, as operators; the state machine only enumerates inputs: rates per
line, facts, tax mode. Numbers are scaled: `BasisPoints` 4 for 10000, `MaxInt` 6 for
the largest int64, so that every remainder, tie and overflow happens with small
numbers. Three lines, because the allocation orders lines and three can tie in part.

### RawRetention

*State.* The rows of policies, clearances, holds and operations; `requests` are
handlers of `RequestOperation` that have gathered evidence and not yet taken the store
lock, `receipts` Logger's answers on their way to `Resolve`; `committed`, `logger`,
`retired`, `closed` are outside: what consumers and Logger have done, and which billing
periods are closed.

*Actions.* One per store method; `RequestOperation` is two, with the evidence in
between, and so is `Resolve`. Logger reads a decision, applies it later, or aborts it;
it keeps an abort (its own durable state), which is the one assumption about it, taken
from how `Resolve` uses its receipts.

*Bounds.* Two records, three plans, two operations, a hold of the whole store and one
of the second record, a policy, a clearance, a handler, three instants with proofs
good for one.

*Fairness* (`FairSpec`): the controller repeats its request to resolve an operation
until it is answered. Nothing is assumed of Logger.

## Runs

| Run | Checks |
| --- | --- |
| `payments` | a stored method with two workers, a NewebPay form or a PayPal order, three faults, a webhook, revocation and fence: `CreditedExactlyOnce`, `ChargedAtMostOnce`, `CaptureNeverWrittenOff`, `UnsettledIsScheduled`, `QuietMeansSettled`, and that every step is one of `ExactlyOnceSettlement` |
| `live` | a rollout in which one of two workers may charge, under `FairSpec` with one fault: `CaptureEventuallyCredited` for a charge or a PayPal order |
| `topup_policy` | two days, stale clocks, failures, edits, reversals: `OneTopUpInFlight`, `WithinDailyLimits`, `CooldownKept`, `ThreeFailuresDisable`, `OneTopUpPerCrossing` |
| `topup_owner` | two methods, a manual top-up, two handoffs or closures: `NoInheritedPolicy`, `CommitIsQuiet` |
| `lifecycle_handoff` | a transfer with two receipts while usage, a payment, its late notifications and a reversal arrive: `ConfirmedBalanceTransfers`, `StillUntilDecided`, `ReversalChargesItsOwner` |
| `lifecycle_closure` | a transfer and a deletion compete, with a method in setup: `AuthorityBelongsToOwner`, `ClosedIsSettled` |
| `lifecycle_advice` | the collector interleaved with money and a handoff: `EligibleMeansSettled`, `CancellationReleasesFence` |
| `billing_close` | two calls close a period against producers that still post: `ClosedPeriodBillsAllItsFacts`, `InvoiceDebitedOnce`, `RendersAgree`, `CloseCompletes` |
| `billing_cutover` | drafts, back-dated and scheduled activations and publications race with closes: `PriceIsUnambiguous`, `InvoicePriceExplained`, `PublishedExtendsBase` |
| `billing_owner` | a month of metered and OTA usage, its seals and two hand-overs: `OTAInvoiceIsSealed`, `OTAInvoiceChargesMonthOwner`, `RecipientIsOwner`, `VisibleInvoiceIsOwn`, `EstimateIsInvoiceOrHeld` |
| `invoice_totals` | every mix of five rates on three lines: `TaxFollowsSubtotal`, `OverflowIsExact` |
| `retention` | holds, cancellations and aging evidence around two operations: `HoldsAndDecisionsExclude`, `RetiredIsPrefix`, `AbortedIsNeverApplied`, `DecidedOnCurrentEvidence`, `QueuedHoldsSettle` |

All of them pass. The ones a reader might doubt:

`CaptureNeverWrittenOff`: a failure may be recorded only when the money cannot have
been taken, which needs the classification of every error, the rule that an
interrupted charge becomes a query, and for PayPal that no buyer can hold a link to an
order whose id was not recorded. `QuietMeansSettled` says that the counts
`captureSettlementStateTx` takes for a handoff are sound although workers act between
transactions.

`OneTopUpInFlight` rests on the query for any open intent, since the unique index
covers one generation only. `CommitIsQuiet` needs the guard of the authorization, the
fence against new intents and the barrier trigger on the ledger together.

`ConfirmedBalanceTransfers` relates four things written by four parties at different
times: the receipt, the two confirmations, the grant and the new period. It holds
because confirmation and authorization both look at the digest again, and because
finalizing compares it once more. `AuthorityBelongsToOwner` is about provider answers
that come after the operation that cut their session short. `EligibleMeansSettled`
says that an advisory answer, computed from a receipt that is minutes old, is still
true now.

`ClosedPeriodBillsAllItsFacts` fails without the trigger, whatever the check before
it does. `PriceIsUnambiguous` is why `Contiguous` and the order of the two starts are
looked at. `EstimateIsInvoiceOrHeld` compares two computations in different packages,
at different times: the estimate asks the account's state and the Account Manager again
(both answers are free in the model), and may then hold the OTA usage back, but only
when an answer denies it, and nothing else.

`HoldsAndDecisionsExclude` is the retention protocol in one line. `AbortedIsNeverApplied`
is delicate for a plan Billing never accepted, which is canceled without asking Logger:
it is safe because Logger acts on an accepted decision only and a canceled identifier
can no longer be accepted. `DecidedOnCurrentEvidence` is about the two looks of
`RequestOperation`: whatever changed while the consumers were asked, the policy, the
clearance, the frontier and the holds are those of the moment of the decision.

## Observations

Where the code and its documents differ, or where the code does something a reader
would not expect. The models include these behaviours (the first one when a worker is
left out of `Registered`, the fifth with two intents); no property above excludes them.

| Behaviour | What a document says |
| --- | --- |
| a worker without the provider's adapter records `failed` for a payment that may have been captured (`paymentservice/service.go:174`) | `payment_abstraction_and_auto_topup.md:180`: `unknown` is mandatory when a request may have reached the provider |
| an attempt whose intent was concluded through another job is never completed (`orchestration.go:120`) and goes on counting as open provider work | `cloud_ownership_handoff.md:87`: already dispatched provider work must reconcile |
| an event recorded for an intent that is already concluded stays `scheduled` for ever (`webhooks.go:96`; its job ends at `orchestration.go:120` before the update at `:371`) and counts as `payments_pending` (`handoff_settlement.go:410`), so a handoff or closure stays blocked | `cloud_ownership_handoff.md:87`, as above |
| a `requires_action` answer about an `unknown` intent cannot be recorded (`payment/intent.go:37`) and ends the worker each time | `payment_abstraction_and_auto_topup.md:333`: persist the normalized result |
| a charge job stopped by the fence ends every batch before the reconciliation behind it (`paymentservice/service.go:106`) | `cloud_ownership_handoff.md:86`: reconciliation remains available |
| a policy enabled anew while the account is `attention_required` is armed, and no debit evaluates it (`ledger.go:100`) | `payment_abstraction_and_auto_topup.md:361`: armed, and the balance below the threshold, opens an intent |
| a reversal leaves the account `active` when no armed policy was there to disarm (`ledger.go:133`) | `payment_abstraction_and_auto_topup.md:188`: it moves an otherwise-active account to `attention_required` |
| a provider notification recorded after the commit authorization changes the digest for good, so the second transaction of the finalization never succeeds (`handoff_commit.go:180`); balance and ownership stay as they were | `cloud_ownership_handoff.md:114-117`: after owner commit retry finalization; provider callbacks remain enabled |

Not covered by a document:

- A method that its owner revokes while its setup is pending becomes active if the
  provider then reports success, with a revoked consent (`setups.go:257`).
- A fact no rate prices fails the calculation after the period was marked; the
  transaction rolls back, and the mark `invoice_calculation_invalid` with it.
- Nothing in `ClosePeriod` waits for the end of the period or compares periods:
  overlapping and premature closes are the caller's to avoid
  (`pricing-activation-runbook.md:125`).
- A profile from before responsibility periods has no ownership version and is not
  adopted by `InitializeResponsibility`; OTA invoices wait until the next handoff.
- A month without billable usage stays incomplete. The exception for a card with
  nothing but OTA rates (`invoices.go:166`) does not arise: a reviewed card extends one
  that has other rates.

## Proofs

Proved with TLAPS, for all values of the constants that satisfy the module's named
assumption (types of the constants; plans and holds with `from <= through`):

*PaymentOrchestration* (`ConstantsAssumption`).

- `TypeCorrect`: `Spec => []TypeOK`, with `WorkerMemory`: a worker past "ready" holds
  a job, and one past "complete" an attempt that exists. Without it `held` could
  point outside `attempts` and no action that completes an attempt could be typed.
- `CreditsExactlyOnce`: `Spec => []CreditedExactlyOnce`. Inductive together with the
  types: the credit and the state change in one action, and no legal transition
  leaves `succeeded`.
- `CreditsAreBacked`: `Spec => []CreditIsBacked`. Needs `Backing`: a worker about to
  record `succeeded` and a handler about to record a capture have seen one, and a
  captured payment stays captured.
- `Implementation`: `Spec => Settlement!Spec`, from the two above: a step appends at
  most one intent to the ledger, one that was captured and not credited before.
- `ChargesAtMostOnce`: `Spec => []ChargedAtMostOnce`. The invariant counts: a worker
  about to call holds the only charge attempt of the intent, and an intent that was
  charged is past `created`.

*AutoTopUp* (`TopUpAssumption`; `NoPolicyAssumption`: the absent policy is not a policy).

- `TypeCorrect`: `Spec => []TypeOK`, action by action; the lemma `PolicyFields` gives
  the types of a policy's fields, `PostingTypes` the range of the balance.
- `OneTopUpAtATime`: `Spec => []OneTopUpInFlight`, inductive with the types. A debit
  appends only when nothing is open (`DebitTriggersWhenQuiet`), and only an open row
  moves (`MovedRow`).
- `CooldownHolds`: `Spec => []CooldownKept`. The invariant `CooldownInv` adds that no top-up
  is of a generation to come, and that those of the current one were created no later
  than the policy's `last_triggered_at`, which the next one is compared with.
- `TopUpsAnswerCrossings`: `Spec => OneTopUpPerCrossing`. The invariant `ArmedRecovered`: an
  armed policy has seen the balance at its threshold, or was saved, since the last
  automatic top-up.
- `ChangesMoveVersion`, `RetiredStaysRetired`: the action properties
  `EveryChangeMovesVersion` and `RetirementIsFinal`. Both rest on `PolicyStep`: a step
  leaves the policy, changes it within its generation, or starts a new generation.
- `PolicyIsTheOwners`: `Spec => []NoInheritedPolicy`, from `PolicyStep` and `OwnerStep`.
- `CommitsAreQuiet`: `Spec => []CommitIsQuiet`. Under a commit no ledger row is posted
  and no payment is created; none is open, so none can move.

*RawRetention* (`RetentionAssumption`).

- `HoldsExclude`, `DeniedIsDenied`, `DecisionsAreFinal`: `HoldsAndDecisionsExclude`,
  `AbortedIsNeverApplied` and `DecisionIsFinal`. The invariant `Agreement` ties Billing
  and Logger: an operation with a plan is recorded, at most one is open, Logger goes
  beyond "idle" by a decision or an abort only, and a receipt says what Logger did.
- `RecordsLeaveInOrder`: `Spec => []RetiredIsPrefix`. The invariant `Order` names the
  frontier n: completed ranges fill 1..n, an open one starts at n + 1, and what Logger
  removed is 1..n or reaches to the end of the open range.
- `DecisionsAreCurrent`: `Spec => DecidedOnCurrentEvidence`, from the invariants of the
  other two and `OnePolicyActive`: `SetActive` leaves at most one policy active.
- `EvidencedRetirement`: `Spec => []RetiredIsEvidenced`. The invariant `Evidence` keeps
  for every accepted plan what was seen when it was asked for; `Growth` says that
  time, commits and closed periods only grow, so old evidence stays true.

*BillingPeriod* (`PriceBookAssumption`, `UsageAssumption`, `CloseAssumption`): any
versions, rate cards, producers, facts, periods, users and calls. The inductive
invariant `BillingInv` (theorem `BillingInvariant`) has nine parts. None is inductive
alone: what an invoice says is compared with rows that other handlers go on changing.

- `BookInv`: published versions are a chain without overlap (`NoOverlap`) or gap
  (`NoGap`), only the last is open-ended (`Ends`), and a published OTA card still extends
  its base (`Extends`). `ActivationRows` says what an activation does to each row, and
  `ActivationKeepsIntervals` and `ActivationKeepsExtends` that the chain survives a
  back-dated one. It gives `PriceUnambiguous` (`[]PriceIsUnambiguous`) and
  `PublicationExtendsBase` (`[]PublishedExtendsBase`).
- `IntakeInv`: what a producer was told is stored, and a month is sealed only when it is over.
- `OwnerInv`: the shape of the terms, the last one open, and that a profile belongs to
  the owner of its version. The step lemma `TermsGrow`: owners and starts never change,
  and an end changes only to the time of the hand-over.
- `InvoiceType` and the step lemma `InvoiceStep` (`InvoiceKept`): a step leaves an
  invoice, issues it from the rows of that moment, or settles it.
- `CloseInv`: each call of `ClosePeriod` holds a true copy (`Copied`) of the invoice it
  works on, debits and links agree (`Entered`), and a stored document is the render of
  its invoice (`Documented`). It gives `DebitedOnce` (`[]InvoiceDebitedOnce`) and
  `DocumentsAgree` (`[]RendersAgree`) for any number of calls.
- `Billed`, `Sealed`, `Verified`, `Charged`: an invoice agrees with the book and the usage,
  with the seals, with what was verified of its facts, and with the terms *as they are now*. The lemmas `UsageFrozen`, `SealsFrozen`
  and `PriceFrozen` say why it stays so: the period barrier refuses facts, a seal is
  written once, and `NotInvoiced` refuses an activation that would shorten a version
  across an invoice. They give `ClosedPeriodComplete`, `PriceExplained`, `OTASealed`,
  `MonthOwnerCharged`, `RecipientOwns`, `VisibleIsOwn` and `EstimateAgrees`, for the
  invariants of the same subject in the runs, and the action property `InvoicesFinal`:
  after it is written an invoice only has its settlement recorded.

*CloudLifecycle* (`TargetAssumption`: transfers and deletions have different names;
`CarriedAssumption`: carried balances are integers): any owners, payments, reversals,
methods, transfers, deletions and any number of passes. The theorem
`LifecycleInvariant` is `Spec => []LifecycleInv`, with these parts beside the types:

- `FenceInv`: one open operation at a time, begun in the period that is still the
  responsible one. The step lemmas (`StepOrder` and the `...Frame` lemmas) say which
  actions begin an operation, end a period or touch a method; the others stutter for
  the rest of the argument.
- `ReversalInv`: an allocated reversal points to a settled payment, and the payment to
  the period that was credited. It gives `ChargebacksFindTheirOwner`
  (`[]ReversalChargesItsOwner`): `Classify` compares that period with the current one in
  the transaction that debits.
- `AuthorityInv`: under a fence no setup is open, and a deletion's tasks are all the
  methods that exist. It gives `AuthorityStaysWithOwner` (`[]AuthorityBelongsToOwner`):
  a provider's late answer finds its setup voided.
- `PassInv` and `ReceiptInv`, the heart: `Stands(e, n, t)` says that evidence taken when
  n settlement rows had been written vouches for the balance and the usage *as long as n
  is still the number of rows*. A pass has it step by step (`CapturedPass`,
  `AttestedPass`, `ReconciledPass`), a receipt from its pass (`RecordedStands`), and
  every action keeps it (`EvidenceKept`): what changes the balance also writes a row, and
  usage that arrives unnoticed is either the target's or refused by the fence. A
  digest that is compared for equality later thus says what the account is now. This
  gives `EligibilityIsCurrent` (`[]EligibleMeansSettled`).
- `CommitInv`: a committed transfer has both confirmations on its granted snapshot, and
  `CommitKeepsStill` (`[]StillUntilDecided`) holds: `GrantedNow` uses that the snapshot
  stands at the grant, `Frozen` that the barrier refuses whatever would move the account.
- `TransferInv`: a period opened by a transfer belongs to a finalized one, whose row is
  never written again (`HandoffRows`). It gives `TransfersAreConfirmed`
  (`[]ConfirmedBalanceTransfers`) from `HandedOver`.
- `ClosedAccountsAreSettled` (`[]ClosedIsSettled`): `ClosedNow` is what `CloseCloud` finds
  when the last receipt stands and nothing blocks, `Frozen` and `RevokedStay` keep it.

`TypeOK`, `CreditIsBacked`, `EveryChangeMovesVersion`, `RetirementIsFinal`, `DecisionIsFinal`
and `RetiredIsEvidenced` are proved and not repeated in a run. `BillingInv` includes the
types of the billing modules and `LifecycleInv` those of the lifecycle modules, so
their runs check no type invariant of their own.

Checked by TLC only:

- liveness (`CaptureEventuallyCredited`, `CancellationReleasesFence`, `CloseCompletes`,
  `QueuedHoldsSettle`): out of this prover's reach;
- the sums and counts of `AutoTopUp` (`WithinDailyLimits`, `ThreeFailuresDisable`) and everything of `InvoiceTotals`, which add up over sequences
  and sets: what such a sum is for every input needs induction over data;
- `CaptureNeverWrittenOff`, `UnsettledIsScheduled` and
  `QuietMeansSettled`, for which no inductive strengthening has been written down.

## Not modelled

- The top-up e-mail outbox: single-statement updates of one row, fenced by the attempt
  count. A lease that expires under a slow sender makes a second mail, which the
  database cannot prevent.
- The payment simulator: a stand-in for the providers.
- Partial reversals in `CloudAccount` (a payment is one unit there; `AutoTopUp` has them).
- `SettleInvoice`, which only tests call; the account state `suspended`, which nothing
  in the payment store sets; the access state of `accessstore`, one row with a version.
- Two payment workers that share a host name and so a lease identity.
- Request validation, routing, authentication, read-only listings, rendering of
  documents, encryption, signatures and wire formats, migrations and audit commands:
  they keep no protocol state.
