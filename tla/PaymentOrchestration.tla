------------------------ MODULE PaymentOrchestration ------------------------
(***************************************************************************)
(* Durable payment orchestration of one commercial account: payment        *)
(* intents, the PostgreSQL job queue, provider attempts, the webhook inbox *)
(* and the ledger credits (internal/paymentstore), the payment workers     *)
(* that drive them (internal/paymentservice), the hosted-checkout API      *)
(* handlers (internal/api/payments.go), and, outside the repository, the   *)
(* payment providers and the buyer.                                        *)
(*                                                                         *)
(* Every method of the store locks the account row and commits once, so it *)
(* is one action.  Between two methods a worker holds only local memory:   *)
(* that is where crashes, expired leases and the other actors come in.     *)
(*                                                                         *)
(* What transitionIntentTx does to the balance and to the automatic top-up *)
(* policy is the subject of module AutoTopUp; here a credit is an entry of *)
(* the ledger that names its intent.                                       *)
(***************************************************************************)
EXTENDS IntentStates, Integers, Sequences, FiniteSets

CONSTANTS
  Intents,        \* the intents that may come to exist
  Flavor,         \* how each one is paid: see Flavors
  StoredPending,  \* what a charge provider may report while a charge is pending
  Workers,        \* payment-worker processes, one host name each
  Registered,     \* the workers configured with the provider's adapter
  ChargeEnabled,  \* the workers configured to charge stored methods
  BatchSize,      \* jobs one ClaimPaymentJobs may lease
  MaxIntents,     \* bound on the intents created
  MaxEvents,      \* distinct webhook events per intent
  MaxFaults,      \* bound on crashes, expired leases and lost answers
  MaxAttempts,    \* bound on the attempts of an intent: see CallQuery
  NoJob

\* A stored card charged by a worker (simulator), an encrypted form the buyer
\* posts (NewebPay), an order the buyer approves and the API captures (PayPal).
Flavors == {"stored", "form", "order"}

Reasons == {"charge", "unknown", "webhook"}
Jobs == Intents \X Reasons

ASSUME ConstantsAssumption ==
  /\ Flavor \in [Intents -> Flavors]
  /\ StoredPending \subseteq {"unknown", "authorized", "requires_action"}
  /\ StoredPending # {}
  /\ Registered \subseteq Workers
  /\ ChargeEnabled \subseteq Workers
  /\ BatchSize \in Nat \ {0}
  /\ MaxIntents \in Nat
  /\ MaxEvents \in Nat
  /\ MaxFaults \in Nat
  /\ MaxAttempts \in Nat
  /\ NoJob \notin Jobs

VARIABLES
  \* the database
  state,      \* payment_intents.state, "absent" before the row exists
  reference,  \* whether payment_intents.provider_transaction_reference is set
  jobStatus,  \* payment_reconciliation_jobs.status of the open or last row
  lessee,     \* payment_reconciliation_jobs.lease_owner
  attempts,   \* payment_attempts by intent, in attempt_number order
  inbox,      \* payment_webhook_inbox.processing_state by intent and event
  ledger,     \* the intents credited by balance_ledger_entries, in order
  payer,      \* payment_methods.status of the stored method
  fence,      \* requireNoHandoffTx fails: an open handoff or cloud closure
  \* the providers and the buyer
  provider,   \* what the provider did with the intent's payment
  charged,    \* how many charge requests reached the provider
  link,       \* whether the buyer holds the hosted form or approval link
  \* the memory of each worker
  pc, batch, current, held, answer, answerRef, seenRef,
  \* the API handlers of a hosted intent
  api,        \* createHostedTopUp after its first transaction
  returning,  \* handlePayPalReturn
  faults

dbVars == <<state, reference, jobStatus, lessee, attempts, inbox, ledger,
            payer, fence>>
providerVars == <<provider, charged, link>>
workerVars == <<pc, batch, current, held, answer, answerRef, seenRef>>
apiVars == <<api, returning>>
vars == <<dbVars, providerVars, workerVars, apiVars, faults>>

Attempt == [operation : {"charge", "query"}, completed : BOOLEAN, digest : BOOLEAN]

TypeOK ==
  /\ state \in [Intents -> IntentState \cup {"absent"}]
  /\ reference \in [Intents -> BOOLEAN]
  /\ jobStatus \in [Jobs -> {"none", "pending", "leased", "completed"}]
  /\ lessee \in [Jobs -> Workers \cup {NoJob}]
  /\ attempts \in [Intents -> Seq(Attempt)]
  /\ inbox \in [Intents \X (1..MaxEvents) -> {"absent", "scheduled", "processed"}]
  /\ ledger \in Seq(Intents)
  /\ payer \in {"active", "revoked"}
  /\ fence \in {"down", "up"}
  /\ provider \in [Intents -> {"absent", "pending", "approved", "captured", "refused"}]
  /\ charged \in [Intents -> Nat]
  /\ link \in [Intents -> BOOLEAN]
  /\ pc \in [Workers -> {"idle", "ready", "complete", "recover", "digest", "call", "finalize"}]
  /\ batch \in [Workers -> SUBSET Jobs]
  /\ current \in [Workers -> Jobs \cup {NoJob}]
  /\ held \in [Workers -> Nat]
  /\ answer \in [Workers -> ProviderResultState]
  /\ answerRef \in [Workers -> BOOLEAN]
  /\ seenRef \in [Workers -> BOOLEAN]
  /\ api \in [Intents -> {"idle", "calling", "ordered", "invalid", "refused", "unknown", "done"}]
  /\ returning \in [Intents -> {"idle", "checked", "captured"}]
  /\ faults \in 0..MaxFaults

Init ==
  /\ state = [i \in Intents |-> "absent"]
  /\ reference = [i \in Intents |-> FALSE]
  /\ jobStatus = [j \in Jobs |-> "none"]
  /\ lessee = [j \in Jobs |-> NoJob]
  /\ attempts = [i \in Intents |-> <<>>]
  /\ inbox = [e \in Intents \X (1..MaxEvents) |-> "absent"]
  /\ ledger = <<>>
  /\ payer = "active"
  /\ fence = "down"
  /\ provider = [i \in Intents |-> "absent"]
  /\ charged = [i \in Intents |-> 0]
  /\ link = [i \in Intents |-> FALSE]
  /\ pc = [w \in Workers |-> "idle"]
  /\ batch = [w \in Workers |-> {}]
  /\ current = [w \in Workers |-> NoJob]
  /\ held = [w \in Workers |-> 0]
  /\ answer = [w \in Workers |-> "unknown"]
  /\ answerRef = [w \in Workers |-> FALSE]
  /\ seenRef = [w \in Workers |-> FALSE]
  /\ api = [i \in Intents |-> "idle"]
  /\ returning = [i \in Intents |-> "idle"]
  /\ faults = 0

-----------------------------------------------------------------------------
(* Pieces the transactions share *)

Operation(j) == IF j[2] = "charge" THEN "charge" ELSE "query"

OpenJob(j) == jobStatus[j] \in {"pending", "leased"}

\* INSERT INTO payment_reconciliation_jobs ... ON CONFLICT DO NOTHING, under the
\* partial unique index on the open rows of (intent_id, reason).
Enqueued(status, j) ==
  IF status[j] \in {"pending", "leased"} THEN status ELSE [status EXCEPT ![j] = "pending"]

HoldsLease(w, j) == jobStatus[j] = "leased" /\ lessee[j] = w

\* Mutant: a repeated success is credited again.
TransitionCreditingRepeats(i, to, ref) ==
  /\ CanTransitionIntent(state[i], to)
  /\ state' = [state EXCEPT ![i] = to]
  /\ reference' = [reference EXCEPT ![i] = @ \/ (ref /\ state[i] # to)]
  /\ ledger' = IF to = "succeeded" THEN Append(ledger, i) ELSE ledger

\* The intent and ledger half of transitionIntentTx; a repeated state is a
\* duplicate and writes nothing, not even the reference.
Transition(i, to, ref) ==
  /\ CanTransitionIntent(state[i], to)
  /\ state' = [state EXCEPT ![i] = to]
  /\ reference' = [reference EXCEPT ![i] = @ \/ (ref /\ state[i] # to)]
  /\ ledger' = IF to = "succeeded" /\ state[i] # to THEN Append(ledger, i) ELSE ledger

\* The number of the incomplete attempt that BeginProviderAttempt would recover.
IncompleteAttempts(i, op) ==
  {k \in 1..Len(attempts[i]) : attempts[i][k].operation = op /\ ~attempts[i][k].completed}

\* SetAttemptRequestDigest takes effect once, and only before completion.
DigestUnset(i, k) == ~attempts[i][k].completed /\ ~attempts[i][k].digest

Fault == faults < MaxFaults /\ faults' = faults + 1

-----------------------------------------------------------------------------
(* Creating intents and changing who may be charged *)

Room == Cardinality({i \in Intents : state[i] # "absent"}) < MaxIntents

\* CreateManualTopUp, or evaluateAutoTopUpTx inside a debit: an intent for a
\* stored method and the job that will charge it.
CreateChargeIntent(i) ==
  /\ Flavor[i] = "stored" /\ state[i] = "absent" /\ payer = "active" /\ fence = "down" /\ Room
  /\ state' = [state EXCEPT ![i] = "created"]
  /\ jobStatus' = [jobStatus EXCEPT ![<<i, "charge">>] = "pending"]
  /\ UNCHANGED <<reference, lessee, attempts, inbox, ledger, payer, fence,
                 providerVars, workerVars, apiVars, faults>>

\* CreateHostedTopUp: the intent is born "processing" with a reconciliation job
\* due five minutes later.  A NewebPay form reaches the buyer with the response;
\* for PayPal the handler still has to create the order.
CreateHostedTopUp(i) ==
  /\ Flavor[i] # "stored" /\ state[i] = "absent" /\ fence = "down" /\ Room
  /\ state' = [state EXCEPT ![i] = "processing"]
  /\ jobStatus' = [jobStatus EXCEPT ![<<i, "unknown">>] = "pending"]
  /\ link' = [link EXCEPT ![i] = (Flavor[i] = "form")]
  /\ api' = [api EXCEPT ![i] = IF Flavor[i] = "form" THEN "done" ELSE "calling"]
  /\ UNCHANGED <<reference, lessee, attempts, inbox, ledger, payer, fence, provider, charged,
                 workerVars, returning, faults>>

\* RevokePaymentMethod: open intents of the method are left as they are.
RevokePaymentMethod ==
  /\ payer = "active"
  /\ payer' = "revoked"
  /\ UNCHANGED <<state, reference, jobStatus, lessee, attempts, inbox, ledger, fence,
                 providerVars, workerVars, apiVars, faults>>

\* The fence goes up in front of new payments: PrepareOwnershipHandoff leaves an
\* active method alone, PrepareCloudClosure revokes it.
PrepareHandoffOrClosure ==
  /\ fence = "down"
  /\ fence' = "up"
  /\ payer' \in {payer, "revoked"}
  /\ UNCHANGED <<state, reference, jobStatus, lessee, attempts, inbox, ledger,
                 providerVars, workerVars, apiVars, faults>>

\* CompleteOwnershipHandoffAbort and CompleteCloudClosureCancellation take the
\* fence down and restore no method.
LiftFence ==
  /\ fence = "up"
  /\ fence' = "down"
  /\ UNCHANGED <<state, reference, jobStatus, lessee, attempts, inbox, ledger, payer,
                 providerVars, workerVars, apiVars, faults>>

Fence == PrepareHandoffOrClosure \/ LiftFence

-----------------------------------------------------------------------------
(* A payment worker: paymentservice.RunOnce and ProcessJob *)

\* ProcessJob is over; the worker goes on with the rest of its batch.  With an
\* empty rest this is also how RunOnce ends in an error: the process exits, its
\* supervisor restarts it, and the leases it held are left to expire.
Return(w, rest) ==
  /\ batch' = [batch EXCEPT ![w] = rest]
  /\ pc' = [pc EXCEPT ![w] = IF rest = {} THEN "idle" ELSE "ready"]
  /\ current' = [current EXCEPT ![w] = NoJob]
  /\ held' = [held EXCEPT ![w] = 0]
  /\ answer' = [answer EXCEPT ![w] = "unknown"]
  /\ answerRef' = [answerRef EXCEPT ![w] = FALSE]
  /\ seenRef' = [seenRef EXCEPT ![w] = FALSE]

Exit(w) == Return(w, {})

\* The job that CreateHostedTopUp schedules is due after five minutes, long after
\* the 15 s deadline of the request that is still talking to the provider.
Due(j) == j[2] = "unknown" => api[j[1]] \in {"idle", "done"}

\* Whether a live worker still counts on its lease of j.
Working(w, j) == j \in batch[w] \/ current[w] = j

\* ClaimPaymentJobs: due jobs, and leased ones whose lease is 30 s old.  The
\* lease of a worker that has let go of the job always gets there; that of a
\* worker still busy with it only when the worker is slow.
ClaimPaymentJobs(w) ==
  \E claimed \in SUBSET {j \in Jobs : OpenJob(j) /\ Due(j)} :
    LET overdue == {j \in claimed : \E v \in Workers : HoldsLease(v, j) /\ Working(v, j)}
    IN  /\ pc[w] = "idle" /\ claimed # {} /\ Cardinality(claimed) <= BatchSize
        /\ IF overdue = {} THEN UNCHANGED faults ELSE Fault
        /\ jobStatus' = [j \in Jobs |-> IF j \in claimed THEN "leased" ELSE jobStatus[j]]
        /\ lessee' = [j \in Jobs |-> IF j \in claimed THEN w ELSE lessee[j]]
        /\ batch' = [batch EXCEPT ![w] = claimed]
        /\ pc' = [pc EXCEPT ![w] = "ready"]
        /\ UNCHANGED <<state, reference, attempts, inbox, ledger, payer, fence, providerVars,
                       current, held, answer, answerRef, seenRef, apiVars>>

\* The worker takes job j and goes to p with the attempt it works on (0: none)
\* and, when it makes no provider call, the result it already knows.
Take(w, j, p, k, result) ==
  /\ pc' = [pc EXCEPT ![w] = p]
  /\ batch' = [batch EXCEPT ![w] = @ \ {j}]
  /\ current' = [current EXCEPT ![w] = j]
  /\ held' = [held EXCEPT ![w] = k]
  /\ answer' = [answer EXCEPT ![w] = result]
  /\ seenRef' = [seenRef EXCEPT ![w] = reference[j[1]]]
  /\ UNCHANGED answerRef

\* BeginProviderAttempt on a job whose lease was taken over, a charge during an
\* ownership handoff, or a charge whose method was revoked: the transaction rolls
\* back and the error ends the worker.
BeginFails(w, j) ==
  LET i == j[1]
      starts == ~IntentStateTerminal(state[i]) /\ IncompleteAttempts(i, Operation(j)) = {}
  IN  /\ pc[w] = "ready" /\ j \in batch[w]
      /\ \/ ~HoldsLease(w, j)
         \/ Operation(j) = "charge" /\ starts /\ fence = "up"
         \/ Operation(j) = "charge" /\ starts /\ payer = "revoked" /\ state[i] = "created"
      /\ Exit(w)
      /\ UNCHANGED <<dbVars, providerVars, apiVars, faults>>

\* The states in which a provider operation may start.
Startable(op) ==
  IF op = "charge" THEN {"created"}
  ELSE {"processing", "authorized", "requires_action", "unknown"}

\* ErrJobNotActionable: the worker is going to complete the job.
BeginNotActionable(w, j) ==
  LET i == j[1]
  IN  /\ pc[w] = "ready" /\ j \in batch[w] /\ HoldsLease(w, j)
      /\ \/ IntentStateTerminal(state[i])
         \/ /\ IncompleteAttempts(i, Operation(j)) = {}
            /\ Operation(j) = "charge" => fence = "down"
            /\ state[i] \notin Startable(Operation(j))
      /\ Take(w, j, "complete", 0, "unknown")
      /\ UNCHANGED <<dbVars, providerVars, apiVars, faults>>

\* An attempt somebody left incomplete is never repeated: its outcome is unknown.
\* The digest read here decides whether the worker will try to set one.  Nothing
\* tells an abandoned attempt from one another worker is busy with under another
\* job of the intent; such interference counts as a fault, to bound it.
BeginRecovers(w, j) ==
  LET i == j[1]
      incomplete == IncompleteAttempts(i, Operation(j))
  IN  /\ pc[w] = "ready" /\ j \in batch[w] /\ HoldsLease(w, j)
      /\ ~IntentStateTerminal(state[i])
      /\ \E k \in incomplete :
           /\ \A m \in incomplete : m <= k
           /\ IF \E v \in Workers : current[v] # NoJob /\ current[v][1] = i /\ held[v] = k
                THEN Fault ELSE UNCHANGED faults
           /\ Take(w, j, IF attempts[i][k].digest THEN "finalize" ELSE "recover", k, "unknown")
      /\ UNCHANGED <<dbVars, providerVars, apiVars>>

\* Mutant: an interrupted charge is simply sent again.
BeginStartsResending(w, j) ==
  LET i == j[1]
      op == Operation(j)
  IN  /\ pc[w] = "ready" /\ j \in batch[w] /\ HoldsLease(w, j)
      /\ state[i] \in Startable(op) \cup {"processing"}
      /\ op = "charge" => payer = "active" /\ fence = "down"
      /\ attempts' = [attempts EXCEPT ![i] =
            Append(@, [operation |-> op, completed |-> FALSE, digest |-> FALSE])]
      /\ state' = [state EXCEPT ![i] = IF op = "charge" THEN "processing" ELSE @]
      /\ Take(w, j, "digest", Len(attempts[i]) + 1, "unknown")
      /\ UNCHANGED <<reference, jobStatus, lessee, inbox, ledger, payer, fence,
                     providerVars, apiVars, faults>>

\* A new attempt; a charge also moves the intent to "processing".  A worker that
\* has no adapter for the provider goes straight to recording a failure.
BeginStarts(w, j) ==
  LET i == j[1]
      op == Operation(j)
  IN  /\ pc[w] = "ready" /\ j \in batch[w] /\ HoldsLease(w, j)
      /\ state[i] \in Startable(op) /\ IncompleteAttempts(i, op) = {}
      /\ op = "charge" => payer = "active" /\ fence = "down"
      /\ attempts' = [attempts EXCEPT ![i] =
            Append(@, [operation |-> op, completed |-> FALSE, digest |-> FALSE])]
      /\ state' = [state EXCEPT ![i] = IF op = "charge" THEN "processing" ELSE @]
      /\ IF w \in Registered THEN Take(w, j, "digest", Len(attempts[i]) + 1, "unknown")
                             ELSE Take(w, j, "finalize", Len(attempts[i]) + 1, "failed")
      /\ UNCHANGED <<reference, jobStatus, lessee, inbox, ledger, payer, fence,
                     providerVars, apiVars, faults>>

\* CompletePaymentJob, only while the lease is still this worker's.
CompletePaymentJob(w) ==
  LET j == current[w]
  IN  /\ pc[w] = "complete"
      /\ IF HoldsLease(w, j)
           THEN /\ jobStatus' = [jobStatus EXCEPT ![j] = "completed"]
                /\ lessee' = [lessee EXCEPT ![j] = NoJob]
                /\ Return(w, batch[w])
           ELSE Exit(w) /\ UNCHANGED <<jobStatus, lessee>>
      /\ UNCHANGED <<state, reference, attempts, inbox, ledger, payer, fence,
                     providerVars, apiVars, faults>>

\* The worker now knows the result it will record.
Conclude(w, result, ref) ==
  /\ pc' = [pc EXCEPT ![w] = "finalize"]
  /\ answer' = [answer EXCEPT ![w] = result]
  /\ answerRef' = [answerRef EXCEPT ![w] = ref]
  /\ UNCHANGED <<batch, current, held, seenRef>>

SetDigest(w) ==
  attempts' = [attempts EXCEPT ![current[w][1]][held[w]].digest = TRUE]

\* Recovery of an attempt that had no digest: somebody else setting one, or
\* completing the attempt, in between is an error that ends the worker.
RecoverAttempt(w) ==
  LET i == current[w][1]
  IN  /\ pc[w] = "recover"
      /\ IF DigestUnset(i, held[w])
           THEN SetDigest(w) /\ Conclude(w, "unknown", FALSE)
           ELSE Exit(w) /\ UNCHANGED attempts
      /\ UNCHANGED <<state, reference, jobStatus, lessee, inbox, ledger, payer, fence,
                     providerVars, apiVars, faults>>

\* setRequestDigest before the provider is called.  A digest conflict is not a
\* provider error, so it reads as "unknown"; a worker not enabled to charge
\* records a failure in place of the call.
PrepareRequest(w) ==
  LET i == current[w][1]
      disabled == Operation(current[w]) = "charge" /\ w \notin ChargeEnabled
  IN  /\ pc[w] = "digest"
      /\ IF DigestUnset(i, held[w])
           THEN /\ SetDigest(w)
                /\ IF disabled
                     THEN Conclude(w, "failed", FALSE)
                     ELSE /\ pc' = [pc EXCEPT ![w] = "call"]
                          /\ UNCHANGED <<batch, current, held, answer, answerRef, seenRef>>
           ELSE Conclude(w, "unknown", FALSE) /\ UNCHANGED attempts
      /\ UNCHANGED <<state, reference, jobStatus, lessee, inbox, ledger, payer, fence,
                     providerVars, apiVars, faults>>

\* ResolveMethodReference fails (key or ciphertext unavailable): nothing was sent.
ResolveFails(w) ==
  /\ pc[w] = "digest" /\ Operation(current[w]) = "charge" /\ w \in ChargeEnabled
  /\ Fault
  /\ Conclude(w, StateForProviderError("authentication", FALSE), FALSE)
  /\ UNCHANGED <<dbVars, providerVars, apiVars>>

PendingReport(i) ==
  CASE Flavor[i] = "stored" -> StoredPending
    [] Flavor[i] = "form"   -> {"unknown"}
    [] Flavor[i] = "order"  -> {"requires_action", "unknown"}

\* What the adapters report for a payment in provider state p.
Report(i, p) ==
  CASE p = "captured" -> {"succeeded"}
    [] p = "refused"  -> IF Flavor[i] = "order" THEN {"canceled"} ELSE {"failed", "canceled"}
    [] p = "approved" -> {"requires_action"}
    [] p = "pending"  -> PendingReport(i)
    [] p = "absent"   -> {"unknown"}

\* provider.Charge reaches the provider, which keeps the first outcome for its
\* idempotency key.  The answer comes back, or is lost with the request's fate.
CallCharge(w) ==
  LET i == current[w][1]
  IN  /\ pc[w] = "call" /\ Operation(current[w]) = "charge"
      /\ charged' = [charged EXCEPT ![i] = @ + 1]
      /\ \E p \in {"captured", "refused", "pending"} :
           /\ provider' = [provider EXCEPT ![i] = IF @ = "absent" THEN p ELSE @]
           /\ \/ /\ \E r \in Report(i, provider'[i]) : Conclude(w, r, TRUE)
                 /\ UNCHANGED faults
              \/ /\ Conclude(w, StateForProviderError("temporary", TRUE), FALSE)
                 /\ Fault
      /\ UNCHANGED <<dbVars, link, apiVars>>

\* The request never arrives, which the worker cannot tell, or the provider turns
\* it down unread (a 4xx status), which it can.
LoseCharge(w) ==
  /\ pc[w] = "call" /\ Operation(current[w]) = "charge"
  /\ Fault
  /\ \E kind \in {"temporary", "invalid_request"} :
       Conclude(w, StateForProviderError(kind, FALSE), FALSE)
  /\ UNCHANGED <<dbVars, providerVars, apiVars>>

\* Creating a PayPal order twice under one request id yields one order.
OrderExists(i) ==
  provider' = [provider EXCEPT ![i] = IF @ = "absent" THEN "pending" ELSE @]

\* A lookup that fails in any way proves nothing about the payment.  A PayPal
\* lookup without an order id may fail after it created the order.
QueryFails(w) ==
  LET i == current[w][1]
  IN  /\ pc[w] = "call" /\ Operation(current[w]) = "query"
      /\ Fault
      /\ \/ Conclude(w, "unknown", FALSE) /\ UNCHANGED provider
         \/ /\ Flavor[i] = "order" /\ ~seenRef[w]
            /\ OrderExists(i)
            /\ \E ref \in BOOLEAN : Conclude(w, "unknown", ref)
      /\ UNCHANGED <<dbVars, charged, link, apiVars>>

\* The bound MaxAttempts leaves the last inconclusive lookup unanswered.
CallQuery(w) ==
  LET i == current[w][1]
  IN  /\ pc[w] = "call" /\ Operation(current[w]) = "query"
      /\ Flavor[i] = "order" => seenRef[w]
      /\ \E r \in Report(i, provider[i]) :
           /\ IntentStateTerminal(r) \/ Len(attempts[i]) < MaxAttempts
           /\ Conclude(w, r, provider[i] # "absent")
      /\ UNCHANGED <<dbVars, providerVars, apiVars, faults>>

\* paypal.Query without an order id: the order is created again under the same
\* request id, and an order nobody could have approved counts as failed; after
\* three hours the provider is not even asked.
QueryUnreferencedOrder(w) ==
  LET i == current[w][1]
  IN  /\ pc[w] = "call" /\ Operation(current[w]) = "query"
      /\ Flavor[i] = "order" /\ ~seenRef[w]
      /\ \/ /\ OrderExists(i)
            /\ \E r \in Report(i, provider'[i]) :
                 /\ r # "unknown" \/ Len(attempts[i]) < MaxAttempts
                 /\ Conclude(w, IF r = "requires_action" THEN "failed" ELSE r, TRUE)
         \/ Conclude(w, "failed", FALSE) /\ UNCHANGED provider
      /\ UNCHANGED <<dbVars, charged, link, apiVars, faults>>

\* Mutant: an unknown outcome ends the job like any other.
RescheduledJobsForgetting(j, result) == [jobStatus EXCEPT ![j] = "completed"]

\* What FinalizeProviderAttempt does to the queue: an unknown outcome keeps or
\* creates the "unknown" job, anything else ends the job at hand.
RescheduledJobs(j, result) ==
  IF result # "unknown" THEN [jobStatus EXCEPT ![j] = "completed"]
  ELSE IF j[2] = "unknown" THEN [jobStatus EXCEPT ![j] = "pending"]
  ELSE Enqueued([jobStatus EXCEPT ![j] = "completed"], <<j[1], "unknown">>)

\* FinalizeProviderAttempt: attempt, intent, credit, job and receipts commit
\* together, provided that the lease is still held and the transition is legal.
FinalizeProviderAttempt(w) ==
  LET j == current[w]
      i == j[1]
  IN  /\ pc[w] = "finalize" /\ HoldsLease(w, j)
      /\ ~attempts[i][held[w]].completed
      /\ Transition(i, answer[w], answerRef[w])
      /\ attempts' = [attempts EXCEPT ![i][held[w]].completed = TRUE]
      /\ jobStatus' = RescheduledJobs(j, answer[w])
      /\ lessee' = [lessee EXCEPT ![j] = NoJob]
      /\ inbox' = [e \in DOMAIN inbox |->
            IF e[1] = i /\ inbox[e] = "scheduled" /\ answer[w] # "unknown"
              THEN "processed" ELSE inbox[e]]
      /\ Return(w, batch[w])
      /\ UNCHANGED <<payer, fence, providerVars, apiVars, faults>>

\* The attempt was already completed (a duplicate, no error and no change), or
\* the lease is gone or the transition illegal (the error ends the worker).
FinalizeWithoutEffect(w) ==
  LET j == current[w]
      i == j[1]
  IN  /\ pc[w] = "finalize"
      /\ IF HoldsLease(w, j) /\ attempts[i][held[w]].completed
           THEN Return(w, batch[w])
           ELSE /\ HoldsLease(w, j) => ~CanTransitionIntent(state[i], answer[w])
                /\ Exit(w)
      /\ UNCHANGED <<dbVars, providerVars, apiVars, faults>>

Crash(w) ==
  /\ pc[w] # "idle"
  /\ Fault
  /\ Exit(w)
  /\ UNCHANGED <<dbVars, providerVars, apiVars>>

-----------------------------------------------------------------------------
(* The hosted checkout handlers of the API *)

\* TransitionIntent as a handler calls it: an illegal transition changes nothing.
TransitionIntent(i, to, ref) ==
  IF CanTransitionIntent(state[i], to)
    THEN Transition(i, to, ref)
    ELSE UNCHANGED <<state, reference, ledger>>

\* createHostedTopUp calls paypal.CreateHostedCharge: the order id comes back, or
\* with a link that validHostedChargeAction rejects; or an error that may hide a
\* created order, or a rejection before it.
CreatePayPalOrder(i) ==
  /\ api[i] = "calling"
  /\ \/ /\ OrderExists(i)
        /\ api' = [api EXCEPT ![i] = "ordered"]
        /\ UNCHANGED faults
     \/ /\ OrderExists(i)
        /\ api' = [api EXCEPT ![i] = "invalid"]
        /\ Fault
     \/ /\ OrderExists(i) \/ UNCHANGED provider
        /\ api' = [api EXCEPT ![i] = "unknown"]
        /\ Fault
     \/ /\ api' = [api EXCEPT ![i] = "refused"]
        /\ UNCHANGED provider
        /\ Fault
  /\ UNCHANGED <<dbVars, charged, link, workerVars, returning>>

\* The outcome of that call is recorded; only a recorded order reaches the buyer.
RecordPayPalOrder(i) ==
  LET to == CASE api[i] = "ordered" -> "requires_action"
              [] api[i] = "invalid" -> "failed"
              [] api[i] = "refused" -> StateForProviderError("invalid_request", FALSE)
              [] OTHER              -> StateForProviderError("unknown", TRUE)
  IN  /\ api[i] \in {"ordered", "invalid", "refused", "unknown"}
      /\ TransitionIntent(i, to, api[i] \in {"ordered", "invalid"})
      /\ link' = [link EXCEPT ![i] = api[i] = "ordered" /\ CanTransitionIntent(state[i], to)]
      /\ api' = [api EXCEPT ![i] = "done"]
      /\ UNCHANGED <<jobStatus, lessee, attempts, inbox, payer, fence, provider, charged,
                     workerVars, returning, faults>>

ApiCrash(i) ==
  /\ api[i] \in {"calling", "ordered", "invalid", "refused", "unknown"}
  /\ Fault
  /\ api' = [api EXCEPT ![i] = "done"]
  /\ UNCHANGED <<dbVars, providerVars, workerVars, returning>>

\* handlePayPalReturn finds the intent of the order and sees it is not concluded.
PayPalReturn(i) ==
  /\ Flavor[i] = "order" /\ returning[i] = "idle" /\ provider[i] = "approved"
  /\ reference[i] /\ ~IntentStateTerminal(state[i])
  /\ returning' = [returning EXCEPT ![i] = "checked"]
  /\ UNCHANGED <<dbVars, providerVars, workerVars, api, faults>>

\* paypal.Capture: an order voided meanwhile is not captured.
CapturePayPalOrder(i) ==
  /\ returning[i] = "checked"
  /\ IF provider[i] = "approved"
       THEN /\ provider' = [provider EXCEPT ![i] = "captured"]
            /\ returning' = [returning EXCEPT ![i] = "captured"]
       ELSE /\ returning' = [returning EXCEPT ![i] = "idle"]
            /\ UNCHANGED provider
  /\ UNCHANGED <<dbVars, charged, link, workerVars, api, faults>>

\* The handler records the success and ignores an error.
RecordPayPalCapture(i) ==
  /\ returning[i] = "captured"
  /\ TransitionIntent(i, "succeeded", TRUE)
  /\ returning' = [returning EXCEPT ![i] = "idle"]
  /\ UNCHANGED <<jobStatus, lessee, attempts, inbox, payer, fence, providerVars,
                 workerVars, api, faults>>

ReturnCrash(i) ==
  /\ returning[i] # "idle"
  /\ Fault
  /\ returning' = [returning EXCEPT ![i] = "idle"]
  /\ UNCHANGED <<dbVars, providerVars, workerVars, api>>

-----------------------------------------------------------------------------
(* The buyer, the provider and its webhooks *)

\* The buyer posts the form they were given, or the buyer or the card issuer
\* settles a pending payment, in their own time.
ProviderSettles(i) ==
  /\ \/ provider[i] = "absent" /\ Flavor[i] = "form" /\ link[i]
     \/ provider[i] = "pending" /\ (Flavor[i] = "stored" \/ link[i])
  /\ \E p \in {"refused", IF Flavor[i] = "order" THEN "approved" ELSE "captured"}
             \cup {q \in {"pending"} : Flavor[i] = "form"} :
       provider' = [provider EXCEPT ![i] = p]
  /\ UNCHANGED <<dbVars, charged, link, workerVars, apiVars, faults>>

\* An approved order nobody captured expires at the provider.
OrderVoided(i) ==
  /\ provider[i] = "approved"
  /\ provider' = [provider EXCEPT ![i] = "refused"]
  /\ UNCHANGED <<dbVars, charged, link, workerVars, apiVars, faults>>

\* What a provider notifies: any conclusion, for PayPal only a capture.
Notifiable(i) ==
  provider[i] = "captured" \/ (provider[i] = "refused" /\ Flavor[i] # "order")

\* RecordWebhook of a verified event: a new one is stored and schedules a query
\* unless one is open; a repeated one (same reference or digest) changes nothing.
RecordWebhook(i, n) ==
  /\ Notifiable(i) /\ state[i] # "absent"
  /\ inbox[<<i, n>>] = "absent"
  /\ inbox' = [inbox EXCEPT ![<<i, n>>] = "scheduled"]
  /\ jobStatus' = Enqueued(jobStatus, <<i, "webhook">>)
  /\ UNCHANGED <<state, reference, lessee, attempts, ledger, payer, fence,
                 providerVars, workerVars, apiVars, faults>>

-----------------------------------------------------------------------------
Step(w) ==
  \/ \E j \in Jobs : \/ BeginFails(w, j) \/ BeginNotActionable(w, j)
                     \/ BeginRecovers(w, j) \/ BeginStarts(w, j)
  \/ CompletePaymentJob(w) \/ RecoverAttempt(w) \/ PrepareRequest(w)
  \/ CallCharge(w) \/ CallQuery(w) \/ QueryUnreferencedOrder(w)
  \/ FinalizeProviderAttempt(w) \/ FinalizeWithoutEffect(w)

Handle(i) ==
  \/ CreatePayPalOrder(i) \/ RecordPayPalOrder(i)
  \/ CapturePayPalOrder(i) \/ RecordPayPalCapture(i)

Next ==
  \/ \E i \in Intents :
       \/ CreateChargeIntent(i) \/ CreateHostedTopUp(i) \/ Handle(i)
       \/ PayPalReturn(i) \/ ApiCrash(i) \/ ReturnCrash(i)
       \/ ProviderSettles(i) \/ OrderVoided(i)
       \/ \E n \in 1..MaxEvents : RecordWebhook(i, n)
  \/ \E w \in Workers :
       \/ ClaimPaymentJobs(w) \/ Step(w) \/ Crash(w)
       \/ ResolveFails(w) \/ LoseCharge(w) \/ QueryFails(w)
  \/ RevokePaymentMethod \/ Fence

Spec == Init /\ [][Next]_vars

\* Workers and handlers go on, their supervisor restarts them, no due job is
\* skipped for ever (claims are in due_at order), and a provider repeats an
\* event until it is acknowledged.  The buyer owes nobody a step.
Fairness ==
  /\ \A w \in Workers : WF_vars(Step(w))
  /\ \A j \in Jobs : WF_vars(\E w \in Workers : ClaimPaymentJobs(w) /\ j \in batch'[w])
  /\ \A i \in Intents : WF_vars(Handle(i))
  /\ \A i \in Intents, n \in 1..MaxEvents : WF_vars(RecordWebhook(i, n))

FairSpec == Spec /\ Fairness

-----------------------------------------------------------------------------
(* Safety *)

Credited == {ledger[k] : k \in 1..Len(ledger)}

\* transitionIntentTx appends the credit in the transaction that moves the intent
\* to "succeeded", so across takeovers, duplicate results, webhooks and PayPal
\* returns an intent is credited exactly once if it succeeded and never otherwise.
CreditedExactlyOnce ==
  /\ Credited = {i \in Intents : state[i] = "succeeded"}
  /\ \A k, l \in 1..Len(ledger) : ledger[k] = ledger[l] => k = l

\* No credit without money: every credited intent was captured by its provider.
CreditIsBacked == \A i \in Credited : provider[i] = "captured"

\* BeginProviderAttempt never repeats a charge: an incomplete attempt found by
\* another worker, or by the same one after a restart, is turned into a query, so
\* at most one charge request is ever sent for an intent.
ChargedAtMostOnce == \A i \in Intents : charged[i] <= 1

\* Money taken is never written off: while every worker has the adapter, no
\* captured payment belongs to an intent recorded as failed or canceled.
CaptureNeverWrittenOff ==
  \A i \in Intents : provider[i] = "captured" => state[i] \notin {"failed", "canceled"}

\* An intent whose outcome is still owed to the customer has an open job, so a
\* crash anywhere leaves something in the queue that will look at it again.
UnsettledIsScheduled ==
  \A i \in Intents : state[i] \in {"created", "processing", "unknown"} =>
    \E r \in Reasons : OpenJob(<<i, r>>)

\* Mutant: only the queue is looked at.
NoOpenPaymentWorkInQueue ==
  \A i \in Intents : \A r \in Reasons : ~OpenJob(<<i, r>>)

\* captureSettlementStateTx: the account has no unresolved provider work.
NoOpenPaymentWork ==
  \A i \in Intents :
    /\ state[i] = "absent" \/ IntentStateTerminal(state[i])
    /\ \A r \in Reasons : ~OpenJob(<<i, r>>)
    /\ \A k \in 1..Len(attempts[i]) : attempts[i][k].completed
    /\ \A n \in 1..MaxEvents : inbox[<<i, n>>] # "scheduled"

\* The count an ownership handoff or a closure relies on is trustworthy: when it
\* is zero, no worker is about to send a charge, no handler is about to capture,
\* and everything captured is already in the ledger.
QuietMeansSettled ==
  NoOpenPaymentWork =>
    /\ \A w \in Workers : ~(pc[w] \in {"digest", "call"} /\ Operation(current[w]) = "charge")
    /\ \A i \in Intents : returning[i] = "checked" => provider[i] # "approved"
    /\ \A i \in Intents : provider[i] = "captured" => i \in Credited

\* A captured payment is eventually credited, whatever crashed on the way.
CaptureEventuallyCredited ==
  \A i \in Intents : provider[i] = "captured" ~> i \in Credited

\* The detailed system implements the promise of module ExactlyOnceSettlement: what
\* the providers hold is what is captured, and the ledger is the credits.
Settlement == INSTANCE ExactlyOnceSettlement
                WITH captured <- {i \in Intents : provider[i] = "captured"}, credits <- ledger

\* Every step of workers, handlers, providers and faults is a capture, a credit, or
\* no step at all of the abstract settlement.
ImplementsSettlement == Settlement!Spec
=============================================================================
