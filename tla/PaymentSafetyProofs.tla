------------------------ MODULE PaymentSafetyProofs -------------------------
(***************************************************************************)
(* An intent is credited exactly once if it succeeded and never otherwise, *)
(* no credit is without captured money, the orchestration implements the   *)
(* abstract exactly-once settlement, and at most one charge request is     *)
(* ever sent, for any intents, workers and bounds.                         *)
(***************************************************************************)
EXTENDS PaymentTypeProofs

\* Where a success on its way to the ledger comes from: a worker's answer, a PayPal
\* return and an existing credit are each backed by a capture.
Backing ==
  /\ \A w \in Workers :
       pc[w] = "finalize" /\ answer[w] = "succeeded" => provider[current[w][1]] = "captured"
  /\ \A i \in Intents : returning[i] = "captured" => provider[i] = "captured"
  /\ CreditIsBacked

CreditInv == TypeInv /\ CreditedExactlyOnce /\ Backing

\* The first states of an intent, before any provider result is applied.
Entering(i) ==
  /\ state[i] \in {"absent", "created"}
  /\ \E s \in {"created", "processing"} : state' = [state EXCEPT ![i] = s]
  /\ UNCHANGED ledger

\* A provider result is applied, and credited if it is a success.
Applying(i, to) ==
  /\ to \in Successor(state[i]) /\ to # state[i]
  /\ state' = [state EXCEPT ![i] = to]
  /\ ledger' = IF to = "succeeded" THEN Append(ledger, i) ELSE ledger

\* Outside the three operations that call transitionIntentTx, an intent only
\* moves through its first states and nothing is credited.
LEMMA IntentSteps ==
  ASSUME TypeInv, [Next]_vars
  PROVE  \/ UNCHANGED <<state, ledger>>
         \/ \E i \in Intents : Entering(i)
         \/ \E w \in Workers : FinalizeProviderAttempt(w)
         \/ \E i \in Intents : RecordPayPalOrder(i) \/ RecordPayPalCapture(i)
<1>1. ASSUME NEW i \in Intents, CreateChargeIntent(i) \/ CreateHostedTopUp(i) PROVE Entering(i)
  BY <1>1 DEF CreateChargeIntent, CreateHostedTopUp, Entering
<1>2. ASSUME NEW w \in Workers, NEW j \in Jobs, BeginStarts(w, j)
      PROVE  UNCHANGED <<state, ledger>> \/ \E i \in Intents : Entering(i)
  <2>1. CASE Operation(j) = "charge"
    BY <1>2, <2>1, JobIntent, Zenon DEF BeginStarts, Startable, Entering
  <2>2. CASE Operation(j) # "charge"
    BY <1>2, <2>2, JobIntent DEF BeginStarts, TypeInv, TypeOK
  <2> QED
    BY <2>1, <2>2
<1>3. ASSUME NEW w \in Workers, NEW j \in Jobs,
             BeginFails(w, j) \/ BeginNotActionable(w, j) \/ BeginRecovers(w, j)
      PROVE  UNCHANGED <<state, ledger>>
  BY <1>3 DEF BeginFails, BeginNotActionable, BeginRecovers, dbVars
<1>4. ASSUME NEW w \in Workers,
             \/ ClaimPaymentJobs(w) \/ CompletePaymentJob(w) \/ RecoverAttempt(w)
             \/ PrepareRequest(w)
      PROVE  UNCHANGED <<state, ledger>>
  BY Zenon, <1>4 DEF ClaimPaymentJobs, CompletePaymentJob, RecoverAttempt, PrepareRequest
<1>5. ASSUME NEW w \in Workers,
             \/ CallCharge(w) \/ CallQuery(w) \/ QueryUnreferencedOrder(w)
             \/ FinalizeWithoutEffect(w) \/ Crash(w) \/ ResolveFails(w) \/ LoseCharge(w)
             \/ QueryFails(w)
      PROVE  UNCHANGED <<state, ledger>>
  BY Zenon, <1>5 DEF CallCharge, CallQuery, QueryUnreferencedOrder, FinalizeWithoutEffect, Crash,
     ResolveFails, LoseCharge, QueryFails, dbVars
<1>6. ASSUME NEW i \in Intents,
             \/ CreatePayPalOrder(i) \/ CapturePayPalOrder(i) \/ PayPalReturn(i) \/ ApiCrash(i)
             \/ ReturnCrash(i) \/ ProviderSettles(i) \/ OrderVoided(i)
             \/ \E n \in 1..MaxEvents : RecordWebhook(i, n)
      PROVE  UNCHANGED <<state, ledger>>
  BY Zenon, <1>6 DEF CreatePayPalOrder, CapturePayPalOrder, PayPalReturn, ApiCrash, ReturnCrash,
     ProviderSettles, OrderVoided, RecordWebhook, dbVars
<1>7. ASSUME RevokePaymentMethod \/ Fence PROVE UNCHANGED <<state, ledger>>
  BY <1>7 DEF RevokePaymentMethod, Fence, PrepareHandoffOrClosure, LiftFence
<1>8. CASE UNCHANGED vars
  BY <1>8 DEF vars, dbVars
<1> QED
  BY <1>1, <1>2, <1>3, <1>4, <1>5, <1>6, <1>7, <1>8 DEF Next, Step, Handle

\* Every step leaves intents and ledger alone, enters a first state, or applies a
\* result; and a success is applied only to a captured payment.
LEMMA AppliedSteps ==
  ASSUME TypeInv, Backing, [Next]_vars
  PROVE  \/ UNCHANGED <<state, ledger>>
         \/ \E i \in Intents : Entering(i)
         \/ /\ UNCHANGED provider
            /\ \E i \in Intents, to \in ProviderResultState :
                 Applying(i, to) /\ (to = "succeeded" => provider[i] = "captured")
<1>1. ASSUME NEW i \in Intents, NEW to \in ProviderResultState, NEW ref,
             Transition(i, to, ref) \/ TransitionIntent(i, to, ref)
      PROVE  UNCHANGED <<state, ledger>> \/ Applying(i, to)
  <2>1. CASE UNCHANGED <<state, ledger>>
    BY <2>1
  <2>2. CASE Transition(i, to, ref)
    <3>1. CASE state[i] = to
      BY <2>2, <3>1 DEF Transition, TypeInv, TypeOK
    <3>2. CASE state[i] # to
      BY <2>2, <3>2 DEF Transition, CanTransitionIntent, Applying
    <3> QED
      BY <3>1, <3>2
  <2> QED
    BY <1>1, <2>1, <2>2 DEF TransitionIntent
<1>2. ASSUME NEW w \in Workers, FinalizeProviderAttempt(w)
      PROVE  \/ UNCHANGED <<state, ledger>>
             \/ /\ UNCHANGED provider
                /\ \E i \in Intents, to \in ProviderResultState :
                     Applying(i, to) /\ (to = "succeeded" => provider[i] = "captured")
  <2> DEFINE i == current[w][1]
  <2>1. i \in Intents /\ answer[w] \in ProviderResultState
    BY <1>2, JobIntent DEF FinalizeProviderAttempt, TypeInv, TypeOK, WorkerMemory
  <2>2. Transition(i, answer[w], answerRef[w]) /\ UNCHANGED provider /\ pc[w] = "finalize"
    BY <1>2 DEF FinalizeProviderAttempt, providerVars
  <2>3. answer[w] = "succeeded" => provider[i] = "captured"
    BY <2>2 DEF Backing
  <2> QED
    BY <1>1, <2>1, <2>2, <2>3
<1>3. ASSUME NEW i \in Intents, RecordPayPalCapture(i)
      PROVE  \/ UNCHANGED <<state, ledger>>
             \/ /\ UNCHANGED provider
                /\ \E to \in ProviderResultState :
                     Applying(i, to) /\ (to = "succeeded" => provider[i] = "captured")
  <2>1. TransitionIntent(i, "succeeded", TRUE) /\ UNCHANGED provider /\ provider[i] = "captured"
    BY <1>3, Zenon DEF RecordPayPalCapture, Backing, providerVars
  <2>2. "succeeded" \in ProviderResultState
    BY DEF ProviderResultState, IntentState
  <2> QED
    BY <1>1, <2>1, <2>2, Zenon
<1>4. ASSUME NEW i \in Intents, RecordPayPalOrder(i)
      PROVE  \/ UNCHANGED <<state, ledger>>
             \/ /\ UNCHANGED provider
                /\ \E to \in ProviderResultState :
                     Applying(i, to) /\ (to = "succeeded" => provider[i] = "captured")
  <2>1. PICK to, ref : /\ to \in {"requires_action", "failed", "unknown"}
                       /\ TransitionIntent(i, to, ref)
    BY <1>4 DEF RecordPayPalOrder, StateForProviderError
  <2>2. UNCHANGED provider
    BY <1>4 DEF RecordPayPalOrder
  <2>3. to \in ProviderResultState /\ to # "succeeded"
    BY <2>1 DEF ProviderResultState, IntentState
  <2> QED
    BY <1>1, <2>1, <2>2, <2>3
<1> QED
  BY <1>2, <1>3, <1>4, IntentSteps

\* Appending to the ledger adds one credited intent.
LEMMA CreditAppended ==
  ASSUME ledger \in Seq(Intents), NEW i \in Intents, ledger' = Append(ledger, i)
  PROVE  /\ Credited' = Credited \cup {i}
         /\ i \notin Credited /\ (\A k, l \in 1..Len(ledger) : ledger[k] = ledger[l] => k = l) =>
              \A k, l \in 1..Len(ledger') : ledger'[k] = ledger'[l] => k = l
<1>1. /\ Len(ledger') = Len(ledger) + 1 /\ Len(ledger) \in Nat
      /\ \A k \in 1..Len(ledger) : ledger'[k] = ledger[k]
      /\ ledger'[Len(ledger) + 1] = i
  BY AddedRow
<1>2. Credited' = Credited \cup {i}
  <2>1. Credited' \subseteq Credited \cup {i}
    BY <1>1 DEF Credited
  <2>2. Credited \cup {i} \subseteq Credited'
    BY <1>1 DEF Credited
  <2> QED
    BY <2>1, <2>2
<1>3. ASSUME i \notin Credited, \A k, l \in 1..Len(ledger) : ledger[k] = ledger[l] => k = l
      PROVE  \A k, l \in 1..Len(ledger') : ledger'[k] = ledger'[l] => k = l
  BY <1>1, <1>3 DEF Credited
<1> QED
  BY <1>2, <1>3

\* Nothing appended and nothing succeeding keeps the ledger and the successes together.
LEMMA CreditKept ==
  ASSUME CreditedExactlyOnce, UNCHANGED ledger,
         {n \in Intents : state'[n] = "succeeded"} = {n \in Intents : state[n] = "succeeded"}
  PROVE  CreditedExactlyOnce'
<1>1. Credited' = Credited
  BY DEF Credited
<1>2. \A k, l \in 1..Len(ledger') : ledger'[k] = ledger'[l] => k = l
  BY DEF CreditedExactlyOnce
<1> QED
  BY <1>1, <1>2 DEF CreditedExactlyOnce

\* A step that only enters or applies keeps the ledger and the successes together.
LEMMA NextCreditedOnce ==
  ASSUME CreditInv, [Next]_vars
  PROVE  CreditedExactlyOnce'
<1>0. TypeInv /\ Backing /\ CreditedExactlyOnce /\ state \in [Intents -> IntentState \cup {"absent"}]
        /\ ledger \in Seq(Intents)
  BY DEF CreditInv, TypeInv, TypeOK
<1>1. CASE UNCHANGED <<state, ledger>>
  BY <1>0, <1>1 DEF CreditedExactlyOnce, Credited
<1>2. ASSUME NEW i \in Intents, Entering(i) PROVE CreditedExactlyOnce'
  <2>1. UNCHANGED ledger
    BY <1>2 DEF Entering
  <2>2. PICK s \in {"created", "processing"} : state' = [state EXCEPT ![i] = s]
    BY <1>2, Zenon DEF Entering
  <2>3. state[i] # "succeeded" /\ state'[i] # "succeeded"
    BY <1>0, <1>2, <2>2 DEF Entering
  <2>4. \A n \in Intents : n # i => state'[n] = state[n]
    BY <1>0, <2>2
  <2>5. {n \in Intents : state'[n] = "succeeded"} = {n \in Intents : state[n] = "succeeded"}
    BY <2>3, <2>4
  <2> QED
    BY <1>0, <2>1, <2>5, CreditKept
<1>3. ASSUME NEW i \in Intents, NEW to \in ProviderResultState, Applying(i, to)
      PROVE  CreditedExactlyOnce'
  <2>1. state[i] # "succeeded"
    BY <1>3 DEF Applying, Successor
  <2>2. CASE to # "succeeded"
    <3>1. state' = [state EXCEPT ![i] = to] /\ UNCHANGED ledger
      BY <1>3, <2>2 DEF Applying
    <3>2. {n \in Intents : state'[n] = "succeeded"} = {n \in Intents : state[n] = "succeeded"}
      BY <1>0, <2>1, <2>2, <3>1
    <3> QED
      BY <1>0, <3>1, <3>2, CreditKept
  <2>3. CASE to = "succeeded"
    <3>1. state' = [state EXCEPT ![i] = "succeeded"] /\ ledger' = Append(ledger, i)
      BY <1>3, <2>3 DEF Applying
    <3>2. i \notin Credited
      BY <1>0, <2>1 DEF CreditedExactlyOnce
    <3>3. {n \in Intents : state'[n] = "succeeded"} = {n \in Intents : state[n] = "succeeded"} \cup {i}
      BY <1>0, <3>1
    <3> QED
      BY <1>0, <3>1, <3>2, <3>3, CreditAppended DEF CreditedExactlyOnce
  <2> QED
    BY <2>2, <2>3
<1> QED
  BY <1>0, <1>1, <1>2, <1>3, AppliedSteps

\* An adapter reports success for a captured payment only.
LEMMA SuccessMeansCaptured ==
  ASSUME NEW i \in Intents,
         NEW p \in {"absent", "pending", "approved", "captured", "refused"},
         "succeeded" \in Report(i, p)
  PROVE  p = "captured"
  <1>1. "succeeded" \notin PendingReport(i)
    BY ConstantsAssumption DEF PendingReport, Flavors
  <1> QED
    BY <1>1 DEF Report

\* What a provider has captured it keeps, and a step captures at most one payment
\* and then touches nothing else of the settlement.
LEMMA CaptureSteps ==
  ASSUME TypeInv, [Next]_vars
  PROVE  \/ UNCHANGED provider
         \/ /\ UNCHANGED <<state, ledger>>
            /\ \E i \in Intents :
                 /\ provider[i] # "captured"
                 /\ \E p \in {"pending", "approved", "captured", "refused"} :
                      provider' = [provider EXCEPT ![i] = p]
<1> DEFINE Moves == \E i \in Intents :
                      /\ provider[i] # "captured"
                      /\ \E p \in {"pending", "approved", "captured", "refused"} :
                           provider' = [provider EXCEPT ![i] = p]
<1>0. provider \in [Intents -> {"absent", "pending", "approved", "captured", "refused"}]
  BY DEF TypeInv, TypeOK
<1>c. ASSUME NEW w \in Workers, pc[w] = "call" PROVE current[w][1] \in Intents
  BY <1>c, JobIntent DEF TypeInv, WorkerMemory
<1>1. ASSUME NEW w \in Workers, CallCharge(w)
      PROVE  UNCHANGED <<state, ledger>> /\ (UNCHANGED provider \/ Moves)
  <2>1. current[w][1] \in Intents
    BY <1>1, <1>c DEF CallCharge
  <2>2. UNCHANGED <<state, ledger>>
    BY <1>1 DEF CallCharge, dbVars
  <2>3. PICK p \in {"captured", "refused", "pending"} :
          provider' = [provider EXCEPT ![current[w][1]] =
                         IF provider[current[w][1]] = "absent" THEN p ELSE provider[current[w][1]]]
    BY Zenon, <1>1 DEF CallCharge
  <2> QED
    BY <1>0, <2>1, <2>2, <2>3, Zenon
<1>2. ASSUME NEW i \in Intents, OrderExists(i)
      PROVE  UNCHANGED provider \/ Moves
  BY <1>0, <1>2, Zenon DEF OrderExists
<1>3. ASSUME NEW w \in Workers, QueryFails(w) \/ QueryUnreferencedOrder(w)
      PROVE  UNCHANGED <<state, ledger>> /\ (UNCHANGED provider \/ Moves)
  BY Zenon, <1>2, <1>3, <1>c DEF QueryFails, QueryUnreferencedOrder, dbVars
<1>4. ASSUME NEW i \in Intents, CreatePayPalOrder(i)
      PROVE  UNCHANGED <<state, ledger>> /\ (UNCHANGED provider \/ Moves)
  BY <1>2, <1>4 DEF CreatePayPalOrder, dbVars
<1>5. ASSUME NEW i \in Intents, CapturePayPalOrder(i) \/ ProviderSettles(i) \/ OrderVoided(i)
      PROVE  UNCHANGED <<state, ledger>> /\ (UNCHANGED provider \/ Moves)
  BY <1>5 DEF CapturePayPalOrder, ProviderSettles, OrderVoided, dbVars
<1>6. ASSUME NEW w \in Workers, NEW j \in Jobs,
             \/ BeginFails(w, j) \/ BeginNotActionable(w, j) \/ BeginRecovers(w, j)
             \/ BeginStarts(w, j)
      PROVE  UNCHANGED provider
  BY <1>6 DEF BeginFails, BeginNotActionable, BeginRecovers, BeginStarts, providerVars
<1>7. ASSUME NEW w \in Workers,
             \/ ClaimPaymentJobs(w) \/ CompletePaymentJob(w) \/ RecoverAttempt(w)
             \/ PrepareRequest(w) \/ CallQuery(w) \/ FinalizeProviderAttempt(w)
             \/ FinalizeWithoutEffect(w) \/ Crash(w) \/ ResolveFails(w) \/ LoseCharge(w)
      PROVE  UNCHANGED provider
  BY Zenon, <1>7 DEF ClaimPaymentJobs, CompletePaymentJob, RecoverAttempt, PrepareRequest, CallQuery,
     FinalizeProviderAttempt, FinalizeWithoutEffect, Crash, ResolveFails, LoseCharge, providerVars
<1>8. ASSUME NEW i \in Intents,
             \/ CreateChargeIntent(i) \/ CreateHostedTopUp(i) \/ RecordPayPalOrder(i)
             \/ RecordPayPalCapture(i) \/ PayPalReturn(i) \/ ApiCrash(i) \/ ReturnCrash(i)
             \/ \E n \in 1..MaxEvents : RecordWebhook(i, n)
      PROVE  UNCHANGED provider
  BY <1>8, Zenon DEF CreateChargeIntent, CreateHostedTopUp, RecordPayPalOrder, RecordPayPalCapture,
     PayPalReturn, ApiCrash, ReturnCrash, RecordWebhook, providerVars
<1>9. ASSUME RevokePaymentMethod \/ Fence PROVE UNCHANGED provider
  BY <1>9 DEF RevokePaymentMethod, Fence, PrepareHandoffOrClosure, LiftFence, providerVars
<1>10. CASE UNCHANGED vars
  BY <1>10 DEF vars, providerVars
<1> QED
  BY <1>1, <1>3, <1>4, <1>5, <1>6, <1>7, <1>8, <1>9, <1>10 DEF Next, Step, Handle

\* The success a worker is about to record was there before the step, or the
\* provider has captured the payment by the end of it.
NewSuccessBacked ==
  \A v \in Workers : pc'[v] = "finalize" /\ answer'[v] = "succeeded" =>
    \/ pc[v] = pc'[v] /\ answer[v] = answer'[v] /\ current[v] = current'[v]
    \/ provider'[current'[v][1]] = "captured"

\* A worker learns of a success only from an adapter's report.
LEMMA AnswerSteps ==
  ASSUME TypeInv, [Next]_vars
  PROVE  NewSuccessBacked
<1>t. /\ pc \in [Workers -> {"idle", "ready", "complete", "recover", "digest", "call", "finalize"}]
      /\ answer \in [Workers -> ProviderResultState]
      /\ current \in [Workers -> Jobs \cup {NoJob}]
  BY DEF TypeInv, TypeOK
<1>p. provider \in [Intents -> {"absent", "pending", "approved", "captured", "refused"}]
  BY DEF TypeInv, TypeOK
<1>c. ASSUME NEW w \in Workers, pc[w] = "call" PROVE current[w][1] \in Intents
  BY <1>c, JobIntent DEF TypeInv, WorkerMemory
<1>1. ASSUME NEW w \in Workers, NEW rest, Return(w, rest) PROVE NewSuccessBacked
  BY <1>t, <1>1 DEF Return, NewSuccessBacked
<1>2. ASSUME NEW w \in Workers, NEW j, NEW p, NEW k, NEW result \in {"unknown", "failed"},
             Take(w, j, p, k, result)
      PROVE  NewSuccessBacked
  BY <1>t, <1>2 DEF Take, NewSuccessBacked
<1>3. ASSUME NEW w \in Workers, NEW result, NEW ref, Conclude(w, result, ref),
             result = "succeeded" => provider'[current[w][1]] = "captured"
      PROVE  NewSuccessBacked
  BY <1>t, <1>3 DEF Conclude, NewSuccessBacked
<1>4. ASSUME UNCHANGED <<pc, answer, current>> PROVE NewSuccessBacked
  BY <1>4 DEF NewSuccessBacked
<1>5. ASSUME NEW w \in Workers, NEW j \in Jobs, BeginFails(w, j) \/ BeginNotActionable(w, j)
      PROVE  NewSuccessBacked
  BY <1>1, <1>2, <1>5 DEF BeginFails, BeginNotActionable, Exit
<1>6. ASSUME NEW w \in Workers, NEW j \in Jobs, BeginRecovers(w, j) \/ BeginStarts(w, j)
      PROVE  NewSuccessBacked
  BY <1>2, <1>6 DEF BeginRecovers, BeginStarts
<1>7. ASSUME NEW w \in Workers,
             \/ CompletePaymentJob(w) \/ FinalizeProviderAttempt(w)
             \/ FinalizeWithoutEffect(w) \/ Crash(w)
      PROVE  NewSuccessBacked
  BY <1>1, <1>7 DEF CompletePaymentJob, FinalizeProviderAttempt, FinalizeWithoutEffect, Crash, Exit
<1>8. ASSUME NEW w \in Workers, ClaimPaymentJobs(w) PROVE NewSuccessBacked
  BY <1>t, <1>8 DEF ClaimPaymentJobs, NewSuccessBacked
<1>9. ASSUME NEW w \in Workers, RecoverAttempt(w) PROVE NewSuccessBacked
  BY Zenon, <1>1, <1>3, <1>9 DEF RecoverAttempt, Exit
<1>10. ASSUME NEW w \in Workers, PrepareRequest(w) PROVE NewSuccessBacked
  <2>1. CASE \E result \in {"unknown", "failed"} : Conclude(w, result, FALSE)
    BY <1>3, <2>1, Zenon
  <2>2. CASE pc' = [pc EXCEPT ![w] = "call"] /\ UNCHANGED <<current, answer>>
    BY <1>t, <2>2 DEF NewSuccessBacked
  <2> QED
    BY <1>10, <2>1, <2>2, Zenon DEF PrepareRequest
<1>11. ASSUME NEW w \in Workers, ResolveFails(w) \/ LoseCharge(w) \/ QueryFails(w)
       PROVE  NewSuccessBacked
  <2>1. PICK result \in {"unknown", "failed"}, ref \in BOOLEAN : Conclude(w, result, ref)
    <3>1. CASE ResolveFails(w) \/ LoseCharge(w)
      BY <3>1, Zenon DEF ResolveFails, LoseCharge, StateForProviderError
    <3>2. CASE QueryFails(w)
      BY <3>2, Zenon DEF QueryFails
    <3> QED
      BY <1>11, <3>1, <3>2
  <2> QED
    BY <1>3, <2>1
<1>12. ASSUME NEW w \in Workers, CallCharge(w) PROVE NewSuccessBacked
  <2> DEFINE i == current[w][1]
  <2>1. i \in Intents
    BY <1>12, <1>c DEF CallCharge
  <2>2. provider'[i] \in {"absent", "pending", "approved", "captured", "refused"}
    BY <1>p, <1>12, <2>1 DEF CallCharge
  <2>3. CASE \E r \in Report(i, provider'[i]) : Conclude(w, r, TRUE)
    BY <1>3, <2>1, <2>2, <2>3, SuccessMeansCaptured, Zenon
  <2>4. CASE Conclude(w, StateForProviderError("temporary", TRUE), FALSE)
    BY <1>3, <2>4, Zenon DEF StateForProviderError
  <2> QED
    BY <1>12, <2>3, <2>4, Zenon DEF CallCharge
<1>13. ASSUME NEW w \in Workers, CallQuery(w) PROVE NewSuccessBacked
  <2> DEFINE i == current[w][1]
  <2>1. i \in Intents /\ UNCHANGED provider
    BY <1>13, <1>c DEF CallQuery, providerVars
  <2>2. PICK r, ref : r \in Report(i, provider[i]) /\ Conclude(w, r, ref)
    BY <1>13 DEF CallQuery
  <2> QED
    BY <1>3, <1>p, <2>1, <2>2, SuccessMeansCaptured
<1>14. ASSUME NEW w \in Workers, QueryUnreferencedOrder(w) PROVE NewSuccessBacked
  <2> DEFINE i == current[w][1]
  <2>1. i \in Intents
    BY <1>14, <1>c DEF QueryUnreferencedOrder
  <2>2. provider'[i] \in {"absent", "pending", "approved", "captured", "refused"}
    BY <1>p, <1>14, <2>1, Zenon DEF QueryUnreferencedOrder, OrderExists
  <2>3. CASE \E r \in Report(i, provider'[i]) :
               Conclude(w, IF r = "requires_action" THEN "failed" ELSE r, TRUE)
    BY <1>3, <2>1, <2>2, <2>3, SuccessMeansCaptured, Zenon
  <2>4. CASE Conclude(w, "failed", FALSE)
    BY <1>3, <2>4, Zenon
  <2> QED
    BY <1>14, <2>3, <2>4, Zenon DEF QueryUnreferencedOrder
<1>15. ASSUME NEW i \in Intents,
              \/ CreateChargeIntent(i) \/ CreateHostedTopUp(i) \/ Handle(i) \/ PayPalReturn(i)
              \/ ApiCrash(i) \/ ReturnCrash(i) \/ ProviderSettles(i) \/ OrderVoided(i)
              \/ \E n \in 1..MaxEvents : RecordWebhook(i, n)
       PROVE  UNCHANGED <<pc, answer, current>>
  BY <1>15, Zenon DEF CreateChargeIntent, CreateHostedTopUp, Handle, CreatePayPalOrder,
     RecordPayPalOrder, CapturePayPalOrder, RecordPayPalCapture, PayPalReturn, ApiCrash,
     ReturnCrash, ProviderSettles, OrderVoided, RecordWebhook, workerVars
<1>16. ASSUME RevokePaymentMethod \/ Fence \/ UNCHANGED vars PROVE UNCHANGED <<pc, answer, current>>
  BY <1>16 DEF RevokePaymentMethod, Fence, PrepareHandoffOrClosure, LiftFence, vars, workerVars
<1> QED
  BY <1>4, <1>5, <1>6, <1>7, <1>8, <1>9, <1>10, <1>11, <1>12, <1>13, <1>14, <1>15, <1>16
  DEF Next, Step

\* A PayPal return remembers a capture only when the order is captured.
LEMMA ReturnSteps ==
  ASSUME TypeInv, [Next]_vars
  PROVE  \A i \in Intents : returning'[i] = "captured" =>
           returning[i] = "captured" \/ provider'[i] = "captured"
<1>t. /\ returning \in [Intents -> {"idle", "checked", "captured"}]
      /\ provider \in [Intents -> {"absent", "pending", "approved", "captured", "refused"}]
  BY DEF TypeInv, TypeOK
<1>1. ASSUME NEW i \in Intents,
             \/ CapturePayPalOrder(i) \/ RecordPayPalCapture(i) \/ PayPalReturn(i) \/ ReturnCrash(i)
      PROVE  \A n \in Intents : returning'[n] = "captured" =>
               returning[n] = "captured" \/ provider'[n] = "captured"
  <2>1. CASE CapturePayPalOrder(i)
    BY <1>t, <2>1 DEF CapturePayPalOrder
  <2>2. CASE RecordPayPalCapture(i) \/ PayPalReturn(i) \/ ReturnCrash(i)
    BY <1>t, <2>2, Zenon DEF RecordPayPalCapture, PayPalReturn, ReturnCrash
  <2> QED
    BY <1>1, <2>1, <2>2
<1>2. ASSUME NEW i \in Intents,
             \/ CreateChargeIntent(i) \/ CreateHostedTopUp(i) \/ CreatePayPalOrder(i)
             \/ RecordPayPalOrder(i) \/ ApiCrash(i) \/ ProviderSettles(i) \/ OrderVoided(i)
             \/ \E n \in 1..MaxEvents : RecordWebhook(i, n)
      PROVE  UNCHANGED returning
  BY <1>2, Zenon DEF CreateChargeIntent, CreateHostedTopUp, CreatePayPalOrder, RecordPayPalOrder,
     ApiCrash, ProviderSettles, OrderVoided, RecordWebhook, apiVars
<1>3. ASSUME NEW w \in Workers,
             \/ ClaimPaymentJobs(w) \/ Step(w) \/ Crash(w)
             \/ ResolveFails(w) \/ LoseCharge(w) \/ QueryFails(w)
      PROVE  UNCHANGED returning
  BY Zenon, <1>3 DEF Step, ClaimPaymentJobs, BeginFails, BeginNotActionable, BeginRecovers, BeginStarts,
     CompletePaymentJob, RecoverAttempt, PrepareRequest, CallCharge, CallQuery,
     QueryUnreferencedOrder, FinalizeProviderAttempt, FinalizeWithoutEffect, Crash, ResolveFails,
     LoseCharge, QueryFails, apiVars
<1>4. ASSUME RevokePaymentMethod \/ Fence \/ UNCHANGED vars PROVE UNCHANGED returning
  BY <1>4 DEF RevokePaymentMethod, Fence, PrepareHandoffOrClosure, LiftFence, vars, apiVars
<1> QED
  BY Zenon, <1>1, <1>2, <1>3, <1>4 DEF Next, Handle

\* A credit on its way, or in the ledger, stays backed.
LEMMA NextBacking ==
  ASSUME CreditInv, [Next]_vars
  PROVE  Backing'
<1>0. TypeInv /\ Backing /\ provider \in [Intents -> {"absent", "pending", "approved", "captured", "refused"}]
  BY DEF CreditInv, TypeInv, TypeOK
<1>1. \A i \in Intents : provider[i] = "captured" => provider'[i] = "captured"
  BY <1>0, CaptureSteps
<1>2. \A v \in Workers :
        pc'[v] = "finalize" /\ answer'[v] = "succeeded" => provider'[current'[v][1]] = "captured"
  <2> SUFFICES ASSUME NEW v \in Workers, pc'[v] = "finalize", answer'[v] = "succeeded"
               PROVE  provider'[current'[v][1]] = "captured"
    OBVIOUS
  <2>1. CASE pc[v] = pc'[v] /\ answer[v] = answer'[v] /\ current[v] = current'[v]
    <3>1. current[v][1] \in Intents
      BY <1>0, <2>1, JobIntent DEF TypeInv, WorkerMemory
    <3>2. provider[current[v][1]] = "captured"
      BY <1>0, <2>1 DEF Backing
    <3> QED
      BY <1>1, <2>1, <3>1, <3>2
  <2>2. CASE provider'[current'[v][1]] = "captured"
    BY <2>2
  <2> QED
    BY <1>0, <2>1, <2>2, AnswerSteps DEF NewSuccessBacked
<1>3. \A i \in Intents : returning'[i] = "captured" => provider'[i] = "captured"
  BY <1>0, <1>1, ReturnSteps DEF Backing
<1>4. CreditIsBacked'
  <2>0. ledger \in Seq(Intents)
    BY <1>0 DEF TypeInv, TypeOK
  <2>1. ledger \in Seq(Intents) /\ Credited \subseteq Intents
    BY <2>0 DEF Credited
  <2>2. CASE UNCHANGED ledger
    BY <1>0, <1>1, <2>1, <2>2 DEF Backing, CreditIsBacked, Credited
  <2>3. ASSUME UNCHANGED provider, NEW i \in Intents, NEW to \in ProviderResultState,
               Applying(i, to), to = "succeeded" => provider[i] = "captured"
        PROVE  CreditIsBacked'
    <3>1. CASE to # "succeeded"
      BY <2>2, <2>3, <3>1 DEF Applying
    <3>2. CASE to = "succeeded"
      <4>1. Credited' = Credited \cup {i}
        BY <2>1, <2>3, <3>2, CreditAppended DEF Applying
      <4> QED
        BY <1>0, <2>3, <3>2, <4>1 DEF Backing, CreditIsBacked
    <3> QED
      BY <3>1, <3>2
  <2> QED
    BY <1>0, <2>2, <2>3, AppliedSteps DEF Entering
<1> QED
  BY <1>2, <1>3, <1>4 DEF Backing

\* The inductive invariant of the credits.
LEMMA CreditInvariant == Spec => []CreditInv
<1>1. Init => CreditInv
  <2> SUFFICES ASSUME Init PROVE CreditInv
    OBVIOUS
  <2>1. ledger = <<>> /\ Credited = {}
    BY DEF Init, Credited
  <2>2. CreditedExactlyOnce
    BY <2>1 DEF Init, CreditedExactlyOnce
  <2>3. Backing
    BY <2>1 DEF Init, Backing, CreditIsBacked
  <2> QED
    BY <2>2, <2>3, InitTypeInv DEF CreditInv
<1>2. CreditInv /\ [Next]_vars => CreditInv'
  BY NextTypeInv, NextCreditedOnce, NextBacking DEF CreditInv
<1> QED
  BY <1>1, <1>2, PTL DEF Spec

\* Across takeovers, recoveries, duplicate results, webhooks, PayPal returns and
\* crashes, transitionIntentTx credits an intent exactly once if it succeeded.
THEOREM CreditsExactlyOnce == Spec => []CreditedExactlyOnce
<1>1. CreditInv => CreditedExactlyOnce
  BY DEF CreditInv
<1> QED
  BY <1>1, CreditInvariant, PTL

\* No path through workers, webhooks or handlers credits money the provider did
\* not capture.
THEOREM CreditsAreBacked == Spec => []CreditIsBacked
<1>1. CreditInv => CreditIsBacked
  BY DEF CreditInv, Backing
<1> QED
  BY <1>1, CreditInvariant, PTL

\* The payment orchestration implements the abstract exactly-once settlement.
THEOREM Implementation == Spec => ImplementsSettlement
<1> DEFINE capt == {i \in Intents : provider[i] = "captured"}
<1>1. Init => Settlement!Init
  BY DEF Init, Settlement!Init
<1>2. ASSUME CreditInv, [Next]_vars
      PROVE  [Settlement!Next]_<<capt, ledger>>
  <2>0. /\ TypeInv /\ Backing /\ CreditedExactlyOnce /\ ledger \in Seq(Intents)
        /\ provider \in [Intents -> {"absent", "pending", "approved", "captured", "refused"}]
    BY <1>2 DEF CreditInv, TypeInv, TypeOK
  <2>1. ASSUME UNCHANGED ledger, NEW i \in Intents, provider[i] # "captured",
               NEW p \in {"pending", "approved", "captured", "refused"},
               provider' = [provider EXCEPT ![i] = p]
        PROVE  [Settlement!Next]_<<capt, ledger>>
    <3>1. CASE p = "captured"
      <4>1. capt' = capt \cup {i} /\ i \notin capt
        BY <2>0, <2>1, <3>1
      <4> QED
        BY <2>1, <4>1 DEF Settlement!Next, Settlement!Capture
    <3>2. CASE p # "captured"
      BY <2>0, <2>1, <3>2
    <3> QED
      BY <3>1, <3>2
  <2>2. ASSUME UNCHANGED provider, NEW i \in Intents, NEW to \in ProviderResultState,
               Applying(i, to), to = "succeeded" => provider[i] = "captured"
        PROVE  [Settlement!Next]_<<capt, ledger>>
    <3>1. CASE to # "succeeded"
      BY <2>2, <3>1 DEF Applying
    <3>2. CASE to = "succeeded"
      <4>1. state[i] # "succeeded"
        BY <2>2 DEF Applying, Successor
      <4>2. \A k \in 1..Len(ledger) : ledger[k] # i
        BY <2>0, <4>1 DEF CreditedExactlyOnce, Credited
      <4>3. ledger' = Append(ledger, i) /\ i \in capt /\ capt' = capt
        BY <2>2, <3>2 DEF Applying
      <4> QED
        BY <4>2, <4>3 DEF Settlement!Next, Settlement!Credit
    <3> QED
      BY <3>1, <3>2
  <2>3. CASE UNCHANGED provider
    <3>1. CASE UNCHANGED ledger
      BY <2>3, <3>1
    <3> QED
      BY <1>2, <2>0, <2>2, <2>3, <3>1, AppliedSteps DEF Entering
  <2> QED
    BY <1>2, <2>0, <2>1, <2>3, CaptureSteps
<1> HIDE DEF capt
<1>3. CreditInv /\ [Next]_vars => [Settlement!Next]_<<capt, ledger>>
  BY <1>2
<1> QED
  BY <1>1, <1>3, CreditInvariant, PTL DEF Spec, ImplementsSettlement, Settlement!Spec, capt

-----------------------------------------------------------------------------
(* One charge request *)

\* Worker w may still send the charge request of intent i.
Charging(w, i) == pc[w] \in {"digest", "call"} /\ current[w] = <<i, "charge">>

\* Before "processing" nothing was sent and nobody is about to; from then on there
\* is one worker about to send, or the request was sent, or neither, never both.
ChargeInv ==
  /\ TypeInv
  /\ \A i \in Intents : state[i] \in {"absent", "created"} =>
       charged[i] = 0 /\ \A w \in Workers : ~Charging(w, i)
  /\ \A i \in Intents, v, w \in Workers : Charging(v, i) /\ Charging(w, i) => v = w
  /\ \A i \in Intents, w \in Workers : Charging(w, i) => charged[i] = 0
  /\ ChargedAtMostOnce

\* No new worker is about to charge, and no request is sent.
NoNewCharge ==
  /\ \A v \in Workers, n \in Intents :
       (pc'[v] \in {"digest", "call"} /\ current'[v] = <<n, "charge">>) => Charging(v, n)
  /\ UNCHANGED charged

\* No intent goes back to a state in which it may be charged.
NoneReopened ==
  \A n \in Intents : state'[n] \in {"absent", "created"} => state[n] \in {"absent", "created"}

\* A result is never "created", and no transition leads back to it.
LEMMA NoneReopens ==
  ASSUME TypeInv, [Next]_vars
  PROVE  NoneReopened
<1>t. state \in [Intents -> IntentState \cup {"absent"}]
  BY DEF TypeInv, TypeOK
<1>1. ASSUME NEW i \in Intents, NEW to \in ProviderResultState, NEW ref,
             Transition(i, to, ref) \/ TransitionIntent(i, to, ref)
      PROVE  NoneReopened
  BY <1>t, <1>1 DEF Transition, TransitionIntent, NoneReopened, ProviderResultState, IntentState
<1>2. ASSUME NEW w \in Workers, FinalizeProviderAttempt(w) PROVE NoneReopened
  <2>1. current[w][1] \in Intents /\ answer[w] \in ProviderResultState
    BY <1>2, JobIntent DEF FinalizeProviderAttempt, TypeInv, TypeOK, WorkerMemory
  <2> QED
    BY <1>1, <1>2, <2>1 DEF FinalizeProviderAttempt
<1>3. ASSUME NEW i \in Intents, RecordPayPalOrder(i) \/ RecordPayPalCapture(i) PROVE NoneReopened
  <2>1. CASE RecordPayPalOrder(i)
    <3>1. PICK to, ref : /\ to \in {"requires_action", "failed", "unknown"}
                         /\ TransitionIntent(i, to, ref)
      BY <2>1 DEF RecordPayPalOrder, StateForProviderError
    <3>2. to \in ProviderResultState
      BY <3>1 DEF ProviderResultState, IntentState
    <3> QED
      BY <1>1, <3>1, <3>2
  <2>2. CASE RecordPayPalCapture(i)
    <3>1. "succeeded" \in ProviderResultState
      BY DEF ProviderResultState, IntentState
    <3> QED
      BY <1>1, <2>2, <3>1, Zenon DEF RecordPayPalCapture
  <2> QED
    BY <1>3, <2>1, <2>2
<1>4. ASSUME NEW i \in Intents, Entering(i) PROVE NoneReopened
  BY <1>t, <1>4 DEF Entering, NoneReopened
<1>5. ASSUME UNCHANGED state PROVE NoneReopened
  BY <1>5 DEF NoneReopened
<1> QED
  BY <1>2, <1>3, <1>4, <1>5, IntentSteps

\* Only BeginProviderAttempt makes a worker ready to charge, and only the provider
\* call sends the request.
LEMMA ChargeSteps ==
  ASSUME TypeInv, [Next]_vars
  PROVE  \/ NoNewCharge
         \/ \E w \in Workers, j \in Jobs : BeginStarts(w, j)
         \/ \E w \in Workers : CallCharge(w)
<1>t. /\ pc \in [Workers -> {"idle", "ready", "complete", "recover", "digest", "call", "finalize"}]
      /\ current \in [Workers -> Jobs \cup {NoJob}]
  BY DEF TypeInv, TypeOK
<1>1. ASSUME NEW w \in Workers, NEW rest, Return(w, rest), UNCHANGED charged PROVE NoNewCharge
  BY <1>t, <1>1 DEF Return, NoNewCharge, Charging
<1>2. ASSUME NEW w \in Workers, NEW j, NEW k, NEW result,
             NEW p \in {"complete", "recover", "finalize"}, Take(w, j, p, k, result),
             UNCHANGED charged
      PROVE  NoNewCharge
  BY <1>t, <1>2 DEF Take, NoNewCharge, Charging
<1>3. ASSUME NEW w \in Workers, NEW result, NEW ref, Conclude(w, result, ref), UNCHANGED charged
      PROVE  NoNewCharge
  BY <1>t, <1>3 DEF Conclude, NoNewCharge, Charging
<1>4. ASSUME UNCHANGED <<pc, current, charged>> PROVE NoNewCharge
  BY <1>4 DEF NoNewCharge, Charging
<1>5. ASSUME NEW w \in Workers, NEW j \in Jobs,
             BeginFails(w, j) \/ BeginNotActionable(w, j) \/ BeginRecovers(w, j)
      PROVE  NoNewCharge
  <2>1. UNCHANGED charged
    BY <1>5 DEF BeginFails, BeginNotActionable, BeginRecovers, providerVars
  <2>2. CASE BeginFails(w, j)
    BY <1>1, <2>1, <2>2 DEF BeginFails, Exit
  <2>3. CASE BeginNotActionable(w, j)
    BY <1>2, <2>1, <2>3 DEF BeginNotActionable
  <2>4. CASE BeginRecovers(w, j)
    BY <1>2, <2>1, <2>4 DEF BeginRecovers
  <2> QED
    BY <1>5, <2>2, <2>3, <2>4
<1>6. ASSUME NEW w \in Workers,
             \/ CompletePaymentJob(w) \/ FinalizeProviderAttempt(w)
             \/ FinalizeWithoutEffect(w) \/ Crash(w)
      PROVE  NoNewCharge
  BY <1>1, <1>6
  DEF CompletePaymentJob, FinalizeProviderAttempt, FinalizeWithoutEffect, Crash, Exit, providerVars
<1>7. ASSUME NEW w \in Workers, ClaimPaymentJobs(w) PROVE NoNewCharge
  BY <1>t, <1>7 DEF ClaimPaymentJobs, NoNewCharge, Charging, providerVars
<1>8. ASSUME NEW w \in Workers, RecoverAttempt(w) PROVE NoNewCharge
  BY Zenon, <1>1, <1>3, <1>8 DEF RecoverAttempt, Exit, providerVars
<1>9. ASSUME NEW w \in Workers, PrepareRequest(w) PROVE NoNewCharge
  <2>1. UNCHANGED charged /\ pc[w] = "digest"
    BY <1>9 DEF PrepareRequest, providerVars
  <2>2. CASE \E result \in {"unknown", "failed"} : Conclude(w, result, FALSE)
    BY <1>3, <2>1, <2>2, Zenon
  <2>3. CASE pc' = [pc EXCEPT ![w] = "call"] /\ UNCHANGED current
    BY <1>t, <2>1, <2>3 DEF NoNewCharge, Charging
  <2> QED
    BY <1>9, <2>2, <2>3, Zenon DEF PrepareRequest
<1>10. ASSUME NEW w \in Workers,
              \/ ResolveFails(w) \/ LoseCharge(w) \/ QueryFails(w) \/ CallQuery(w)
              \/ QueryUnreferencedOrder(w)
       PROVE  NoNewCharge
  <2>1. UNCHANGED charged
    BY Zenon, <1>10
    DEF ResolveFails, LoseCharge, QueryFails, CallQuery, QueryUnreferencedOrder, providerVars
  <2>2. \E result, ref : Conclude(w, result, ref)
    BY Zenon, <1>10 DEF ResolveFails, LoseCharge, QueryFails, CallQuery, QueryUnreferencedOrder
  <2> QED
    BY <1>3, <2>1, <2>2
<1>11. ASSUME NEW i \in Intents,
              \/ CreateChargeIntent(i) \/ CreateHostedTopUp(i) \/ Handle(i) \/ PayPalReturn(i)
              \/ ApiCrash(i) \/ ReturnCrash(i) \/ ProviderSettles(i) \/ OrderVoided(i)
              \/ \E n \in 1..MaxEvents : RecordWebhook(i, n)
       PROVE  UNCHANGED <<pc, current, charged>>
  BY <1>11, Zenon DEF CreateChargeIntent, CreateHostedTopUp, Handle, CreatePayPalOrder,
     RecordPayPalOrder, CapturePayPalOrder, RecordPayPalCapture, PayPalReturn, ApiCrash,
     ReturnCrash, ProviderSettles, OrderVoided, RecordWebhook, providerVars, workerVars
<1>12. ASSUME RevokePaymentMethod \/ Fence \/ UNCHANGED vars PROVE UNCHANGED <<pc, current, charged>>
  BY <1>12 DEF RevokePaymentMethod, Fence, PrepareHandoffOrClosure, LiftFence, vars, providerVars, workerVars
<1> QED
  BY <1>4, <1>5, <1>6, <1>7, <1>8, <1>9, <1>10, <1>11, <1>12 DEF Next, Step

\* A started charge is the first of its intent, and sending it uses it up.
LEMMA NextChargeInv ==
  ASSUME ChargeInv, [Next]_vars
  PROVE  ChargeInv'
<1>0. TypeInv /\ TypeInv' /\ NoneReopened
  BY NextTypeInv, NoneReopens DEF ChargeInv
<1>t. /\ pc \in [Workers -> {"idle", "ready", "complete", "recover", "digest", "call", "finalize"}]
      /\ current \in [Workers -> Jobs \cup {NoJob}] /\ charged \in [Intents -> Nat]
      /\ state \in [Intents -> IntentState \cup {"absent"}]
  BY <1>0 DEF TypeInv, TypeOK
<1>1. CASE NoNewCharge
  BY <1>0, <1>1 DEF ChargeInv, NoNewCharge, NoneReopened, Charging, ChargedAtMostOnce
<1>2. ASSUME NEW w \in Workers, NEW j \in Jobs, BeginStarts(w, j) PROVE ChargeInv'
  <2>1. UNCHANGED charged
    BY <1>2 DEF BeginStarts, providerVars
  <2>2. PICK p \in {"digest", "finalize"}, result \in {"unknown", "failed"} :
          Take(w, j, p, Len(attempts[j[1]]) + 1, result)
    BY <1>2 DEF BeginStarts
  <2>3. j[1] \in Intents /\ j = <<j[1], j[2]>>
    BY JobIntent
  <2>4. CASE j[2] # "charge"
    <3>1. NoNewCharge
      BY <1>t, <2>1, <2>2, <2>3, <2>4 DEF Take, NoNewCharge, Charging
    <3> QED
      BY <1>1, <3>1
  <2>5. CASE j[2] = "charge"
    <3>1. state[j[1]] = "created" /\ state' = [state EXCEPT ![j[1]] = "processing"]
      BY <1>2, <2>5 DEF BeginStarts, Operation, Startable
    <3>2. charged[j[1]] = 0 /\ \A v \in Workers : ~Charging(v, j[1])
      BY <2>3, <3>1 DEF ChargeInv
    <3>3. \A v \in Workers, n \in Intents :
            Charging(v, n)' => Charging(v, n) \/ (v = w /\ n = j[1])
      <4>1. /\ \A v \in Workers \ {w} : pc'[v] = pc[v] /\ current'[v] = current[v]
            /\ current'[w] = <<j[1], j[2]>>
        BY <1>t, <2>2, <2>3 DEF Take
      <4> QED
        BY <4>1 DEF Charging
    <3>4. \A n \in Intents : state'[n] \in {"absent", "created"} =>
            n # j[1] /\ state[n] \in {"absent", "created"}
      BY <1>t, <2>3, <3>1
    <3>5. charged' = charged
      BY <2>1
    <3>6. \A n \in Intents : state'[n] \in {"absent", "created"} =>
            charged'[n] = 0 /\ \A v \in Workers : ~Charging(v, n)'
      BY <3>3, <3>4, <3>5 DEF ChargeInv
    <3>7. \A n \in Intents, u, v \in Workers : Charging(u, n)' /\ Charging(v, n)' => u = v
      BY <3>2, <3>3 DEF ChargeInv
    <3>8. \A n \in Intents, v \in Workers : Charging(v, n)' => charged'[n] = 0
      BY <3>2, <3>3, <3>5 DEF ChargeInv
    <3>9. ChargedAtMostOnce'
      BY <3>5 DEF ChargeInv, ChargedAtMostOnce
    <3> QED
      BY <1>0, <3>6, <3>7, <3>8, <3>9 DEF ChargeInv
  <2> QED
    BY <2>4, <2>5
<1>3. ASSUME NEW w \in Workers, CallCharge(w) PROVE ChargeInv'
  <2>0. pc[w] = "call" /\ Operation(current[w]) = "charge"
    BY <1>3 DEF CallCharge
  <2>1. PICK i \in Intents : current[w] = <<i, "charge">>
    <3>1. current[w] \in Jobs
      BY <1>0, <2>0 DEF TypeInv, WorkerMemory
    <3> QED
      BY <2>0, <3>1, JobIntent DEF Operation
  <2>2. Charging(w, i) /\ charged[i] = 0 /\ \A v \in Workers : Charging(v, i) => v = w
    BY <2>0, <2>1 DEF ChargeInv, Charging
  <2>3. charged' = [charged EXCEPT ![i] = charged[i] + 1] /\ UNCHANGED state
    <3>1. charged' = [charged EXCEPT ![current[w][1]] = @ + 1] /\ UNCHANGED dbVars
      BY <1>3 DEF CallCharge
    <3>2. current[w][1] = i
      BY <2>1
    <3> QED
      BY <3>1, <3>2 DEF dbVars
  <2>4. \E result, ref : Conclude(w, result, ref)
    BY <1>3, Zenon DEF CallCharge
  <2>5. \A v \in Workers, n \in Intents : Charging(v, n)' => Charging(v, n) /\ v # w
    BY <1>t, <2>4 DEF Conclude, Charging
  <2>6. \A n \in Intents : charged'[n] = IF n = i THEN 1 ELSE charged[n]
    BY <1>t, <2>1, <2>2, <2>3
  <2>7. state[i] \notin {"absent", "created"}
    BY <2>1, <2>2 DEF ChargeInv
  <2>8. \A v \in Workers : ~Charging(v, i)'
    BY <2>1, <2>2, <2>5
  <2>9. \A n \in Intents : state'[n] \in {"absent", "created"} =>
          charged'[n] = 0 /\ \A v \in Workers : ~Charging(v, n)'
    BY <2>3, <2>5, <2>6, <2>7 DEF ChargeInv
  <2>10. \A n \in Intents, u, v \in Workers : Charging(u, n)' /\ Charging(v, n)' => u = v
    BY <2>5 DEF ChargeInv
  <2>11. \A n \in Intents, v \in Workers : Charging(v, n)' => charged'[n] = 0
    <3>1. \A n \in Intents, v \in Workers : Charging(v, n) => charged[n] = 0
      BY DEF ChargeInv
    <3> QED
      BY <2>5, <2>6, <2>8, <3>1
  <2>12. ChargedAtMostOnce'
    <3>1. \A n \in Intents : charged[n] <= 1
      BY DEF ChargeInv, ChargedAtMostOnce
    <3> QED
      BY <2>6, <3>1 DEF ChargedAtMostOnce
  <2> QED
    BY <1>0, <2>9, <2>10, <2>11, <2>12 DEF ChargeInv
<1> QED
  BY <1>0, <1>1, <1>2, <1>3, ChargeSteps

\* However workers crash, restart and take over each other's jobs, at most one
\* charge request is ever sent for an intent: BeginProviderAttempt never repeats one.
THEOREM ChargesAtMostOnce == Spec => []ChargedAtMostOnce
<1>1. Init => ChargeInv
  <2> SUFFICES ASSUME Init PROVE ChargeInv
    OBVIOUS
  <2>1. \A i \in Intents : charged[i] = 0
    BY DEF Init
  <2>2. \A w \in Workers, i \in Intents : ~Charging(w, i)
    BY DEF Init, Charging
  <2> QED
    BY <2>1, <2>2, InitTypeInv DEF ChargeInv, ChargedAtMostOnce
<1>2. ChargeInv /\ [Next]_vars => ChargeInv'
  BY NextChargeInv
<1>3. ChargeInv => ChargedAtMostOnce
  BY DEF ChargeInv
<1> QED
  BY <1>1, <1>2, <1>3, PTL DEF Spec
=============================================================================
