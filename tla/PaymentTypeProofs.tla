------------------------- MODULE PaymentTypeProofs --------------------------
(***************************************************************************)
(* Type correctness of the payment orchestration for any set of intents and *)
(* workers and any bounds, with the fact the other proofs rest on: what a  *)
(* worker remembers is always a row that exists.                           *)
(***************************************************************************)
EXTENDS PaymentOrchestration, TLAPS

\* A row that is added to a table kept in order, the ledger or the attempts of
\* an intent, changes no earlier row.
LEMMA AddedRow ==
  ASSUME NEW S, NEW table \in Seq(S), NEW row \in S
  PROVE  /\ Append(table, row) \in Seq(S) /\ Len(Append(table, row)) = Len(table) + 1
         /\ \A i \in 1..Len(table) : Append(table, row)[i] = table[i]
         /\ Append(table, row)[Len(table) + 1] = row
OBVIOUS

\* A row that is replaced leaves a table as long.
LEMMA ReplacedRow ==
  ASSUME NEW S, NEW table \in Seq(S), NEW i \in 1..Len(table), NEW row \in S
  PROVE  /\ [table EXCEPT ![i] = row] \in Seq(S)
         /\ Len([table EXCEPT ![i] = row]) = Len(table)
OBVIOUS

\* A worker past BeginProviderAttempt has a job, and past a started or recovered
\* attempt a row of payment_attempts to work on.
WorkerMemory ==
  \A w \in Workers :
    /\ pc[w] \in {"complete", "recover", "digest", "call", "finalize"} => current[w] \in Jobs
    /\ pc[w] \in {"recover", "digest", "call", "finalize"} =>
         held[w] \in 1..Len(attempts[current[w][1]])

TypeInv == TypeOK /\ WorkerMemory

-----------------------------------------------------------------------------
(* What the shared pieces preserve *)

WorkerTypes ==
  /\ pc \in [Workers -> {"idle", "ready", "complete", "recover", "digest", "call", "finalize"}]
  /\ batch \in [Workers -> SUBSET Jobs]
  /\ current \in [Workers -> Jobs \cup {NoJob}]
  /\ held \in [Workers -> Nat]
  /\ answer \in [Workers -> ProviderResultState]
  /\ answerRef \in [Workers -> BOOLEAN]
  /\ seenRef \in [Workers -> BOOLEAN]

\* The other workers' progress is untouched.
OthersUntouched(w) ==
  \A v \in Workers \ {w} : pc'[v] = pc[v] /\ current'[v] = current[v] /\ held'[v] = held[v]

\* The first component of a job is its intent.
LEMMA JobIntent ==
  ASSUME NEW j \in Jobs
  PROVE  j[1] \in Intents /\ j[2] \in Reasons /\ j = <<j[1], j[2]>>
  BY DEF Jobs

\* A worker that returns forgets everything but the rest of its batch.
LEMMA ReturnTypes ==
  ASSUME TypeOK, NEW w \in Workers, NEW rest \in SUBSET Jobs, Return(w, rest)
  PROVE  WorkerTypes' /\ OthersUntouched(w) /\ pc'[w] \in {"idle", "ready"}
  BY DEF TypeOK, WorkerTypes, OthersUntouched, Return, ProviderResultState, IntentState

\* A worker that takes a job remembers it, its attempt and what it already knows.
LEMMA TakeTypes ==
  ASSUME TypeOK, NEW w \in Workers, NEW j \in Jobs,
         NEW p \in {"complete", "recover", "digest", "finalize"},
         NEW k \in Nat, NEW result \in ProviderResultState, Take(w, j, p, k, result)
  PROVE  WorkerTypes' /\ OthersUntouched(w) /\ pc'[w] = p /\ current'[w] = j /\ held'[w] = k
  <1>1. reference[j[1]] \in BOOLEAN
    BY JobIntent DEF TypeOK
  <1> QED
    BY <1>1 DEF TypeOK, WorkerTypes, OthersUntouched, Take

\* A worker that concludes keeps its job and its attempt.
LEMMA ConcludeTypes ==
  ASSUME TypeOK, NEW w \in Workers, NEW result \in ProviderResultState, NEW ref \in BOOLEAN,
         Conclude(w, result, ref)
  PROVE  WorkerTypes' /\ OthersUntouched(w) /\ pc'[w] = "finalize"
           /\ current' = current /\ held' = held
  BY DEF TypeOK, WorkerTypes, OthersUntouched, Conclude

\* Marking an attempt, digested or completed, adds and removes no attempt.
LEMMA MarkedAttempt ==
  ASSUME TypeOK, NEW i \in Intents, NEW k \in 1..Len(attempts[i]),
         \/ attempts' = [attempts EXCEPT ![i][k].digest = TRUE]
         \/ attempts' = [attempts EXCEPT ![i][k].completed = TRUE]
  PROVE  /\ attempts' \in [Intents -> Seq(Attempt)]
         /\ \A n \in Intents : Len(attempts'[n]) = Len(attempts[n])
  <1> DEFINE d == [attempts[i][k] EXCEPT !.digest = TRUE]
             c == [attempts[i][k] EXCEPT !.completed = TRUE]
  <1>1. attempts[i] \in Seq(Attempt) /\ attempts[i][k] \in Attempt
    BY DEF TypeOK
  <1>2. d \in Attempt /\ c \in Attempt
    BY <1>1, Zenon DEF Attempt
  <1>3. /\ [attempts[i] EXCEPT ![k] = d] \in Seq(Attempt)
        /\ Len([attempts[i] EXCEPT ![k] = d]) = Len(attempts[i])
    BY <1>1, <1>2, ReplacedRow
  <1>4. /\ [attempts[i] EXCEPT ![k] = c] \in Seq(Attempt)
        /\ Len([attempts[i] EXCEPT ![k] = c]) = Len(attempts[i])
    BY <1>1, <1>2, ReplacedRow
  <1>5. attempts \in [Intents -> Seq(Attempt)]
    BY DEF TypeOK
  <1>6. \/ attempts' = [attempts EXCEPT ![i] = [attempts[i] EXCEPT ![k] = d]]
        \/ attempts' = [attempts EXCEPT ![i] = [attempts[i] EXCEPT ![k] = c]]
    OBVIOUS
  <1> HIDE DEF d, c
  <1> QED
    BY <1>3, <1>4, <1>5, <1>6, Zenon

\* Whatever an adapter reports is a result a worker may record.
LEMMA ReportTypes ==
  ASSUME NEW i \in Intents,
         NEW p \in {"absent", "pending", "approved", "captured", "refused"}
  PROVE  Report(i, p) \subseteq ProviderResultState
  <1>1. PendingReport(i) \subseteq ProviderResultState
    BY ConstantsAssumption DEF PendingReport, ProviderResultState, IntentState, Flavors
  <1> QED
    BY <1>1 DEF Report, ProviderResultState, IntentState

\* transitionIntentTx keeps the intent, its reference and the ledger well formed.
LEMMA TransitionTypes ==
  ASSUME TypeOK, NEW i \in Intents, NEW to \in IntentState, NEW ref \in BOOLEAN,
         Transition(i, to, ref) \/ TransitionIntent(i, to, ref)
  PROVE  /\ state' \in [Intents -> IntentState \cup {"absent"}]
         /\ reference' \in [Intents -> BOOLEAN]
         /\ ledger' \in Seq(Intents)
  <1>1. (reference[i] \/ (ref /\ state[i] # to)) \in BOOLEAN
    OBVIOUS
  <1>2. Append(ledger, i) \in Seq(Intents) /\ ledger \in Seq(Intents)
    BY DEF TypeOK
  <1>3. CASE Transition(i, to, ref)
    <2>1. reference' \in [Intents -> BOOLEAN]
      BY <1>1, <1>3, Zenon DEF TypeOK, Transition
    <2> QED
      BY <1>2, <1>3, <2>1 DEF TypeOK, Transition
  <1>4. CASE UNCHANGED <<state, reference, ledger>>
    BY <1>4 DEF TypeOK
  <1> QED
    BY <1>3, <1>4 DEF TransitionIntent

\* A typed provider error is a result a worker may record.
LEMMA ErrorTypes ==
  ASSUME NEW kind, NEW reached \in BOOLEAN
  PROVE  StateForProviderError(kind, reached) \in ProviderResultState
  BY DEF StateForProviderError, ProviderResultState, IntentState

\* Faults stay within their bound.
LEMMA FaultTypes ==
  ASSUME TypeOK, UNCHANGED faults \/ Fault
  PROVE  faults' \in 0..MaxFaults
  BY ConstantsAssumption DEF TypeOK, Fault

\* The other workers' memory stays sound while attempts are only ever added.
LEMMA MemoryKept ==
  ASSUME TypeInv, TypeOK', NEW w \in Workers, OthersUntouched(w),
         \A n \in Intents : Len(attempts[n]) <= Len(attempts'[n]),
         pc'[w] \in {"complete", "recover", "digest", "call", "finalize"} => current'[w] \in Jobs,
         pc'[w] \in {"recover", "digest", "call", "finalize"} =>
           held'[w] \in 1..Len(attempts'[current'[w][1]])
  PROVE  WorkerMemory'
  <1> SUFFICES ASSUME NEW v \in Workers
               PROVE  /\ pc'[v] \in {"complete", "recover", "digest", "call", "finalize"}
                           => current'[v] \in Jobs
                      /\ pc'[v] \in {"recover", "digest", "call", "finalize"} =>
                           held'[v] \in 1..Len(attempts'[current'[v][1]])
    BY DEF WorkerMemory
  <1>1. CASE v = w
    BY <1>1
  <1>2. CASE v # w
    <2>1. pc'[v] = pc[v] /\ current'[v] = current[v] /\ held'[v] = held[v]
      BY <1>2 DEF OthersUntouched
    <2>2. CASE pc[v] \in {"recover", "digest", "call", "finalize"}
      <3>1. current[v] \in Jobs /\ held[v] \in 1..Len(attempts[current[v][1]])
        BY <2>2 DEF TypeInv, WorkerMemory
      <3>2. current[v][1] \in Intents
        BY <3>1, JobIntent
      <3>3. Len(attempts[current[v][1]]) \in Nat /\ Len(attempts'[current[v][1]]) \in Nat
        BY <3>2 DEF TypeInv, TypeOK
      <3> QED
        BY <2>1, <3>1, <3>2, <3>3
    <2> QED
      BY <2>1, <2>2 DEF TypeInv, WorkerMemory
  <1> QED
    BY <1>1, <1>2

\* Initially no worker holds anything.
LEMMA InitTypeInv == Init => TypeInv
  BY ConstantsAssumption
  DEF Init, TypeInv, TypeOK, WorkerMemory, IntentState, ProviderResultState

\* A worker that goes on with its attempt keeps its job and its attempt in hand.
LEMMA AttemptKept ==
  ASSUME TypeInv, TypeOK', NEW w \in Workers, OthersUntouched(w),
         pc[w] \in {"recover", "digest", "call", "finalize"},
         current' = current, held' = held,
         \A n \in Intents : Len(attempts'[n]) = Len(attempts[n])
  PROVE  TypeInv'
<1>1. current[w] \in Jobs /\ held[w] \in 1..Len(attempts[current[w][1]])
  BY DEF TypeInv, WorkerMemory
<1>2. current[w][1] \in Intents
  BY <1>1, JobIntent
<1>3. held[w] \in 1..Len(attempts'[current[w][1]])
  BY <1>1, <1>2
<1>4. \A n \in Intents : Len(attempts[n]) <= Len(attempts'[n])
  <2>1. \A n \in Intents : Len(attempts[n]) \in Nat
    BY DEF TypeInv, TypeOK
  <2> QED
    BY <2>1
<1> QED
  BY <1>1, <1>3, <1>4, MemoryKept DEF TypeInv

\* Every action of the system keeps the variables in their types and the workers'
\* memory tied to rows that exist.
LEMMA NextTypeInv == TypeInv /\ [Next]_vars => TypeInv'
<1> SUFFICES ASSUME TypeInv, [Next]_vars PROVE TypeInv'
  OBVIOUS
<1>t. TypeOK /\ WorkerMemory
  BY DEF TypeInv
<1>e. ASSUME NEW i \in Intents PROVE Len(attempts[i]) \in Nat
  BY <1>t DEF TypeOK
<1>c. ASSUME NEW w \in Workers,
             pc[w] \in {"recover", "digest", "call", "finalize"}
      PROVE  /\ current[w] \in Jobs /\ current[w][1] \in Intents
             /\ held[w] \in 1..Len(attempts[current[w][1]])
  BY <1>t, <1>c, JobIntent DEF WorkerMemory
<1>1. ASSUME NEW i \in Intents, CreateChargeIntent(i) \/ CreateHostedTopUp(i) PROVE TypeInv'
  <2>1. CASE CreateChargeIntent(i)
    BY <2>1, <1>t, Zenon DEF TypeInv, TypeOK, WorkerMemory, CreateChargeIntent,
       IntentState, providerVars, workerVars, apiVars
  <2>2. CASE CreateHostedTopUp(i)
    <3>1. link' \in [Intents -> BOOLEAN]
      BY <2>2, <1>t DEF TypeOK, CreateHostedTopUp
    <3>2. /\ state' \in [Intents -> IntentState \cup {"absent"}]
          /\ jobStatus' \in [Jobs -> {"none", "pending", "leased", "completed"}]
      BY <2>2, <1>t, Zenon DEF TypeOK, CreateHostedTopUp, IntentState
    <3>4. api' \in [Intents -> {"idle", "calling", "ordered", "invalid", "refused", "unknown", "done"}]
      BY <2>2, <1>t DEF TypeOK, CreateHostedTopUp
    <3> QED
      BY <2>2, <1>t, <3>1, <3>2, <3>4
      DEF TypeInv, TypeOK, WorkerMemory, CreateHostedTopUp, workerVars
  <2> QED
    BY <1>1, <2>1, <2>2
<1>2. ASSUME RevokePaymentMethod \/ Fence PROVE TypeInv'
  BY <1>2, <1>t DEF TypeInv, TypeOK, WorkerMemory, RevokePaymentMethod, Fence,
     PrepareHandoffOrClosure, LiftFence,
     providerVars, workerVars, apiVars
<1>3. ASSUME NEW w \in Workers, ClaimPaymentJobs(w) PROVE TypeInv'
  <2>1. faults' \in 0..MaxFaults
    BY <1>3, <1>t, FaultTypes DEF ClaimPaymentJobs
  <2> QED
    BY <1>3, <1>t, <2>1 DEF TypeInv, TypeOK, WorkerMemory, ClaimPaymentJobs, providerVars, apiVars
<1>4. ASSUME NEW w \in Workers, NEW rest \in SUBSET Jobs, Return(w, rest),
             UNCHANGED <<dbVars, providerVars, apiVars>>, UNCHANGED faults \/ Fault
      PROVE  TypeInv'
  <2>1. WorkerTypes' /\ OthersUntouched(w) /\ pc'[w] \in {"idle", "ready"}
    BY <1>t, <1>4, ReturnTypes
  <2>2. TypeOK'
    BY <1>t, <1>4, <2>1, FaultTypes DEF TypeOK, WorkerTypes, dbVars, providerVars, apiVars
  <2>3. \A n \in Intents : Len(attempts[n]) <= Len(attempts'[n])
    BY <1>4, <1>e DEF dbVars
  <2> QED
    BY <2>1, <2>2, <2>3, MemoryKept DEF TypeInv
<1>5. ASSUME NEW w \in Workers, NEW j \in Jobs, BeginFails(w, j) PROVE TypeInv'
  BY <1>4, <1>5 DEF BeginFails, Exit
<1>6. ASSUME NEW w \in Workers, NEW j \in Jobs, BeginNotActionable(w, j) PROVE TypeInv'
  <2>0. "unknown" \in ProviderResultState
    BY DEF ProviderResultState, IntentState
  <2>1. WorkerTypes' /\ OthersUntouched(w) /\ pc'[w] = "complete" /\ current'[w] = j
    BY <1>t, <1>6, <2>0, TakeTypes DEF BeginNotActionable
  <2>2. TypeOK'
    BY <1>t, <1>6, <2>1 DEF TypeOK, WorkerTypes, BeginNotActionable, dbVars, providerVars, apiVars
  <2>3. \A n \in Intents : Len(attempts[n]) <= Len(attempts'[n])
    BY <1>6, <1>e DEF BeginNotActionable, dbVars
  <2> QED
    BY <2>1, <2>2, <2>3, MemoryKept DEF TypeInv
<1>7. ASSUME NEW w \in Workers, NEW j \in Jobs, BeginRecovers(w, j) PROVE TypeInv'
  <2>1. PICK k \in IncompleteAttempts(j[1], Operation(j)) :
          /\ Take(w, j, IF attempts[j[1]][k].digest THEN "finalize" ELSE "recover", k, "unknown")
          /\ UNCHANGED faults \/ Fault
    BY <1>7 DEF BeginRecovers
  <2>2. UNCHANGED <<dbVars, providerVars, apiVars>>
    BY <1>7 DEF BeginRecovers
  <2>3. k \in 1..Len(attempts[j[1]]) /\ k \in Nat
    BY DEF IncompleteAttempts
  <2>0. "unknown" \in ProviderResultState
    BY DEF ProviderResultState, IntentState
  <2>4. PICK p \in {"recover", "finalize"} : Take(w, j, p, k, "unknown")
    BY <2>1
  <2>5. WorkerTypes' /\ OthersUntouched(w) /\ pc'[w] = p /\ current'[w] = j /\ held'[w] = k
    BY <1>t, <2>0, <2>3, <2>4, TakeTypes
  <2>6. TypeOK'
    BY <1>t, <2>1, <2>2, <2>5, FaultTypes, Zenon DEF TypeOK, WorkerTypes, dbVars, providerVars, apiVars
  <2>7. \A n \in Intents : Len(attempts[n]) <= Len(attempts'[n])
    BY <2>2, <1>e DEF dbVars
  <2>8. attempts' = attempts
    BY <2>2 DEF dbVars
  <2> QED
    BY <2>3, <2>5, <2>6, <2>7, <2>8, MemoryKept DEF TypeInv
<1>8. ASSUME NEW w \in Workers, NEW j \in Jobs, BeginStarts(w, j) PROVE TypeInv'
  <2> DEFINE i == j[1]
             fresh == [operation |-> Operation(j), completed |-> FALSE, digest |-> FALSE]
  <2>1. i \in Intents /\ Operation(j) \in {"charge", "query"}
    BY JobIntent DEF Operation
  <2>2. PICK p \in {"digest", "finalize"}, result \in {"unknown", "failed"} :
          Take(w, j, p, Len(attempts[i]) + 1, result)
    BY <1>8 DEF BeginStarts
  <2>3. Len(attempts[i]) + 1 \in Nat /\ result \in ProviderResultState
    BY <2>1, <1>e DEF ProviderResultState, IntentState
  <2>4. WorkerTypes' /\ OthersUntouched(w) /\ pc'[w] = p /\ current'[w] = j
          /\ held'[w] = Len(attempts[i]) + 1
    BY <1>t, <2>2, <2>3, TakeTypes
  <2>5. attempts[i] \in Seq(Attempt) /\ fresh \in Attempt
    BY <1>t, <2>1 DEF TypeOK, Attempt
  <2>6. Append(attempts[i], fresh) \in Seq(Attempt)
          /\ Len(Append(attempts[i], fresh)) = Len(attempts[i]) + 1
    BY <2>5, AddedRow
  <2>7. attempts' = [attempts EXCEPT ![i] = Append(attempts[i], fresh)]
    BY <1>8 DEF BeginStarts
  <2>8. attempts \in [Intents -> Seq(Attempt)]
    BY <1>t DEF TypeOK
  <2> HIDE DEF fresh, i
  <2>9. attempts' \in [Intents -> Seq(Attempt)] /\ Len(attempts'[i]) = Len(attempts[i]) + 1
          /\ \A n \in Intents : Len(attempts[n]) <= Len(attempts'[n])
    BY <2>1, <2>6, <2>7, <2>8, <1>e
  <2>10. state' \in [Intents -> IntentState \cup {"absent"}]
    BY <1>t, <1>8, Zenon DEF BeginStarts, TypeOK, IntentState
  <2>11. TypeOK'
    BY <1>t, <1>8, <2>4, <2>9, <2>10
    DEF TypeOK, WorkerTypes, BeginStarts, providerVars, apiVars
  <2>12. Len(attempts[i]) + 1 \in 1..Len(attempts'[current'[w][1]])
    BY <2>1, <2>4, <2>9, <1>e DEF i
  <2> QED
    BY <2>4, <2>9, <2>11, <2>12, MemoryKept DEF TypeInv
<1>9. ASSUME NEW w \in Workers, CompletePaymentJob(w) PROVE TypeInv'
  <2>1. current[w] \in Jobs
    BY <1>t, <1>9 DEF WorkerMemory, CompletePaymentJob
  <2>2. PICK rest \in SUBSET Jobs : Return(w, rest)
    BY <1>t, <1>9 DEF CompletePaymentJob, Exit, TypeOK
  <2>3. WorkerTypes' /\ OthersUntouched(w) /\ pc'[w] \in {"idle", "ready"}
    BY <1>t, <2>2, ReturnTypes
  <2>6. /\ jobStatus' \in [Jobs -> {"none", "pending", "leased", "completed"}]
        /\ lessee' \in [Jobs -> Workers \cup {NoJob}]
    <3>1. \/ UNCHANGED <<jobStatus, lessee>>
          \/ /\ jobStatus' = [jobStatus EXCEPT ![current[w]] = "completed"]
             /\ lessee' = [lessee EXCEPT ![current[w]] = NoJob]
      BY <1>9 DEF CompletePaymentJob
    <3>2. /\ jobStatus \in [Jobs -> {"none", "pending", "leased", "completed"}]
          /\ lessee \in [Jobs -> Workers \cup {NoJob}]
      BY <1>t DEF TypeOK
    <3>3. CASE UNCHANGED <<jobStatus, lessee>>
      BY <3>2, <3>3
    <3>4. CASE /\ jobStatus' = [jobStatus EXCEPT ![current[w]] = "completed"]
               /\ lessee' = [lessee EXCEPT ![current[w]] = NoJob]
      BY <2>1, <3>2, <3>4
    <3> QED
      BY <3>1, <3>3, <3>4
  <2>4. TypeOK'
    <3>1. UNCHANGED <<state, reference, attempts, inbox, ledger, payer, fence,
                      providerVars, apiVars, faults>>
      BY <1>9 DEF CompletePaymentJob
    <3> QED
      BY <1>t, <2>3, <2>6, <3>1 DEF TypeOK, WorkerTypes, providerVars, apiVars
  <2>5. \A n \in Intents : Len(attempts[n]) <= Len(attempts'[n])
    <3>1. attempts' = attempts
      BY <1>9 DEF CompletePaymentJob
    <3> QED
      BY <3>1, <1>e
  <2> QED
    BY <2>3, <2>4, <2>5, MemoryKept DEF TypeInv
<1>10. ASSUME NEW w \in Workers, RecoverAttempt(w) PROVE TypeInv'
  <2>1. CASE Exit(w) /\ UNCHANGED attempts
    BY <1>4, <1>10, <2>1 DEF RecoverAttempt, Exit, dbVars
  <2>2. CASE SetDigest(w) /\ Conclude(w, "unknown", FALSE)
    <3>1. "unknown" \in ProviderResultState
      BY DEF ProviderResultState, IntentState
    <3>2. WorkerTypes' /\ OthersUntouched(w) /\ pc'[w] = "finalize"
            /\ current' = current /\ held' = held
      BY <1>t, <2>2, <3>1, ConcludeTypes, Zenon
    <3>3. /\ attempts' \in [Intents -> Seq(Attempt)]
          /\ \A n \in Intents : Len(attempts'[n]) = Len(attempts[n])
      BY Zenon, <1>t, <1>10, <1>c, <2>2, MarkedAttempt DEF RecoverAttempt, SetDigest
    <3>4. TypeOK'
      <4>1. UNCHANGED <<state, reference, jobStatus, lessee, inbox, ledger, payer, fence,
                       providerVars, apiVars, faults>>
        BY <1>10 DEF RecoverAttempt
      <4> QED
        BY <1>t, <3>2, <3>3, <4>1 DEF TypeOK, WorkerTypes, providerVars, apiVars
    <3>5. pc[w] = "recover"
      BY <1>10 DEF RecoverAttempt
    <3> QED
      BY <3>2, <3>3, <3>4, <3>5, AttemptKept
  <2> QED
    BY <1>10, <2>1, <2>2, Zenon DEF RecoverAttempt
<1>11. ASSUME NEW w \in Workers, PrepareRequest(w) PROVE TypeInv'
  <2>0. {"unknown", "failed"} \subseteq ProviderResultState
    BY DEF ProviderResultState, IntentState
  <2>1. /\ attempts' \in [Intents -> Seq(Attempt)]
        /\ \A n \in Intents : Len(attempts'[n]) = Len(attempts[n])
    <3>1. CASE UNCHANGED attempts
      BY <1>t, <3>1 DEF TypeOK
    <3>2. CASE SetDigest(w)
      BY Zenon, <1>t, <1>11, <1>c, <3>2, MarkedAttempt DEF PrepareRequest, SetDigest
    <3> QED
      BY Zenon, <1>11, <3>1, <3>2 DEF PrepareRequest
  <2>2. WorkerTypes' /\ OthersUntouched(w) /\ pc'[w] \in {"call", "finalize"}
          /\ current' = current /\ held' = held
    <3>1. CASE \E result \in {"unknown", "failed"} : Conclude(w, result, FALSE)
      BY <1>t, <2>0, <3>1, ConcludeTypes, Zenon
    <3>2. CASE /\ pc' = [pc EXCEPT ![w] = "call"]
               /\ UNCHANGED <<batch, current, held, answer, answerRef, seenRef>>
      BY <1>t, <3>2 DEF TypeOK, WorkerTypes, OthersUntouched
    <3> QED
      BY Zenon, <1>11, <3>1, <3>2 DEF PrepareRequest
  <2>3. TypeOK'
    <3>1. UNCHANGED <<state, reference, jobStatus, lessee, inbox, ledger, payer, fence,
                     providerVars, apiVars, faults>>
      BY Zenon, <1>11 DEF PrepareRequest
    <3> QED
      BY <1>t, <2>1, <2>2, <3>1 DEF TypeOK, WorkerTypes, providerVars, apiVars
  <2>4. pc[w] = "digest"
    BY <1>11 DEF PrepareRequest
  <2> QED
    BY <2>1, <2>2, <2>3, <2>4, AttemptKept
<1>12. ASSUME NEW w \in Workers, pc[w] \in {"digest", "call"},
              NEW result \in ProviderResultState, NEW ref \in BOOLEAN, Conclude(w, result, ref),
              provider' \in [Intents -> {"absent", "pending", "approved", "captured", "refused"}],
              charged' \in [Intents -> Nat], UNCHANGED <<dbVars, link, apiVars>>,
              UNCHANGED faults \/ Fault
       PROVE  TypeInv'
  <2>1. WorkerTypes' /\ OthersUntouched(w) /\ pc'[w] = "finalize"
          /\ current' = current /\ held' = held
    BY <1>t, <1>12, ConcludeTypes
  <2>2. TypeOK'
    BY <1>t, <1>12, <2>1, FaultTypes DEF TypeOK, WorkerTypes, dbVars, apiVars
  <2>3. attempts' = attempts
    BY <1>12 DEF dbVars
  <2> QED
    BY <1>12, <2>1, <2>2, <2>3, AttemptKept
<1>p. /\ provider \in [Intents -> {"absent", "pending", "approved", "captured", "refused"}]
      /\ charged \in [Intents -> Nat]
  BY <1>t DEF TypeOK
<1>a. /\ api \in [Intents -> {"idle", "calling", "ordered", "invalid", "refused", "unknown", "done"}]
      /\ returning \in [Intents -> {"idle", "checked", "captured"}]
  BY <1>t DEF TypeOK
<1>13. ASSUME NEW w \in Workers, ResolveFails(w) \/ LoseCharge(w) PROVE TypeInv'
  <2>1. PICK result \in ProviderResultState : Conclude(w, result, FALSE)
    BY <1>13, ErrorTypes, Zenon DEF ResolveFails, LoseCharge
  <2> QED
    BY <1>p, <1>12, <1>13, <2>1, Zenon DEF ResolveFails, LoseCharge, providerVars
<1>14. ASSUME NEW w \in Workers, CallCharge(w) PROVE TypeInv'
  <2> DEFINE i == current[w][1]
  <2>1. i \in Intents
    BY <1>14, <1>c DEF CallCharge
  <2>2. charged' \in [Intents -> Nat]
    BY <1>p, <1>14, <2>1 DEF CallCharge
  <2>3. provider' \in [Intents -> {"absent", "pending", "approved", "captured", "refused"}]
    BY <1>p, <1>14, <2>1 DEF CallCharge
  <2>4. provider'[i] \in {"absent", "pending", "approved", "captured", "refused"}
    BY <2>1, <2>3
  <2>5. UNCHANGED faults \/ Fault
    BY <1>14, Zenon DEF CallCharge
  <2>6. \/ \E r \in Report(i, provider'[i]) : Conclude(w, r, TRUE)
        \/ Conclude(w, StateForProviderError("temporary", TRUE), FALSE)
    BY <1>14, Zenon DEF CallCharge
  <2>7. PICK result \in ProviderResultState, ref \in BOOLEAN : Conclude(w, result, ref)
    BY <2>1, <2>4, <2>6, ReportTypes, ErrorTypes, Zenon
  <2> QED
    <3>1. pc[w] = "call" /\ UNCHANGED <<dbVars, link, apiVars>>
      BY <1>14 DEF CallCharge
    <3> QED
      BY <1>12, <2>2, <2>3, <2>5, <2>7, <3>1
<1>15. ASSUME NEW w \in Workers, QueryFails(w) PROVE TypeInv'
  <2>1. current[w][1] \in Intents
    BY <1>15, <1>c DEF QueryFails
  <2>2. PICK ref \in BOOLEAN : Conclude(w, "unknown", ref)
    BY <1>15, Zenon DEF QueryFails
  <2>3. provider' \in [Intents -> {"absent", "pending", "approved", "captured", "refused"}]
    BY <1>p, <1>15, <2>1, Zenon DEF QueryFails, OrderExists
  <2>4. "unknown" \in ProviderResultState
    BY DEF ProviderResultState, IntentState
  <2> QED
    BY Zenon, <1>p, <1>12, <1>15, <2>2, <2>3, <2>4 DEF QueryFails
<1>16. ASSUME NEW w \in Workers, CallQuery(w) PROVE TypeInv'
  <2>1. current[w][1] \in Intents
    BY Zenon, <1>16, <1>c DEF CallQuery
  <2>2. PICK r \in Report(current[w][1], provider[current[w][1]]) :
          Conclude(w, r, provider[current[w][1]] # "absent")
    BY <1>16 DEF CallQuery
  <2>3. r \in ProviderResultState
    BY <1>p, <2>1, ReportTypes
  <2> QED
    BY <1>p, <1>12, <1>16, <2>2, <2>3, Zenon DEF CallQuery, providerVars
<1>17. ASSUME NEW w \in Workers, QueryUnreferencedOrder(w) PROVE TypeInv'
  <2> DEFINE i == current[w][1]
  <2>1. i \in Intents
    BY <1>17, <1>c DEF QueryUnreferencedOrder
  <2>2. provider' \in [Intents -> {"absent", "pending", "approved", "captured", "refused"}]
    BY <1>p, <1>17, <2>1, Zenon DEF QueryUnreferencedOrder, OrderExists
  <2>3. provider'[i] \in {"absent", "pending", "approved", "captured", "refused"}
    BY <2>1, <2>2
  <2>4. \/ \E r \in Report(i, provider'[i]) :
             Conclude(w, IF r = "requires_action" THEN "failed" ELSE r, TRUE)
        \/ Conclude(w, "failed", FALSE)
    BY <1>17, Zenon DEF QueryUnreferencedOrder
  <2>5. "failed" \in ProviderResultState
    BY DEF ProviderResultState, IntentState
  <2>6. PICK result \in ProviderResultState, ref \in BOOLEAN : Conclude(w, result, ref)
    BY <2>1, <2>3, <2>4, <2>5, ReportTypes, Zenon
  <2> QED
    BY <1>p, <1>12, <1>17, <2>2, <2>6 DEF QueryUnreferencedOrder
<1>18. ASSUME NEW w \in Workers, FinalizeProviderAttempt(w) PROVE TypeInv'
  <2> DEFINE j == current[w]
             i == j[1]
  <2>1. j \in Jobs /\ i \in Intents /\ held[w] \in 1..Len(attempts[i])
    BY <1>18, <1>c DEF FinalizeProviderAttempt
  <2>2. answer[w] \in IntentState /\ answerRef[w] \in BOOLEAN /\ batch[w] \in SUBSET Jobs
    BY <1>t DEF TypeOK, ProviderResultState
  <2>3. WorkerTypes' /\ OthersUntouched(w) /\ pc'[w] \in {"idle", "ready"}
    BY <1>t, <1>18, <2>2, ReturnTypes DEF FinalizeProviderAttempt
  <2>4. /\ attempts' \in [Intents -> Seq(Attempt)]
        /\ \A n \in Intents : Len(attempts'[n]) = Len(attempts[n])
    BY Zenon, <1>t, <1>18, <2>1, MarkedAttempt DEF FinalizeProviderAttempt
  <2>5. /\ state' \in [Intents -> IntentState \cup {"absent"}]
        /\ reference' \in [Intents -> BOOLEAN]
        /\ ledger' \in Seq(Intents)
    BY <1>t, <1>18, <2>1, <2>2, TransitionTypes DEF FinalizeProviderAttempt
  <2>6. jobStatus' \in [Jobs -> {"none", "pending", "leased", "completed"}]
    <3>1. jobStatus' = RescheduledJobs(j, answer[w])
      BY <1>18 DEF FinalizeProviderAttempt
    <3>2. jobStatus \in [Jobs -> {"none", "pending", "leased", "completed"}]
      BY <1>t DEF TypeOK
    <3> QED
      BY <3>1, <3>2, <2>1, Zenon DEF RescheduledJobs, Enqueued
  <2>7. lessee' \in [Jobs -> Workers \cup {NoJob}]
    BY <1>t, <1>18, Zenon DEF FinalizeProviderAttempt, TypeOK
  <2>8. inbox' \in [Intents \X (1..MaxEvents) -> {"absent", "scheduled", "processed"}]
    BY <1>t, <1>18 DEF FinalizeProviderAttempt, TypeOK
  <2>9. TypeOK'
    BY <1>t, <1>18, <2>3, <2>4, <2>5, <2>6, <2>7, <2>8, Zenon
    DEF TypeOK, WorkerTypes, FinalizeProviderAttempt, providerVars, apiVars
  <2> QED
    BY <1>e, <2>3, <2>4, <2>9, MemoryKept DEF TypeInv
<1>19. ASSUME NEW w \in Workers, FinalizeWithoutEffect(w) \/ Crash(w) PROVE TypeInv'
  <2>1. PICK rest \in SUBSET Jobs : Return(w, rest)
    BY <1>t, <1>19 DEF FinalizeWithoutEffect, Crash, Exit, TypeOK
  <2> QED
    BY <1>4, <1>19, <2>1 DEF FinalizeWithoutEffect, Crash
<1>20. ASSUME NEW i \in Intents, CreatePayPalOrder(i) PROVE TypeInv'
  <2>1. provider' \in [Intents -> {"absent", "pending", "approved", "captured", "refused"}]
    BY <1>p, <1>20 DEF CreatePayPalOrder, OrderExists
  <2>2. faults' \in 0..MaxFaults
    BY <1>20, <1>t, FaultTypes DEF CreatePayPalOrder
  <2>3. api' \in [Intents -> {"idle", "calling", "ordered", "invalid", "refused", "unknown", "done"}]
    <3>1. \E to \in {"ordered", "invalid", "unknown", "refused"} : api' = [api EXCEPT ![i] = to]
      BY <1>20 DEF CreatePayPalOrder
    <3> QED
      BY <1>a, <3>1
  <2> QED
    BY <1>t, <1>20, <2>1, <2>2, <2>3
    DEF TypeInv, TypeOK, WorkerMemory, CreatePayPalOrder, dbVars, workerVars
<1>21. ASSUME NEW i \in Intents, RecordPayPalOrder(i) \/ RecordPayPalCapture(i) PROVE TypeInv'
  <2>1. PICK to \in IntentState, ref \in BOOLEAN : TransitionIntent(i, to, ref)
    <3>1. {"requires_action", "succeeded", "failed"} \subseteq IntentState
      BY DEF IntentState
    <3>2. \A kind : \A reached \in BOOLEAN : StateForProviderError(kind, reached) \in IntentState
      BY ErrorTypes DEF ProviderResultState
    <3>3. CASE RecordPayPalCapture(i)
      BY <3>1, <3>3, Zenon DEF RecordPayPalCapture
    <3>4. CASE RecordPayPalOrder(i)
      <4>1. PICK to : TransitionIntent(i, to, api[i] \in {"ordered", "invalid"})
                      /\ to \in {"requires_action", "failed",
                                 StateForProviderError("invalid_request", FALSE),
                                 StateForProviderError("unknown", TRUE)}
        BY <3>4, Zenon DEF RecordPayPalOrder
      <4>2. to \in IntentState
        BY <3>1, <3>2, <4>1, Zenon
      <4>3. (api[i] \in {"ordered", "invalid"}) \in BOOLEAN
        OBVIOUS
      <4> QED
        BY <4>1, <4>2, <4>3, Zenon
    <3> QED
      BY <1>21, <3>3, <3>4
  <2>2. /\ state' \in [Intents -> IntentState \cup {"absent"}]
        /\ reference' \in [Intents -> BOOLEAN]
        /\ ledger' \in Seq(Intents)
    BY <1>t, <2>1, TransitionTypes
  <2>3. link' \in [Intents -> BOOLEAN]
    <3>1. CASE RecordPayPalCapture(i)
      BY <1>t, <3>1 DEF TypeOK, RecordPayPalCapture, providerVars
    <3>2. CASE RecordPayPalOrder(i)
      <4>1. PICK b \in BOOLEAN : link' = [link EXCEPT ![i] = b]
        BY <3>2, Zenon DEF RecordPayPalOrder
      <4> QED
        BY <1>t, <4>1 DEF TypeOK
    <3> QED
      BY <1>21, <3>1, <3>2
  <2>4. CASE RecordPayPalOrder(i)
    BY <1>t, <2>2, <2>3, <2>4 DEF TypeInv, TypeOK, WorkerMemory, RecordPayPalOrder, workerVars
  <2>5. CASE RecordPayPalCapture(i)
    BY <1>t, <2>2, <2>3, <2>5
    DEF TypeInv, TypeOK, WorkerMemory, RecordPayPalCapture, providerVars, workerVars
  <2> QED
    BY <1>21, <2>4, <2>5
<1>22. ASSUME NEW i \in Intents, ApiCrash(i) \/ PayPalReturn(i) \/ ReturnCrash(i) PROVE TypeInv'
  <2>1. faults' \in 0..MaxFaults
    BY <1>22, <1>t, FaultTypes DEF ApiCrash, PayPalReturn, ReturnCrash
  <2>2. /\ api' \in [Intents -> {"idle", "calling", "ordered", "invalid", "refused", "unknown", "done"}]
        /\ returning' \in [Intents -> {"idle", "checked", "captured"}]
    BY <1>a, <1>22 DEF ApiCrash, PayPalReturn, ReturnCrash
  <2>3. UNCHANGED <<dbVars, providerVars, workerVars>>
    BY <1>22 DEF ApiCrash, PayPalReturn, ReturnCrash
  <2> QED
    BY Zenon, <1>t, <2>1, <2>2, <2>3 DEF TypeInv, TypeOK, WorkerMemory, dbVars, providerVars, workerVars
<1>23. ASSUME NEW i \in Intents, CapturePayPalOrder(i) \/ ProviderSettles(i) \/ OrderVoided(i)
       PROVE  TypeInv'
  <2>1. provider' \in [Intents -> {"absent", "pending", "approved", "captured", "refused"}]
    BY <1>p, <1>23 DEF CapturePayPalOrder, ProviderSettles, OrderVoided
  <2>2. returning' \in [Intents -> {"idle", "checked", "captured"}]
    <3>1. CASE CapturePayPalOrder(i)
      BY <1>a, <3>1 DEF CapturePayPalOrder
    <3>2. CASE ProviderSettles(i) \/ OrderVoided(i)
      BY <1>t, <3>2 DEF ProviderSettles, OrderVoided, TypeOK, apiVars
    <3> QED
      BY <1>23, <3>1, <3>2
  <2>3. CASE CapturePayPalOrder(i)
    BY Zenon, <1>t, <2>1, <2>2, <2>3
    DEF TypeInv, TypeOK, WorkerMemory, CapturePayPalOrder, dbVars, workerVars
  <2>4. CASE ProviderSettles(i) \/ OrderVoided(i)
    <3>1. UNCHANGED <<dbVars, charged, link, workerVars, apiVars, faults>>
      BY Zenon, <2>4 DEF ProviderSettles, OrderVoided
    <3> QED
      BY Zenon, <1>t, <2>1, <3>1 DEF TypeInv, TypeOK, WorkerMemory, dbVars, workerVars, apiVars
  <2> QED
    BY <1>23, <2>3, <2>4
<1>24. ASSUME NEW i \in Intents, NEW n \in 1..MaxEvents, RecordWebhook(i, n) PROVE TypeInv'
  BY Zenon, <1>t, <1>24 DEF TypeInv, TypeOK, WorkerMemory, RecordWebhook, Enqueued, Jobs, Reasons,
     providerVars, workerVars, apiVars
<1>25. CASE UNCHANGED vars
  BY <1>t, <1>25 DEF TypeInv, TypeOK, WorkerMemory, vars, dbVars, providerVars, workerVars, apiVars
<1> QED
  BY <1>1, <1>2, <1>3, <1>5, <1>6, <1>7, <1>8, <1>9, <1>10, <1>11, <1>13, <1>14, <1>15, <1>16,
     <1>17, <1>18, <1>19, <1>20, <1>21, <1>22, <1>23, <1>24, <1>25
  DEF Next, Handle, Step

\* All variables keep their types in every reachable state of the payment
\* orchestration, for any intents, workers and bounds.
THEOREM TypeCorrect == Spec => []TypeOK
<1>1. TypeInv => TypeOK
  BY DEF TypeInv
<1> QED
  BY <1>1, InitTypeInv, NextTypeInv, PTL DEF Spec
=============================================================================
