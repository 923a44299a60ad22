---------------------------- MODULE CloudClosure ----------------------------
(***************************************************************************)
(* The deletion of a cloud (paymentstore/cloud_closure.go and              *)
(* cloud_closure_retirement.go, internal/api/cloud_closure.go, the         *)
(* triggers of migration 055).  The Account Manager prepares, providers    *)
(* acknowledge the revocation of every stored authority, a trusted         *)
(* collector records receipts, and a close command that names one receipt  *)
(* either closes the account or is retired.                                *)
(***************************************************************************)
EXTENDS SettlementCollector

CONSTANT MaxSettlements   \* settlement receipts of one closure

NoClosure == [phase |-> "none", period |-> 0, tasks |-> {}, acked |-> {},
              receipts |-> <<>>, retired |-> {}, completion |-> 0]

ClosurePhase(c, S) == closures[c].phase \in S

\* requireClosureOwnerTx.
ClosureOwner(c) == Responsible(closures[c].period)

\* captureCloudClosureStateTx: the financial digest and the acknowledgments.
ClosureDigest(c) == [state |-> Digest, acked |-> closures[c].acked]

\* Mutant: the local revocation stands in for the provider's.
PrepareWithoutTasks(c) ==
  /\ ClosurePhase(c, {"none"}) /\ account.state = "active" /\ ~Fenced /\ HasOwner
  /\ closures' = [closures EXCEPT ![c] = [NoClosure EXCEPT !.phase = "preparing", !.period = Current]]
  /\ UNCHANGED <<moneyVars, writes, payerVars, periods, handoffs, am>>

\* PrepareCloudClosure: the fence, the providers' tasks, and no local authority
\* left.
PrepareCloudClosure(c) ==
  /\ ClosurePhase(c, {"none"}) /\ account.state = "active" /\ ~Fenced /\ HasOwner
  /\ closures' = [closures EXCEPT ![c] = [NoClosure EXCEPT
        !.phase = "preparing", !.period = Current,
        !.tasks = {m \in Methods : methods[m] # "none"}]]
  /\ LET cut == {m \in Methods : SetupOpen(m)} IN
       /\ setups' = [m \in Methods |-> IF m \in cut THEN "failed" ELSE setups[m]]
       /\ voided' = [m \in Methods |-> IF m \in cut THEN "yes" ELSE voided[m]]
       /\ methods' = [m \in Methods |-> IF methods[m] = "none" THEN "none" ELSE "revoked"]
       /\ IF cut = {} THEN UNCHANGED writes ELSE Digested
  /\ UNCHANGED <<moneyVars, began, periods, handoffs, am>>

\* One acknowledgment stands for those of a method and of its open setup.
RecordCloudClosureRevocation(c, m) ==
  /\ ClosurePhase(c, {"preparing", "canceling"})
  /\ m \in closures[c].tasks \ closures[c].acked
  /\ closures' = [closures EXCEPT ![c].acked = @ \cup {m}]
  /\ UNCHANGED <<moneyVars, writes, payerVars, periods, handoffs, am>>

\* RecordCloudClosureSettlement, with evidence captured at "digest".
RecordCloudClosureSettlement(c, digest, evidence) ==
  /\ ClosurePhase(c, {"preparing"}) /\ ClosureOwner(c)
  /\ digest = ClosureDigest(c) /\ evidence.balance = account.balance
  /\ closures' = [closures EXCEPT ![c].receipts =
       Append(@, [digest |-> digest, evidence |-> Merge(evidence, LocalEvidence), fresh |-> TRUE])]
  /\ UNCHANGED <<moneyVars, writes, payerVars, periods, handoffs, am>>

\* Mutant: acknowledgments are not waited for.
ReadyBeforeAcks(c) ==
  LET last == closures[c].receipts[Len(closures[c].receipts)] IN
  /\ ClosurePhase(c, {"preparing"}) /\ ClosureOwner(c) /\ account.state = "active"
  /\ closures[c].receipts # <<>> /\ last.fresh /\ last.digest = ClosureDigest(c)
  /\ CloudClosureBlockers(Merge(last.evidence, LocalEvidence)) = {}

\* Mutant: a positive balance does not hold up the closure.
ReadyWithCredit(c) ==
  LET last == closures[c].receipts[Len(closures[c].receipts)] IN
  /\ ClosurePhase(c, {"preparing"}) /\ ClosureOwner(c) /\ account.state = "active"
  /\ closures[c].receipts # <<>> /\ last.fresh /\ last.digest = ClosureDigest(c)
  /\ OwnershipTransferBlockers(Merge(last.evidence, LocalEvidence)) = {}
  /\ closures[c].acked = closures[c].tasks

\* cloudClosureStatusTx: the latest receipt is live and nothing blocks.
Ready(c) ==
  LET last == closures[c].receipts[Len(closures[c].receipts)] IN
  /\ ClosurePhase(c, {"preparing"}) /\ ClosureOwner(c) /\ account.state = "active"
  /\ closures[c].receipts # <<>> /\ last.fresh /\ last.digest = ClosureDigest(c)
  /\ CloudClosureBlockers(Merge(last.evidence, LocalEvidence)) = {}
  /\ closures[c].acked = closures[c].tasks

\* CloseCloud, by the one command that names receipt i; it may arrive long
\* after it was sent.
CloseCloud(c, i) ==
  /\ Ready(c) /\ i = Len(closures[c].receipts) /\ i \notin closures[c].retired
  /\ closures' = [closures EXCEPT ![c].phase = "closed", ![c].completion = i]
  /\ account' = [account EXCEPT !.state = "closed"]
  /\ periods' = [periods EXCEPT ![closures[c].period].ended = TRUE]
  /\ UNCHANGED <<writes, usage, pay, reversal, payerVars, handoffs, am>>

\* RetireCloudClose: the command with receipt i can no longer close.
RetireCloudClose(c, i) ==
  /\ ClosurePhase(c, {"preparing"}) /\ i \notin closures[c].retired
  /\ closures' = [closures EXCEPT ![c].retired = @ \cup {i}]
  /\ UNCHANGED <<moneyVars, writes, payerVars, periods, handoffs, am>>

CancelCloudClosure(c) ==
  /\ ClosurePhase(c, {"preparing"})
  /\ closures' = [closures EXCEPT ![c].phase = "canceling"]
  /\ UNCHANGED <<moneyVars, writes, payerVars, periods, handoffs, am>>

\* CompleteCloudClosureCancellation: every revocation acknowledged first, and
\* nothing restored.
CompleteCloudClosureCancellation(c) ==
  /\ ClosurePhase(c, {"canceling"}) /\ closures[c].acked = closures[c].tasks
  /\ closures' = [closures EXCEPT ![c].phase = "canceled"]
  /\ UNCHANGED <<moneyVars, writes, payerVars, periods, handoffs, am>>

-----------------------------------------------------------------------------
(* A collector's pass over a closure; the deployment's, not this repository's *)

CaptureClosure(c) ==
  /\ ClosurePhase(c, {"preparing"}) /\ ClosureOwner(c)
  /\ Len(closures[c].receipts) < MaxSettlements
  /\ Capture(c, ClosureDigest(c))

RecordClosure(c) ==
  /\ collector.at = "reconciled" /\ collector.target = c /\ collector.fresh
  /\ collector' = Idle /\ UNCHANGED preflight
  /\ RecordCloudClosureSettlement(c, collector.digest, collector.evidence)

ExpireReceipts ==
  /\ \/ collector.fresh \/ preflight.fresh
     \/ \E c \in Closures : \E i \in DOMAIN closures[c].receipts : closures[c].receipts[i].fresh
  /\ Expire
  /\ closures' = [c \in Closures |-> [closures[c] EXCEPT !.receipts =
       [i \in DOMAIN @ |-> [@[i] EXCEPT !.fresh = FALSE]]]]
  /\ UNCHANGED <<moneyVars, writes, payerVars, periods, handoffs, am>>
=============================================================================
