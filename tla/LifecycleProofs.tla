--------------------------- MODULE LifecycleProofs ---------------------------
(***************************************************************************)
(* Proofs about CloudLifecycle for any owners, payments, reversals,        *)
(* methods, handoffs and closures: receipts stand as long as nothing is    *)
(* written, so a transfer carries the confirmed balance, a closed account  *)
(* is settled, and the advisory answer is never optimistic.                *)
(***************************************************************************)
EXTENDS LifecycleBasisProofs

USE DEF moneyVars, payerVars, collectorVars

-----------------------------------------------------------------------------
(* Where it begins *)

\* Initially there is no owner, no operation and no evidence.
LEMMA InitialLifecycle == Init => LifecycleInv
<1> SUFFICES ASSUME Init PROVE LifecycleInv OBVIOUS
<1>1. MoneyType
  BY CarriedAssumption DEF Init, PaymentRow, ReversalRow, MoneyType
<1>2. SetupType BY DEF Init, SetupType
<1>3. PeriodInv /\ DOMAIN periods = {} BY DEF Init, PeriodInv
<1>4. HandoffType /\ \A h \in Handoffs : handoffs[h] = NoHandoff
  BY Zenon DEF Init, HandoffType, HandoffFields, NoHandoff
<1> USE <1>4
<1>5. ClosureType /\ \A c \in Closures : closures[c] = NoClosure
  BY DEF NoClosure, Closure, Init, ClosureType
<1> USE <1>5
<1>6. FenceInv BY DEF FenceInv, Open, Deleting, NoHandoff, NoClosure
<1>7. ReversalInv BY Zenon DEF Init, ReversalInv, ReversalChargesItsOwner, Allocated
<1>8. AuthorityInv
  BY Zenon DEF Init, AuthorityInv, AuthorityBelongsToOwner, SetupOpen, Deleting, NoClosure
<1>9. PassInv BY IdlePass DEF Init, PassInv
<1>10. ReceiptInv
  BY DEF NoHandoff, NoClosure, Init, NoReceipt, ReceiptFields, ReceiptInv
<1>11. CommitInv
  BY DEF CommitInv, StillUntilDecided, Committing, NoHandoff
<1>12. TransferInv BY <1>3 DEF TransferInv, ConfirmedBalanceTransfers
<1>13. ClosedIsSettled BY DEF Init, ClosedIsSettled
<1> QED BY <1>1, <1>2, <1>3, <1>6, <1>7, <1>8, <1>9, <1>10, <1>11, <1>12, <1>13 DEF LifecycleInv

\* A step that writes nothing keeps it all.
LEMMA LifecycleStutter ==
  ASSUME LifecycleInv, UNCHANGED vars
  PROVE  LifecycleInv'
<1> USE DEF LifecycleInv, vars
<1>1. MoneyType' /\ SetupType' /\ PeriodInv' /\ HandoffType' /\ ClosureType'
  BY DEF MoneyType, SetupType, PeriodInv, HandoffType, ClosureType
<1>2. FenceInv' BY Zenon DEF FenceInv, Open, Deleting, Responsible
<1>3. ReversalInv' BY DEF ReversalInv, ReversalChargesItsOwner, Allocated
<1>4. AuthorityInv'
  BY Zenon, CurrentSame DEF AuthorityInv, AuthorityBelongsToOwner, SetupOpen, Deleting, Fenced
<1>5. \A e, w, t : Stands(e, w, t)' <=> Stands(e, w, t)
  BY DEF Stands, Vouches, Owed, Live, Started
<1>6. PassInv' /\ ReceiptInv'
  <2>1. PassInv' BY <1>5 DEF PassInv, Pass, Owed, Live, Started, Taken
  <2> QED BY Zenon, <2>1, <1>5 DEF ReceiptInv
<1>7. CommitInv' BY Zenon DEF CommitInv, StillUntilDecided, Committing, BothConfirmed, ReceiptsAt, SetupOpen
<1>8. TransferInv' BY DEF TransferInv, ConfirmedBalanceTransfers, ReceiptsAt
<1>9. ClosedIsSettled' BY Zenon DEF ClosedIsSettled, ClosurePhase, SetupOpen
<1> QED BY <1>1, <1>2, <1>3, <1>4, <1>6, <1>7, <1>8, <1>9

-----------------------------------------------------------------------------
(* Receipts *)

\* A receipt vouches for the account when it is recorded: mergeSettlementEvidence
\* takes the balance from Billing's own rows.
LEMMA RecordedStands ==
  ASSUME MoneyType, PassInv, collector.at = "reconciled", Live(collector.target),
         Taken(collector) = writes, NEW e, e = Merge(collector.evidence, LocalEvidence)
  PROVE  Stands(e, writes, collector.target)
  BY DEF PassInv, Merge, LocalEvidence, Pass, Stands, Vouches, MoneyType

\* Receipts of transfers: RecordHandoffSettlement adds one, nothing else does.
LEMMA HandoffReceiptStep ==
  ASSUME MoneyType, PeriodInv, HandoffType, ClosureType, FenceInv, PassInv, ReceiptInv, Next,
         NEW x \in Handoffs, NEW r \in handoffs'[x].receipts
  PROVE  Stands(r.evidence, r.digest.writes, x)'
<1>1. EvidenceStep BY EvidenceKept
<1>2. x \in Targets BY DEF Targets
<1>3. CASE r \in handoffs[x].receipts BY <1>1, <1>2, <1>3, StandsOn DEF ReceiptInv
<1> USE <1>3
<1>4. CASE Handoff
  <2>1. handoffs'[x].receipts \subseteq handoffs[x].receipts
    <3>1. ASSUME NEW h \in Handoffs, NEW u \in Users, PrepareOwnershipHandoff(h, u)
          PROVE  handoffs'[x].receipts \subseteq handoffs[x].receipts
      BY <3>1, Preparing DEF Others
    <3>2. ASSUME NEW h \in Handoffs, NEW u, NEW v, NEW b, ConfirmHandoffSnapshot(h, u, v, b)
          PROVE  handoffs'[x].receipts = handoffs[x].receipts
      BY <3>2, Confirming DEF Others, Kept
    <3>3. ASSUME NEW h \in Handoffs, NEW v, AskForCommit(h, v) \/ Decide(h, v)
          PROVE  handoffs'[x].receipts = handoffs[x].receipts
      BY <3>3 DEF AskForCommit, Decide
    <3>4. ASSUME NEW h \in Handoffs, NEW v, AuthorizeHandoffCommit(h, v)
          PROVE  handoffs'[x].receipts = handoffs[x].receipts
      BY <3>4, Authorizing DEF Others, Kept
    <3>5. ASSUME NEW h \in Handoffs, \/ RecordCommittedDecision(h) \/ FinalizeOwnershipHandoff(h)
                                   \/ BeginOwnershipHandoffAbort(h) \/ CompleteOwnershipHandoffAbort(h)
          PROVE  handoffs'[x].receipts = handoffs[x].receipts
      <4>1. PICK to : handoffs' = [handoffs EXCEPT ![h].phase = to, ![h].version = @ + 1]
        BY Zenon, <3>5 DEF RecordCommittedDecision, FinalizeOwnershipHandoff, BeginOwnershipHandoffAbort,
                    CompleteOwnershipHandoffAbort
      <4> QED BY Zenon, <4>1, Advancing DEF Others, Kept
    <3> QED BY <1>4, <3>1, <3>2, <3>3, <3>4, <3>5
            DEF Handoff, prepareHandoff, confirmHandoff, authorizeHandoffCommit, finalizeHandoff,
                beginHandoffAbort
  <2> QED BY <2>1
<1>5. ASSUME NEW h \in Handoffs, RecordHandoff(h) PROVE Stands(r.evidence, r.digest.writes, x)'
  <2> DEFINE d == collector.digest
             e == collector.evidence
             new == [version |-> handoffs[h].version + 1, digest |-> Digest,
                     evidence |-> Merge(e, LocalEvidence)]
  <2>1. /\ RecordHandoffSettlement(h, d, e) /\ d = Digest /\ collector.at = "reconciled"
        /\ collector.target = h /\ Live(h)
    BY Zenon, <1>5, TargetAssumption DEF RecordHandoff, RecordHandoffSettlement, Live, Phase
  <2> USE <2>1
  <2>2. handoffs'[h].receipts = handoffs[h].receipts \cup {new} /\ Others(h)
    <3> HIDE DEF d, e
    <3> QED BY Recording
  <2>3. CASE r = new /\ x = h
    BY <2>3, TargetAssumption, RecordedStands, <1>1, <1>2, StandsOn DEF Taken, Digest
  <2> HIDE DEF new
  <2>4. r \in handoffs[x].receipts \/ (r = new /\ x = h) BY <2>2 DEF Others
  <2> QED BY <2>3, <2>4
<1>6. ASSUME UNCHANGED handoffs PROVE Stands(r.evidence, r.digest.writes, x)' BY <1>6
<1>7. ASSUME NEW c \in Closures, RecordClosure(c) PROVE UNCHANGED handoffs
  BY <1>7 DEF RecordClosure, RecordCloudClosureSettlement
<1> QED BY <1>4, <1>5, <1>6, <1>7, ProvisionFrame, MoneyFrame, AuthorityFrame, ClosingFrame, CollectFrame,
           ExpireFrame DEF Next, Record

\* Receipts of deletions: RecordCloudClosureSettlement adds one, and expiry
\* leaves the evidence alone.
LEMMA ClosureReceiptStep ==
  ASSUME MoneyType, PeriodInv, HandoffType, ClosureType, FenceInv, PassInv, ReceiptInv, Next,
         NEW x \in Closures, NEW j \in DOMAIN closures'[x].receipts, NEW r, r = closures'[x].receipts[j]
  PROVE  Stands(r.evidence, r.digest.state.writes, x)'
<1>1. EvidenceStep BY EvidenceKept
<1>2. x \in Targets BY DEF Targets
<1>3. ASSUME NEW q, j \in DOMAIN closures[x].receipts, q = closures[x].receipts[j],
             r.evidence = q.evidence, r.digest = q.digest
      PROVE  Stands(r.evidence, r.digest.state.writes, x)'
  BY <1>3, <1>1, <1>2, StandsOn DEF ReceiptInv
<1> USE <1>3
<1>4. ASSUME closures'[x].receipts = closures[x].receipts
      PROVE  Stands(r.evidence, r.digest.state.writes, x)'
  BY <1>4
<1> USE <1>4
<1>5. CASE Closing BY <1>5, NoReceiptWritten
<1>6. ASSUME NEW c \in Closures, RecordClosure(c) PROVE Stands(r.evidence, r.digest.state.writes, x)'
  <2> DEFINE old == closures[c].receipts
             new == [digest |-> ClosureDigest(c), evidence |-> Merge(collector.evidence, LocalEvidence),
                     fresh |-> TRUE]
  <2>1. /\ closures' = [closures EXCEPT ![c].receipts = Append(old, new)]
        /\ collector.digest = ClosureDigest(c) /\ collector.at = "reconciled"
        /\ collector.target = c /\ Live(c)
    BY <1>6, TargetAssumption DEF RecordClosure, RecordCloudClosureSettlement, Live, ClosurePhase
  <2> USE <2>1
  <2>2. CASE x = c /\ r = new
    BY <2>2, RecordedStands, <1>1, <1>2, StandsOn DEF Taken, ClosureDigest, Digest
  <2> HIDE DEF new
  <2>3. /\ x # c => closures'[x].receipts = closures[x].receipts
        /\ closures'[c].receipts = Append(old, new) /\ old \in Seq(ClosureReceipt)
    BY DEF ClosureType, Closure
  <2>4. CASE x = c
    <3> USE <2>4
    <3> HIDE DEF old
    <3>1. r = new \/ (j \in DOMAIN old /\ r = old[j]) BY <2>3
    <3> QED BY <2>2, <3>1 DEF old
  <2> QED BY <2>3, <2>4
<1>7. CASE ExpireReceipts
  <2> DEFINE old == closures[x].receipts
  <2>1. closures'[x].receipts = [i \in DOMAIN old |-> [old[i] EXCEPT !.fresh = FALSE]]
    BY Zenon, <1>7 DEF ExpireReceipts, ClosureType, Closure
  <2>2. j \in DOMAIN old /\ r = [old[j] EXCEPT !.fresh = FALSE] BY <2>1
  <2> USE <2>2
  <2>3. old[j] \in ClosureReceipt BY DEF ClosureType, Closure
  <2>4. r.evidence = old[j].evidence /\ r.digest = old[j].digest BY <2>3 DEF ClosureReceipt
  <2> QED BY <2>4
<1>8. ASSUME NEW h \in Handoffs, RecordHandoff(h) PROVE UNCHANGED closures
  BY Zenon, <1>8 DEF RecordHandoff, RecordHandoffSettlement
<1> QED BY <1>5, <1>6, <1>7, <1>8, ProvisionFrame, MoneyFrame, AuthorityFrame, HandoffFrame,
           CollectFrame DEF Next, Record

\* The preflight receipt (RecordCloudPreflightEvidence).
LEMMA PreflightStep ==
  ASSUME MoneyType, PeriodInv, HandoffType, ClosureType, FenceInv, PassInv, ReceiptInv, Next,
         NEW r, r = preflight', r.fresh
  PROVE  Stands(r.evidence, r.digest.writes, "preflight")'
<1>1. EvidenceStep BY EvidenceKept
<1>2. "preflight" \in Targets /\ Live("preflight") BY TargetAssumption DEF Targets, Live
<1> USE <1>2
<1>3. CASE UNCHANGED preflight BY <1>1, <1>3, StandsOn DEF ReceiptInv
<1>4. CASE RecordPreflight
  BY <1>4, TargetAssumption, RecordedStands, <1>1, StandsOn, <1>3 DEF RecordPreflight, Taken, Digest
<1>5. CASE ExpireReceipts
  BY <1>5 DEF ExpireReceipts, Expire, ReceiptInv, ReceiptFields
<1> QED BY Zenon, <1>3, <1>4, <1>5 DEF Next, Collect, Capture, CapturePreflight, CaptureHandoff, CaptureClosure,
           Attest, Reconcile, Fail, Record, RecordHandoff, RecordClosure

\* Every receipt stands, of transfers, of deletions and of the preflight.
LEMMA ReceiptStep ==
  ASSUME MoneyType, PeriodInv, HandoffType, ClosureType, FenceInv, PassInv, ReceiptInv, Next
  PROVE  ReceiptInv'
<1>1. DOMAIN preflight' = ReceiptFields
  BY Zenon DEF ReceiptInv, RecordPreflight, ReceiptFields, ExpireReceipts, Expire, Next, Collect, Capture,
     CapturePreflight, CaptureHandoff, CaptureClosure, Attest, Reconcile, Fail, Record, RecordHandoff,
     RecordClosure
<1>2. \A x \in Handoffs : \A r \in handoffs'[x].receipts : Stands(r.evidence, r.digest.writes, x)'
  BY HandoffReceiptStep
<1>3. \A x \in Closures : \A r \in {closures'[x].receipts[i] : i \in DOMAIN closures'[x].receipts} :
        Stands(r.evidence, r.digest.state.writes, x)'
  BY ClosureReceiptStep
<1>4. \A r \in {preflight'} : r.fresh => Stands(r.evidence, r.digest.writes, "preflight")'
  BY PreflightStep
<1> QED BY <1>1, <1>2, <1>3, <1>4 DEF ReceiptInv

-----------------------------------------------------------------------------
(* Commit *)

\* The phase moves on and the rest of the row stays.
Moved(h) ==
  /\ Kept(h) /\ handoffs'[h].confirmed = handoffs[h].confirmed /\ handoffs'[h].grant = handoffs[h].grant
  /\ \/ handoffs[h].phase = "commit_authorized" /\ handoffs'[h].phase \in {"finalizing", "abort_pending"}
     \/ handoffs[h].phase \in {"preparing", "prepared"} /\ handoffs'[h].phase = "abort_pending"
     \/ handoffs[h].phase = "finalizing" /\ handoffs'[h].phase = "finalized"
     \/ handoffs[h].phase = "abort_pending" /\ handoffs'[h].phase = "aborted"

\* What a step may do to the row of a transfer.
RowStep(h) ==
  \/ handoffs'[h] = handoffs[h]
  \/ /\ handoffs[h].phase = "none" /\ handoffs'[h].phase = "preparing" /\ handoffs'[h].grant = None
  \/ /\ handoffs[h].phase \in {"preparing", "prepared"} /\ handoffs'[h].phase \in {"preparing", "prepared"}
     /\ handoffs'[h].grant = handoffs[h].grant
  \/ \E v : AuthorizeHandoffCommit(h, v)
  \/ Moved(h)

\* A transfer goes through its phases in order, and its grant is written once
\* (handoff.go, handoff_commit.go).
LEMMA HandoffRows ==
  ASSUME MoneyType, PeriodInv, HandoffType, Next, NEW x \in Handoffs PROVE RowStep(x)
<1>1. ASSUME NEW h \in Handoffs, NEW u, PrepareOwnershipHandoff(h, u) PROVE RowStep(x)
  BY <1>1, Preparing DEF RowStep, Others
<1>2. ASSUME NEW h \in Handoffs, NEW u, NEW v, NEW b, ConfirmHandoffSnapshot(h, u, v, b) PROVE RowStep(x)
  BY <1>2, Confirming DEF RowStep, Others, Phase
<1>3. ASSUME NEW h \in Handoffs, NEW v, AuthorizeHandoffCommit(h, v) PROVE RowStep(x)
  BY <1>3, Authorizing DEF RowStep, Others
<1>4. ASSUME NEW h \in Handoffs, \/ RecordCommittedDecision(h) \/ FinalizeOwnershipHandoff(h)
                               \/ BeginOwnershipHandoffAbort(h) \/ CompleteOwnershipHandoffAbort(h)
      PROVE  RowStep(x)
  <2>1. PICK to \in {"finalizing", "finalized", "abort_pending", "aborted"} :
          /\ handoffs' = [handoffs EXCEPT ![h].phase = to, ![h].version = @ + 1]
          /\ \/ handoffs[h].phase = "commit_authorized" /\ to \in {"finalizing", "abort_pending"}
             \/ handoffs[h].phase \in {"preparing", "prepared"} /\ to = "abort_pending"
             \/ handoffs[h].phase = "finalizing" /\ to = "finalized"
             \/ handoffs[h].phase = "abort_pending" /\ to = "aborted"
    BY <1>4 DEF RecordCommittedDecision, FinalizeOwnershipHandoff, BeginOwnershipHandoffAbort,
                CompleteOwnershipHandoffAbort, Phase
  <2>2. /\ Others(h) /\ Kept(h) /\ handoffs'[h].phase = to
        /\ handoffs'[h].confirmed = handoffs[h].confirmed /\ handoffs'[h].grant = handoffs[h].grant
    BY Zenon, <2>1, Advancing
  <2>3. Moved(h) BY <2>1, <2>2 DEF Moved
  <2> QED BY <2>2, <2>3 DEF RowStep, Others
<1>5. ASSUME NEW h \in Handoffs, RecordHandoff(h) PROVE RowStep(x)
  BY <1>5, Recording DEF RecordHandoff, RowStep, Others, Phase
<1>6. ASSUME UNCHANGED handoffs PROVE RowStep(x) BY <1>6 DEF RowStep
<1> USE <1>6
<1>7. ASSUME NEW h \in Handoffs, NEW v, AskForCommit(h, v) \/ Decide(h, v) PROVE RowStep(x)
  BY <1>7 DEF AskForCommit, Decide
<1>8. CASE Handoff
  BY <1>1, <1>2, <1>3, <1>4, <1>7, <1>8
  DEF Handoff, prepareHandoff, confirmHandoff, authorizeHandoffCommit, finalizeHandoff, beginHandoffAbort
<1>9. CASE Record BY <1>5, <1>9 DEF Record, RecordClosure, RecordCloudClosureSettlement
<1> QED BY <1>8, <1>9, ProvisionFrame, MoneyFrame, AuthorityFrame, ClosingFrame, CollectFrame,
           ExpireFrame DEF Next

\* While a decision is carried out, and on a closed account, nothing moves but
\* usage that the producer measures for the next owner: the barrier refuses
\* settlement, captures and debits, and the fence new payments and setups.
LEMMA Frozen ==
  ASSUME MoneyType, SetupType, PeriodInv, ReversalInv, Barred, Fenced \/ account.state # "active", Next
  PROVE  /\ account'.balance = account.balance
         /\ UNCHANGED usage \/ (account.state = "active" /\ usage'.late)
         /\ \A p \in Payments : pay'[p].state = "open" => pay[p].state = "open"
         /\ \A m \in Methods : SetupOpen(m)' => SetupOpen(m)
<1> DEFINE Still == /\ account'.balance = account.balance
                    /\ UNCHANGED usage \/ (account.state = "active" /\ usage'.late)
                    /\ \A p \in Payments : pay'[p].state = "open" => pay[p].state = "open"
           Closed == \A m \in Methods : SetupOpen(m)' => SetupOpen(m)
<1>1. ASSUME NEW r \in Reversals, NEW p \in Payments, Allocate(r, p, Classify(p)) PROVE Still
  BY <1>1, Allocating, Classified
<1>2. CASE Money
  <2> USE <1>2
  <2>1. ASSUME ProduceUsage PROVE Still
    BY <2>1 DEF ProduceUsage
  <2>2. ~SettleUsage BY DEF SettleUsage
  <2>3. ASSUME NEW p \in Payments, \/ StartPayment(p) \/ CapturePayment(p) \/ FailPayment(p) \/ RecordWebhook(p)
               \/ \E k \in DOMAIN periods : BindHistoricalPaymentResponsibility(p, k)
        PROVE  Still
    BY <2>3 DEF StartPayment, CapturePayment, FailPayment, Concluded, RecordWebhook,
       BindHistoricalPaymentResponsibility, MoneyType, PaymentRow
  <2>4. ASSUME NEW r \in Reversals, ResolveProviderReversal(r) PROVE Still
    BY <1>1, <2>4 DEF ResolveProviderReversal, ReversalInv
  <2>5. Still
    BY <1>1, <2>1, <2>2, <2>3, <2>4 DEF Money, RecordProviderReversal
  <2> QED BY <2>5, MoneyFrame DEF SetupOpen
<1>3. CASE Authority
  BY <1>3, AuthorityFrame DEF BeginPaymentMethodSetup, Authority, RevokePaymentMethod,
     CompletePaymentMethodSetup, SetupOpen, SetupType
<1>4. CASE Handoff
  BY Zenon, <1>4, HandoffFrame DEF PrepareOwnershipHandoff, FinalizeOwnershipHandoff, SetupOpen
<1>5. CASE Closing
  BY Zenon, <1>5, ClosingFrame DEF PrepareCloudClosure, SetupOpen
<1>6. CASE Provision BY <1>6, ProvisionFrame DEF SetupOpen
<1>7. CASE Collect \/ Record \/ ExpireReceipts
  BY <1>7, CollectFrame, RecordFrame, ExpireFrame DEF SetupOpen
<1> QED BY <1>2, <1>3, <1>4, <1>5, <1>6, <1>7 DEF Next
\* What evidence without blockers says of Billing's own rows
\* (mergeSettlementEvidence, ownershipTransferBlockers, cloudClosureBlockers).
LEMMA Unblocked ==
  ASSUME MoneyType, NEW e, OwnershipTransferBlockers(Merge(e, LocalEvidence)) = {}
  PROVE  /\ "usage" \in e.complete /\ OpenWork = {} /\ account.balance >= 0
         /\ usage.stage # "invoiced"
         /\ \A p \in Payments : pay[p].state # "open"
         /\ \A m \in Methods : ~SetupOpen(m)
<1>1. "usage" \in e.complete /\ OpenWork = {}
  BY DEF OwnershipTransferBlockers, Merge, LocalEvidence, Checks
<1>2. ~(account.balance < 0)
  BY DEF OwnershipTransferBlockers, Merge, LocalEvidence
<1>3. account.balance \in Int BY DEF MoneyType
<1> QED BY <1>1, <1>2, <1>3 DEF OpenWork

\* A deletion also asks that nothing is left on the balance.
LEMMA UnblockedClosure ==
  ASSUME MoneyType, NEW e, CloudClosureBlockers(Merge(e, LocalEvidence)) = {}
  PROVE  OwnershipTransferBlockers(Merge(e, LocalEvidence)) = {} /\ account.balance = 0
<1>1. OwnershipTransferBlockers(Merge(e, LocalEvidence)) = {} BY DEF CloudClosureBlockers
<1>2. ~(account.balance > 0) BY DEF CloudClosureBlockers, Merge, LocalEvidence
<1>3. account.balance \in Int BY DEF MoneyType
<1> QED BY <1>1, <1>2, <1>3, Unblocked

\* What the account is like when a commit is authorized, or its decision is
\* carried out, on a snapshot with balance b.
Granted(b) ==
  /\ b = account.balance
  /\ usage.stage \in {"produced", "accepted", "invoiced"} => usage.late
  /\ \A p \in Payments : pay[p].state # "open"
  /\ \A m \in Methods : ~SetupOpen(m)

\* The snapshot a commit is authorized on is true at that moment: the digest of
\* its receipt is compared again (handoff_commit.go:77-86).
LEMMA GrantedNow ==
  ASSUME MoneyType, ReceiptInv, NEW h \in Handoffs, NEW r \in LiveSnapshot(h)
  PROVE  Granted(r.evidence.balance)
<1>1. /\ r \in handoffs[h].receipts /\ handoffs[h].phase \in {"preparing", "prepared"}
      /\ r.digest = Digest /\ OwnershipTransferBlockers(Merge(r.evidence, LocalEvidence)) = {}
  BY DEF LiveSnapshot, SnapshotAt, ReceiptsAt, Phase
<1> USE <1>1
<1>2. r.digest.writes = writes BY DEF Digest
<1>3. Live(h) BY TargetAssumption DEF Live
<1>4. Vouches(r.evidence, h) BY <1>2, <1>3 DEF ReceiptInv, Stands
<1>5. /\ "usage" \in r.evidence.complete
      /\ \A p \in Payments : pay[p].state # "open"
      /\ \A m \in Methods : ~SetupOpen(m)
  BY Unblocked
<1> QED BY <1>4, <1>5 DEF Granted, Vouches, Owed

\* From the grant to the end of the decision the account stays as it was
\* granted (enforce_billing_handoff_commit_barrier and the fence).
LEMMA GrantedStill ==
  ASSUME MoneyType, SetupType, PeriodInv, ReversalInv, Next,
         NEW h \in Handoffs, Committing(h), NEW b, Granted(b)
  PROVE  Granted(b)'
  BY Frozen DEF Barred, Committing, Fenced, Granted

\* A commit rests on both confirmations of its snapshot, and the account keeps
\* still until it is decided.
LEMMA CommitStep ==
  ASSUME MoneyType, SetupType, PeriodInv, HandoffType, ReversalInv, ReceiptInv, CommitInv, Next
  PROVE  CommitInv'
<1> SUFFICES ASSUME NEW h \in Handoffs
             PROVE  /\ handoffs'[h].phase \in {"none", "preparing", "prepared"} => handoffs'[h].grant = None
                    /\ Committing(h)' =>
                         /\ BothConfirmed(h, handoffs[h].grant.snapshot)'
                         /\ \E r \in handoffs'[h].receipts :
                              r.version = handoffs'[h].grant.snapshot /\ Granted(r.evidence.balance)'
  BY DEF CommitInv, StillUntilDecided, Granted, ReceiptsAt
<1> DEFINE Good == \E r \in handoffs[h].receipts :
                     r.version = handoffs[h].grant.snapshot /\ Granted(r.evidence.balance)
<1>0. /\ handoffs[h].phase \in {"none", "preparing", "prepared"} => handoffs[h].grant = None
      /\ Committing(h) => BothConfirmed(h, handoffs[h].grant.snapshot) /\ Good
  BY DEF CommitInv, StillUntilDecided, Granted, ReceiptsAt
<1> USE <1>0
<1>1. ASSUME Committing(h), Kept(h), handoffs'[h].confirmed = handoffs[h].confirmed,
             handoffs'[h].grant = handoffs[h].grant
      PROVE  BothConfirmed(h, handoffs[h].grant.snapshot)' /\ Good'
  <2> USE <1>1
  <2>1. BothConfirmed(h, handoffs[h].grant.snapshot)' BY DEF BothConfirmed, Kept
  <2>2. PICK r \in handoffs[h].receipts :
          r.version = handoffs[h].grant.snapshot /\ Granted(r.evidence.balance)
    OBVIOUS
  <2>3. Granted(r.evidence.balance)' BY <2>2, GrantedStill
  <2> QED BY <2>1, <2>2, <2>3 DEF Kept
<1>2. CASE handoffs'[h] = handoffs[h]
  BY <1>1, <1>2 DEF Kept, Committing
<1>3. ASSUME NEW v, AuthorizeHandoffCommit(h, v)
      PROVE  /\ handoffs'[h].phase = "commit_authorized"
             /\ BothConfirmed(h, handoffs[h].grant.snapshot)' /\ Good'
  <2> USE <1>3
  <2>1. /\ handoffs'[h].phase = "commit_authorized" /\ handoffs'[h].grant.snapshot = v /\ Kept(h)
        /\ handoffs'[h].confirmed = handoffs[h].confirmed /\ BothConfirmed(h, v)
    BY Authorizing
  <2>2. PICK r \in LiveSnapshot(h) : r.version = v BY Authorizing
  <2>3. r \in handoffs'[h].receipts BY <2>1 DEF LiveSnapshot, SnapshotAt, ReceiptsAt, Kept
  <2>4. Granted(r.evidence.balance) BY GrantedNow
  <2>5. UNCHANGED <<account, usage, pay, setups>> BY DEF AuthorizeHandoffCommit
  <2>6. Granted(r.evidence.balance)' BY <2>4, <2>5 DEF Granted, SetupOpen
  <2> QED BY <2>1, <2>2, <2>3, <2>6 DEF BothConfirmed, Kept
<1>4. CASE Moved(h)
  BY <1>4, <1>1 DEF Moved, Committing
<1> QED BY Zenon, <1>2, <1>3, <1>4, HandoffRows DEF RowStep, Committing

-----------------------------------------------------------------------------
(* Transfer *)

\* What a finalized transfer h leaves behind for a period that opened with b.
Handed(h, b) ==
  /\ \E r \in ReceiptsAt(h, handoffs[h].grant.snapshot) : r.evidence.balance = b
  /\ b >= 0 /\ BothConfirmed(h, handoffs[h].grant.snapshot)

\* FinalizeOwnershipHandoff hands over the balance both services confirmed.
LEMMA HandedOver ==
  ASSUME MoneyType, HandoffType, CommitInv, NEW h \in Handoffs, FinalizeOwnershipHandoff(h)
  PROVE  handoffs'[h].phase = "finalized" /\ Handed(h, account.balance)' /\ UNCHANGED account
<1>1. /\ handoffs' = [handoffs EXCEPT ![h].phase = "finalized", ![h].version = @ + 1]
      /\ Committing(h) /\ UNCHANGED account
  BY DEF FinalizeOwnershipHandoff, Phase, Committing
<1>2. /\ Kept(h) /\ handoffs'[h].phase = "finalized"
      /\ handoffs'[h].confirmed = handoffs[h].confirmed /\ handoffs'[h].grant = handoffs[h].grant
  BY Zenon, <1>1, Advancing
<1>3. account.balance >= 0 BY DEF FinalizeOwnershipHandoff
<1>4. Handed(h, account.balance) BY <1>1, <1>3 DEF CommitInv, StillUntilDecided, Handed
<1> QED BY Zenon, <1>1, <1>2, <1>4 DEF Handed, Kept, ReceiptsAt, BothConfirmed

\* A finalized transfer is never written again, so what it handed over stays
\* on record (handoff_commit.go:178-195).
LEMMA TransferStep ==
  ASSUME MoneyType, PeriodInv, HandoffType, FenceInv, CommitInv, TransferInv, Next
  PROVE  TransferInv'
<1> DEFINE Good(k) == periods[k].by # None =>
                        /\ handoffs[periods[k].by].phase = "finalized"
                        /\ Handed(periods[k].by, periods[k].opening)
<1> SUFFICES \A k \in DOMAIN periods' : Good(k)'
  BY Zenon DEF TransferInv, ConfirmedBalanceTransfers, Handed, BothConfirmed
<1>0. \A k \in DOMAIN periods : Good(k) /\ periods[k].by \in Handoffs \cup {None}
  <2>1. \A k \in DOMAIN periods : periods[k] \in Period BY DEF PeriodInv
  <2>2. \A k \in DOMAIN periods : periods[k].by \in Handoffs \cup {None} BY <2>1 DEF Period
  <2> QED BY <2>2 DEF TransferInv, ConfirmedBalanceTransfers, Handed, BothConfirmed
<1>1. ASSUME NEW k \in DOMAIN periods, periods'[k].by = periods[k].by,
             periods'[k].opening = periods[k].opening
      PROVE  Good(k)'
  <2> USE <1>1
  <2> SUFFICES ASSUME periods[k].by # None
               PROVE  Good(k)'
    OBVIOUS
  <2>1. PICK h \in Handoffs : h = periods[k].by BY <1>0
  <2>2. handoffs[h].phase = "finalized" /\ Handed(h, periods[k].opening) BY <1>0, <2>1
  <2> USE <2>2
  <2>3. handoffs'[h] = handoffs[h]
    BY HandoffRows, Authorizing DEF RowStep, Moved, Phase
  <2>4. Handed(h, periods[k].opening)' BY <2>3 DEF Handed, ReceiptsAt, BothConfirmed
  <2> QED BY <2>1, <2>3, <2>4
<1> USE <1>1
<1>2. CASE UNCHANGED periods BY <1>2
<1>3. CASE Provision
  <2>1. PICK u : periods' = <<OpenPeriod(u, 0, None)>>
    BY <1>3 DEF Provision, BootstrapBrandCloud, InitializeResponsibility
  <2> QED BY <2>1 DEF OpenPeriod
<1>4. ASSUME NEW h \in Handoffs, FinalizeOwnershipHandoff(h) PROVE \A k \in DOMAIN periods' : Good(k)'
  <2>1. /\ periods' \in Seq(Period) /\ periods \in Seq(Period) /\ Len(periods') = Len(periods) + 1
        /\ periods'[Len(periods')] = OpenPeriod(handoffs[h].target, account.balance, h)
    BY <1>4, Succession DEF PeriodInv
  <2>2. \A k \in DOMAIN periods : Good(k)' BY <1>4, Succession
  <2>3. periods'[Len(periods')].by = h /\ periods'[Len(periods')].opening = account.balance
    BY <2>1 DEF OpenPeriod
  <2>4. Good(Len(periods))' BY <1>4, <2>3, HandedOver
  <2> QED BY <2>1, <2>2, <2>4
<1>5. ASSUME NEW c \in Closures, NEW i, CloseCloud(c, i) PROVE \A k \in DOMAIN periods' : Good(k)'
  BY <1>5, EndPeriod DEF CloseCloud, Ready, ClosureOwner, Responsible, PeriodInv
<1> QED BY <1>2, <1>3, <1>4, <1>5, PeriodSteps

-----------------------------------------------------------------------------
(* Closure *)

\* A closed account came to be so by CloseCloud, and its closure is not written
\* again (cloud_closure.go:449-521).
LEMMA ClosureRows ==
  ASSUME MoneyType, PeriodInv, HandoffType, ClosureType, PassInv, Next,
         NEW x \in Closures, closures'[x].phase = "closed"
  PROVE  \/ \E i \in DOMAIN closures[x].receipts : CloseCloud(x, i)
         \/ /\ closures[x].phase = "closed" /\ closures'[x].acked = closures[x].acked
            /\ closures'[x].retired = closures[x].retired
            /\ closures'[x].completion = closures[x].completion
<1> DEFINE Same == /\ closures[x].phase = "closed" /\ closures'[x].acked = closures[x].acked
                   /\ closures'[x].retired = closures[x].retired
                   /\ closures'[x].completion = closures[x].completion
<1>1. CASE UNCHANGED closures BY <1>1
<1>2. ASSUME NEW c \in Closures, PrepareCloudClosure(c) PROVE Same
  BY <1>2, Deletion
<1>3. ASSUME NEW c \in Closures, Further(c)
      PROVE  Same \/ \E i \in DOMAIN closures[x].receipts : CloseCloud(x, i)
  <2>1. PICK row : Rewritten(c, row) BY <1>3, ClosingRow
  <2> QED BY <2>1 DEF Rewritten, ClosureType
<1>4. ASSUME NEW c \in Closures, RecordClosure(c) PROVE Same
  BY <1>4 DEF RecordClosure, RecordCloudClosureSettlement, ClosurePhase, ClosureType, Closure
<1>6. CASE ExpireReceipts
  BY <1>6 DEF ExpireReceipts, ClosureType, Closure
<1>7. CASE Closing BY Zenon, <1>2, <1>3, <1>7 DEF Closing, Further
<1>5. CASE Record BY Zenon, <1>1, <1>4, <1>5 DEF Record, RecordHandoff, RecordHandoffSettlement
<1> QED BY <1>1, <1>5, <1>6, <1>7, ProvisionFrame, MoneyFrame, AuthorityFrame, HandoffFrame, CollectFrame
        DEF Next

\* What CloseCloud finds: the last receipt stands, nothing is open, and every
\* provider acknowledged (cloudClosureStatusTx).
LEMMA ClosedNow ==
  ASSUME MoneyType, ClosureType, FenceInv, AuthorityInv, ReceiptInv, NEW c \in Closures, Ready(c)
  PROVE  /\ account.balance = 0 /\ usage.stage \in {"none", "settled"}
         /\ \A p \in Payments : pay[p].state # "open"
         /\ \A m \in Methods : ~SetupOpen(m) /\ methods[m] \in {"none", "revoked"}
         /\ {m \in Methods : methods[m] # "none"} = closures[c].acked
         /\ \A x \in Closures : closures[x].phase = "closed" => x = c
<1> DEFINE last == closures[c].receipts[Len(closures[c].receipts)]
<1>1. /\ closures[c].phase = "preparing" /\ closures[c].receipts # <<>>
      /\ last.digest = ClosureDigest(c) /\ closures[c].acked = closures[c].tasks
      /\ CloudClosureBlockers(Merge(last.evidence, LocalEvidence)) = {}
  BY Zenon DEF Ready, ClosurePhase
<1> USE <1>1
<1>2. Len(closures[c].receipts) \in DOMAIN closures[c].receipts
  BY DEF ClosureType, Closure
<1>3. PICK r : r = last OBVIOUS
<1> USE <1>3
<1>4. r.digest.state.writes = writes BY DEF ClosureDigest, Digest
<1>5. Stands(r.evidence, r.digest.state.writes, c) BY <1>2 DEF ReceiptInv
<1>6. /\ OwnershipTransferBlockers(Merge(r.evidence, LocalEvidence)) = {} /\ account.balance = 0
  BY UnblockedClosure
<1> USE <1>6
<1> HIDE DEF last
<1>7. ~Owed(c)
  BY TargetAssumption, Unblocked, <1>4, <1>5 DEF Live, Stands, Vouches
<1>8. usage.stage \in {"none", "settled"}
  BY <1>7, TargetAssumption DEF Owed, MoneyType
<1>9. Deleting(c) BY DEF Deleting
<1>10. /\ \A m \in Methods : methods[m] \in {"none", "revoked"}
       /\ {m \in Methods : methods[m] # "none"} = closures[c].acked
  BY <1>9 DEF AuthorityInv
<1>11. \A x \in Closures : closures[x].phase = "closed" => x = c
  BY <1>9 DEF FenceInv, Deleting
<1>12. /\ \A p \in Payments : pay[p].state # "open"
       /\ \A m \in Methods : ~SetupOpen(m)
  BY Unblocked
<1> QED BY Zenon, <1>8, <1>10, <1>11, <1>12

\* On a closed account no method becomes usable again: setups are open no more,
\* and what is revoked stays so (setups.go, cloud_closure.go).
LEMMA RevokedStay ==
  ASSUME MoneyType, SetupType, PeriodInv, account.state = "closed", Next,
         \A m \in Methods : ~SetupOpen(m) /\ methods[m] \in {"none", "revoked"}
  PROVE  \A m \in Methods : methods'[m] = methods[m]
<1>1. ASSUME NEW m \in Methods,
             \/ BeginPaymentMethodSetup(m) \/ RevokePaymentMethod(m)
             \/ \E result : CompletePaymentMethodSetup(m, result)
      PROVE  UNCHANGED methods
  BY <1>1 DEF BeginPaymentMethodSetup, RevokePaymentMethod, CompletePaymentMethodSetup, SetupOpen
<1>2. ASSUME NEW h, FinalizeOwnershipHandoff(h) PROVE \A m \in Methods : methods'[m] = methods[m]
  BY <1>2 DEF FinalizeOwnershipHandoff
<1>3. /\ \A h, u : ~PrepareOwnershipHandoff(h, u)
      /\ \A c : ~PrepareCloudClosure(c)
  BY DEF PrepareOwnershipHandoff, PrepareCloudClosure
<1> QED BY <1>1, <1>2, <1>3, PayerSteps DEF Authority

\* A closed account is settled, and stays so.
LEMMA ClosedStep ==
  ASSUME MoneyType, SetupType, PeriodInv, HandoffType, ClosureType, FenceInv, ReversalInv, AuthorityInv,
         PassInv, ReceiptInv, ClosedIsSettled, Next
  PROVE  ClosedIsSettled'
<1> SUFFICES ASSUME account'.state = "closed"
             PROVE  ClosedIsSettled'
  BY DEF ClosedIsSettled
<1>1. CASE account.state = "closed"
  <2> USE <1>1
  <2>1. /\ account.balance = 0 /\ usage.stage \in {"none", "settled"}
        /\ \A p \in Payments : pay[p].state # "open"
        /\ \A m \in Methods : ~SetupOpen(m) /\ methods[m] \in {"none", "revoked"}
        /\ \A c \in Closures : closures[c].phase = "closed" =>
             /\ {m \in Methods : methods[m] # "none"} = closures[c].acked
             /\ closures[c].completion \notin closures[c].retired
    BY DEF ClosedIsSettled, ClosurePhase
  <2> USE <2>1
  <2>2. Barred BY DEF Barred
  <2>3. /\ account'.balance = 0 /\ usage'.stage \in {"none", "settled"}
        /\ \A p \in Payments : pay'[p].state # "open"
        /\ \A m \in Methods : ~SetupOpen(m)'
    BY <2>2, Frozen
  <2>4. \A m \in Methods : methods'[m] = methods[m] BY RevokedStay
  <2>5. \A c, i : ~CloseCloud(c, i) BY DEF CloseCloud, Ready
  <2>6. ASSUME NEW c \in Closures, closures'[c].phase = "closed"
        PROVE  /\ {m \in Methods : methods'[m] # "none"} = closures'[c].acked
               /\ closures'[c].completion \notin closures'[c].retired
    <3>1. /\ closures[c].phase = "closed" /\ closures'[c].acked = closures[c].acked
          /\ closures'[c].retired = closures[c].retired
          /\ closures'[c].completion = closures[c].completion
      BY <2>5, <2>6, ClosureRows
    <3>2. {m \in Methods : methods'[m] # "none"} = {m \in Methods : methods[m] # "none"} BY Zenon, <2>4
    <3> QED BY Zenon, <3>1, <3>2
  <2> QED BY <2>3, <2>4, <2>6 DEF ClosedIsSettled, ClosurePhase
<1>2. ASSUME NEW c \in Closures, NEW i, CloseCloud(c, i) PROVE ClosedIsSettled'
  BY <1>2, ClosedNow DEF CloseCloud, MoneyType, ClosureType, Closure, ClosedIsSettled, ClosurePhase,
     SetupOpen
<1>3. CASE account.state # "closed"
  BY Zenon, <1>3, ProvisionFrame, <1>2, PeriodSteps DEF FinalizeOwnershipHandoff
<1> QED BY <1>1, <1>3

-----------------------------------------------------------------------------
(* What holds of every behaviour *)

\* The whole of the account, its operations and its evidence stays in order.
THEOREM LifecycleInvariant == Spec => []LifecycleInv
<1>1. ASSUME LifecycleInv, Next PROVE LifecycleInv'
  <2> USE <1>1 DEF LifecycleInv
  <2>1. MoneyType' /\ SetupType' /\ PeriodInv' BY MoneyTypeStep, SetupTypeStep, PeriodStep
  <2>2. HandoffType' /\ ClosureType' BY StepOrder
  <2>3. FenceInv' /\ ReversalInv' BY FenceStep, ReversalStep
  <2>4. AuthorityInv' BY AuthorityStep
  <2>5. PassInv' /\ ReceiptInv' BY PassStep, ReceiptStep
  <2>6. CommitInv' /\ TransferInv' BY CommitStep, TransferStep
  <2>7. ClosedIsSettled' BY ClosedStep
  <2> QED BY <2>1, <2>2, <2>3, <2>4, <2>5, <2>6, <2>7
<1> QED BY <1>1, LifecycleStutter, InitialLifecycle, PTL DEF Spec

\* A chargeback debits the balance only while the owner who was credited is
\* responsible for it, and once per payment (reversals.go:105-171).
THEOREM ChargebacksFindTheirOwner == Spec => []ReversalChargesItsOwner
<1>1. LifecycleInv => ReversalChargesItsOwner BY DEF LifecycleInv, ReversalInv
<1> QED BY <1>1, LifecycleInvariant, PTL

\* No payment authority passes to another owner, and none that an operation cut
\* short comes back (setups.go:169-293, handoff_commit.go:214-220).
THEOREM AuthorityStaysWithOwner == Spec => []AuthorityBelongsToOwner
<1>1. LifecycleInv => AuthorityBelongsToOwner BY DEF LifecycleInv, AuthorityInv
<1> QED BY <1>1, LifecycleInvariant, PTL

\* From the grant until the decision is carried out the account does not move
\* (enforce_billing_handoff_commit_barrier and the fence).
THEOREM CommitKeepsStill == Spec => []StillUntilDecided
<1>1. LifecycleInv => StillUntilDecided BY DEF LifecycleInv, CommitInv
<1> QED BY <1>1, LifecycleInvariant, PTL

\* Every transfer hands over exactly the balance both participants confirmed
\* (handoff_commit.go:77-86 and 178-195).
THEOREM TransfersAreConfirmed == Spec => []ConfirmedBalanceTransfers
<1>1. LifecycleInv => ConfirmedBalanceTransfers BY DEF LifecycleInv, TransferInv
<1> QED BY <1>1, LifecycleInvariant, PTL

\* A closed account is empty, settled and without authority, and stays so
\* (cloud_closure.go:449-521).
THEOREM ClosedAccountsAreSettled == Spec => []ClosedIsSettled
<1>1. LifecycleInv => ClosedIsSettled BY DEF LifecycleInv
<1> QED BY <1>1, LifecycleInvariant, PTL

\* An eligible answer is true of Billing's rows when it is given, not only when
\* its receipt was taken (cloud_preflight.go:175-261).
THEOREM EligibilityIsCurrent == Spec => []EligibleMeansSettled
<1>1. ASSUME LifecycleInv PROVE EligibleMeansSettled
  <2> SUFFICES ASSUME NEW transfer \in BOOLEAN, Eligible(transfer)
               PROVE  /\ usage.stage \notin {"accepted", "invoiced"} /\ OpenWork = {}
                      /\ IF transfer THEN account.balance >= 0 ELSE account.balance = 0
    BY DEF EligibleMeansSettled
  <2> USE <1>1 DEF LifecycleInv
  <2> DEFINE e == preflight.evidence
             own == OwnershipTransferBlockers(Merge(e, LocalEvidence))
             del == CloudClosureBlockers(Merge(e, LocalEvidence))
  <2>1. preflight.fresh /\ preflight.digest = Digest /\ (IF transfer THEN own ELSE del) = {}
    BY DEF Eligible
  <2> USE <2>1
  <2>2. own = {} /\ (~transfer => account.balance = 0)
    BY UnblockedClosure
  <2>3. "usage" \in e.complete /\ OpenWork = {} /\ account.balance >= 0
    BY <2>2, Unblocked
  <2>4. preflight.digest.writes = writes BY DEF Digest
  <2>5. Vouches(e, "preflight")
    BY <2>4, TargetAssumption DEF ReceiptInv, Stands, Live
  <2>6. usage.stage \notin {"accepted", "invoiced"}
    BY <2>3, <2>5, TargetAssumption DEF Vouches, Owed
  <2> QED BY <2>2, <2>3, <2>6
<1> QED BY <1>1, LifecycleInvariant, PTL
=============================================================================
