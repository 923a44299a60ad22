------------------------ MODULE LifecycleBasisProofs ------------------------
(***************************************************************************)
(* Proofs about CloudLifecycle for any owners, payments, reversals,        *)
(* methods, handoffs and closures, the invariant and its groundwork: an    *)
(* account has one owner and one operation at a time, reversals and        *)
(* payment authority stay with their owner, and a collector's pass stands  *)
(* for the account as long as nothing is written.                          *)
(***************************************************************************)
EXTENDS CloudLifecycle, TLAPS

-----------------------------------------------------------------------------
(* Rows *)

Period == [owner : Users, opening : Int, ended : BOOLEAN, by : Handoffs \cup {None}]

PaymentRow == [state : {"none", "open", "settled", "failed"}, period : Nat,
               inbox : {"empty", "scheduled", "processed"}]
ReversalRow == [as : {"none", "review", "balance", "predecessor"}, of : Payments \cup {None}, in : Nat]

MoneyType ==
  /\ account \in [state : {"absent", "active", "closed"}, balance : Int]
  /\ writes \in Nat
  /\ usage \in [stage : {"none", "produced", "accepted", "invoiced", "settled"}, late : BOOLEAN]
  /\ pay \in [Payments -> PaymentRow]
  /\ reversal \in [Reversals -> ReversalRow]

SetupType ==
  /\ setups \in [Methods -> {"none", "created", "requires_action", "succeeded", "failed"}]
  /\ methods \in [Methods -> {"none", "pending", "active", "failed", "revoked"}]
  /\ voided \in [Methods -> {"no", "yes", "observed"}]
  /\ began \in [Methods -> Nat]

\* Only the last period may go on.
PeriodInv ==
  /\ periods \in Seq(Period)
  /\ \A k \in DOMAIN periods : ~periods[k].ended => k = Len(periods)
  /\ account.state = "absent" => periods = <<>>

HandoffFields == {"phase", "version", "source", "target", "period", "receipts", "confirmed", "grant"}
HandoffType == DOMAIN handoffs = Handoffs /\ \A h \in Handoffs : DOMAIN handoffs[h] = HandoffFields

Works == {"unpaid_invoices", "payments_pending", "payment_setups_pending", "provider_events_unresolved"}
Evidence == [balance : Int, complete : SUBSET Checks, open : SUBSET Works]
ClosureReceipt ==
  [digest : [state : [writes : Nat, unresolved : SUBSET Reversals], acked : SUBSET Methods],
   evidence : Evidence, fresh : BOOLEAN]
Closure ==
  [phase : {"none", "preparing", "canceling", "canceled", "closed"}, period : Nat,
   tasks : SUBSET Methods, acked : SUBSET Methods, receipts : Seq(ClosureReceipt),
   retired : SUBSET Nat, completion : Nat]
ClosureType == closures \in [Closures -> Closure]

-----------------------------------------------------------------------------
(* One operation at a time *)

Open(h) == handoffs[h].phase \notin {"none", "finalized", "aborted"}
Deleting(c) == closures[c].phase \notin {"none", "canceled"}

FenceInv ==
  /\ \A h \in Handoffs : Open(h) =>
       /\ Responsible(handoffs[h].period) /\ handoffs[h].target \in Users
       /\ \A x \in Handoffs : Open(x) => x = h
       /\ \A c \in Closures : ~Deleting(c)
  /\ \A c, d \in Closures : Deleting(c) /\ Deleting(d) => c = d

-----------------------------------------------------------------------------
(* Reversals *)

ReversalInv ==
  /\ \A p \in Payments : pay[p].period # 0 => pay[p].period \in DOMAIN periods
  /\ \A r \in Reversals :
       /\ reversal[r].as # "none" => reversal[r].of \in Payments
       /\ reversal[r].as \in {"balance", "predecessor"} => pay[reversal[r].of].state = "settled"
  /\ ReversalChargesItsOwner

-----------------------------------------------------------------------------
(* Payment authority *)

AuthorityInv ==
  /\ Fenced => \A m \in Methods : ~SetupOpen(m)
  /\ \A m \in Methods : SetupOpen(m) => began[m] = Current \/ began[m] = 0
  /\ \A m \in Methods : IF setups[m] = "none" THEN voided[m] = "no" ELSE methods[m] # "none"
  /\ \A c \in Closures : Deleting(c) =>
       /\ \A m \in Methods : methods[m] \in {"none", "revoked"}
       /\ closures[c].tasks = {m \in Methods : methods[m] # "none"}
  /\ AuthorityBelongsToOwner

-----------------------------------------------------------------------------
(* Evidence *)

Targets == Handoffs \cup Closures \cup {"preflight"}

\* A pass over target t can still end in a receipt.
Live(t) ==
  /\ t \in Handoffs => handoffs[t].phase \in {"preparing", "prepared"}
  /\ t \in Closures => closures[t].phase = "preparing"

\* The operation that t names was begun.
Started(t) ==
  /\ t \in Handoffs => handoffs[t].phase # "none"
  /\ t \in Closures => closures[t].phase # "none"

\* Usage that a complete usage check excludes, for a pass over t.
Owed(t) ==
  /\ \/ usage.stage \in {"accepted", "invoiced"}
     \/ usage.stage = "produced" /\ t \in Handoffs \cup Closures
  /\ t \in Handoffs => ~usage.late

Vouches(e, t) == e.balance = account.balance /\ ("usage" \in e.complete => ~Owed(t))

\* Evidence e, taken when n rows had been written, vouches until the next write.
Stands(e, n, t) ==
  /\ n \in Nat /\ n <= writes /\ Started(t)
  /\ n = writes /\ Live(t) => Vouches(e, t)

PassFields == {"at", "target", "period", "covers", "digest", "evidence", "fresh"}
Taken(k) == IF k.target \in Closures THEN k.digest.state.writes ELSE k.digest.writes

\* What a pass k knows while nothing is written.
Pass(k) ==
  /\ DOMAIN k = PassFields /\ k.at \in {"idle", "captured", "attested", "reconciled"}
  /\ k.at # "idle" =>
       /\ k.target \in Targets /\ Started(k.target)
       /\ Taken(k) \in Nat /\ Taken(k) <= writes
       /\ Taken(k) = writes /\ Live(k.target) /\ Owed(k.target) =>
            k.covers /\ (k.at = "attested" => usage.stage # "produced")
       /\ k.at = "reconciled" => k.evidence \in Evidence /\ Stands(k.evidence, Taken(k), k.target)

PassInv == \A k \in {collector} : Pass(k)

ReceiptFields == {"period", "digest", "evidence", "fresh"}

ReceiptInv ==
  /\ DOMAIN preflight = ReceiptFields
  /\ \A h \in Handoffs : \A r \in handoffs[h].receipts : Stands(r.evidence, r.digest.writes, h)
  /\ \A c \in Closures : \A r \in {closures[c].receipts[i] : i \in DOMAIN closures[c].receipts} :
       Stands(r.evidence, r.digest.state.writes, c)
  /\ \A r \in {preflight} : r.fresh => Stands(r.evidence, r.digest.writes, "preflight")

-----------------------------------------------------------------------------
(* What the operations rest on *)

CommitInv ==
  /\ \A h \in Handoffs :
       /\ handoffs[h].phase \in {"none", "preparing", "prepared"} => handoffs[h].grant = None
       /\ Committing(h) => BothConfirmed(h, handoffs[h].grant.snapshot)
  /\ StillUntilDecided

TransferInv ==
  /\ \A k \in DOMAIN periods :
       periods[k].by # None => handoffs[periods[k].by].phase = "finalized"
  /\ ConfirmedBalanceTransfers

LifecycleInv ==
  /\ MoneyType /\ SetupType /\ PeriodInv /\ HandoffType /\ ClosureType
  /\ FenceInv /\ ReversalInv /\ AuthorityInv /\ PassInv /\ ReceiptInv
  /\ CommitInv /\ TransferInv /\ ClosedIsSettled

USE DEF moneyVars, payerVars, collectorVars

-----------------------------------------------------------------------------
(* What each part of the system leaves alone *)

\* Provisioning opens the first period and touches nothing else
\* (responsibility.go).
LEMMA ProvisionFrame ==
  ASSUME MoneyType, PeriodInv, Provision
  PROVE  /\ periods = <<>> /\ account.state # "closed"
         /\ account'.state = "active" /\ account'.balance = account.balance
         /\ UNCHANGED <<writes, usage, pay, reversal, setups, methods, voided, began, handoffs, closures>>
  BY DEF MoneyType, PeriodInv, Provision, BootstrapBrandCloud, InitializeResponsibility

\* allocateProviderReversalTx debits for "balance" and for nothing else.
LEMMA Allocating ==
  ASSUME NEW r, NEW p, NEW as, Allocate(r, p, as)
  PROVE  /\ reversal' = [reversal EXCEPT ![r] = [as |-> as, of |-> p, in |-> Current]]
         /\ as = "balance" => writes' = writes + 1 /\ account' = [account EXCEPT !.balance = @ - 1]
         /\ as # "balance" => UNCHANGED <<account, writes>>
         /\ UNCHANGED <<usage, pay, setups, methods, voided, began, periods, handoffs, closures>>
  BY Zenon DEF Allocate, Digested

\* Settlement, payments and reversals do not touch ownership, authority or the
\* operations (reversals.go, settlement writers).
LEMMA MoneyFrame ==
  ASSUME MoneyType, Money
  PROVE  /\ account'.state = account.state
         /\ UNCHANGED <<setups, methods, voided, began, periods, handoffs, closures>>
<1>1. CASE ProduceUsage BY <1>1 DEF ProduceUsage
<1>2. CASE SettleUsage BY <1>2 DEF SettleUsage, MoneyType
<1>3. ASSUME NEW p \in Payments,
             \/ StartPayment(p) \/ CapturePayment(p) \/ FailPayment(p) \/ RecordWebhook(p)
             \/ \E k \in DOMAIN periods : BindHistoricalPaymentResponsibility(p, k)
      PROVE  /\ account'.state = account.state
             /\ UNCHANGED <<setups, methods, voided, began, periods, handoffs, closures>>
  BY <1>3 DEF StartPayment, CapturePayment, FailPayment, RecordWebhook,
              BindHistoricalPaymentResponsibility, MoneyType
<1>4. ASSUME NEW r, NEW p, NEW as, Allocate(r, p, as)
      PROVE  /\ account'.state = account.state
             /\ UNCHANGED <<setups, methods, voided, began, periods, handoffs, closures>>
  BY Zenon, <1>4, Allocating DEF MoneyType
<1> QED BY <1>1, <1>2, <1>3, <1>4 DEF Money, RecordProviderReversal, ResolveProviderReversal

\* Payment methods and setups are of no account to money, ownership and the
\* operations (setups.go).
LEMMA AuthorityFrame ==
  ASSUME Authority
  PROVE  UNCHANGED <<account, usage, pay, reversal, periods, handoffs, closures>>
  BY DEF Authority, BeginPaymentMethodSetup, RevokePaymentMethod, CompletePaymentMethodSetup

\* A transfer moves no money and touches no deletion; only its first and its
\* last step reach beyond its own row (handoff.go, handoff_commit.go).
LEMMA HandoffFrame ==
  ASSUME Handoff
  PROVE  /\ UNCHANGED <<account, pay, reversal, began, closures>>
         /\ \/ \E h \in Handoffs, u \in Users : PrepareOwnershipHandoff(h, u) /\ UNCHANGED periods
            \/ \E h \in Handoffs : FinalizeOwnershipHandoff(h) /\ UNCHANGED <<writes, usage>>
            \/ UNCHANGED <<writes, usage, setups, methods, voided, periods>>
<1> DEFINE Frame == UNCHANGED <<account, pay, reversal, began, closures>>
           Rest == UNCHANGED <<writes, usage, setups, methods, voided, periods>>
<1>1. ASSUME NEW h, NEW u, PrepareOwnershipHandoff(h, u) PROVE Frame /\ UNCHANGED periods
  BY <1>1 DEF PrepareOwnershipHandoff
<1>2. ASSUME NEW h, NEW u, NEW v, NEW b, ConfirmHandoffSnapshot(h, u, v, b) PROVE Frame /\ Rest
  BY <1>2 DEF ConfirmHandoffSnapshot
<1>3. ASSUME NEW h, NEW v, AskForCommit(h, v) \/ AuthorizeHandoffCommit(h, v) \/ Decide(h, v)
      PROVE  Frame /\ Rest
  BY <1>3 DEF AskForCommit, AuthorizeHandoffCommit, Decide
<1>4. ASSUME NEW h, \/ RecordCommittedDecision(h) \/ BeginOwnershipHandoffAbort(h)
                   \/ CompleteOwnershipHandoffAbort(h)
      PROVE  Frame /\ Rest
  BY <1>4 DEF RecordCommittedDecision, BeginOwnershipHandoffAbort, CompleteOwnershipHandoffAbort
<1>5. ASSUME NEW h, FinalizeOwnershipHandoff(h) PROVE Frame /\ UNCHANGED <<writes, usage>>
  BY <1>5 DEF FinalizeOwnershipHandoff
<1> HIDE DEF Frame, Rest
<1>6. Frame /\ \/ \E h \in Handoffs, u \in Users : PrepareOwnershipHandoff(h, u) /\ UNCHANGED periods
               \/ \E h \in Handoffs : FinalizeOwnershipHandoff(h) /\ UNCHANGED <<writes, usage>>
               \/ Rest
  BY <1>1, <1>2, <1>3, <1>4, <1>5
  DEF Handoff, prepareHandoff, confirmHandoff, authorizeHandoffCommit, finalizeHandoff, beginHandoffAbort
<1> QED BY <1>6 DEF Frame, Rest

\* A deletion moves no money and touches no transfer; only its first and its
\* last step reach beyond its own row (cloud_closure.go).
LEMMA ClosingFrame ==
  ASSUME MoneyType, Closing
  PROVE  /\ account'.balance = account.balance
         /\ UNCHANGED <<usage, pay, reversal, began, handoffs>>
         /\ \/ \E c \in Closures : PrepareCloudClosure(c) /\ UNCHANGED <<account, periods>>
            \/ \E c \in Closures : \E i \in DOMAIN closures[c].receipts :
                 /\ CloseCloud(c, i) /\ account' = [account EXCEPT !.state = "closed"]
                 /\ UNCHANGED <<writes, setups, methods, voided>>
            \/ UNCHANGED <<account, writes, setups, methods, voided, periods>>
  BY Zenon DEF Closing, PrepareCloudClosure, CancelCloudClosure, CompleteCloudClosureCancellation,
         RecordCloudClosureRevocation, CloseCloud, RetireCloudClose, MoneyType

\* Recording a receipt changes the operation and the pass only.
LEMMA RecordFrame ==
  ASSUME Record
  PROVE  UNCHANGED <<account, writes, usage, pay, reversal, setups, methods, voided, began, periods>>
  BY Zenon DEF Record, RecordHandoff, RecordClosure, RecordHandoffSettlement, RecordCloudClosureSettlement

\* Expiry changes receipts only.
LEMMA ExpireFrame ==
  ASSUME ExpireReceipts
  PROVE  UNCHANGED <<account, writes, usage, pay, reversal, setups, methods, voided, began, periods, handoffs>>
  BY DEF ExpireReceipts

\* A pass leaves the account alone until it records.
LEMMA CollectFrame ==
  ASSUME Collect
  PROVE  UNCHANGED <<account, writes, usage, pay, reversal, setups, methods, voided, began, periods,
                     handoffs, closures>>
  BY DEF Collect

-----------------------------------------------------------------------------
(* Owners *)

\* The current period is the one that goes on, the last (responsibility.go).
LEMMA CurrentIs ==
  ASSUME PeriodInv
  PROVE  /\ HasOwner => Responsible(Current) /\ Current = Len(periods) /\ Current # 0
         /\ ~HasOwner => Current = 0
         /\ \A k : Responsible(k) => HasOwner /\ k = Current
         /\ Current \in {0} \cup DOMAIN periods /\ Current \in Nat
<1>1. /\ HasOwner => Current \in DOMAIN periods /\ Responsible(Current)
      /\ ~HasOwner => Current = 0
  BY Zenon DEF Current, HasOwner
<1>2. \A k : Responsible(k) => HasOwner /\ k = Len(periods)
  BY DEF PeriodInv, Responsible, HasOwner
<1>3. \A k \in DOMAIN periods : k \in Nat /\ k # 0
  BY DEF PeriodInv
<1> QED BY <1>1, <1>2, <1>3

\* It is the same as long as the periods are.
LEMMA CurrentSame ==
  ASSUME UNCHANGED periods
  PROVE  Current' = Current /\ \A k : Responsible(k)' = Responsible(k)
  BY Zenon DEF Current, HasOwner, Responsible

-----------------------------------------------------------------------------
(* What the steps of a transfer do to its row *)

Others(h) == \A x \in Handoffs : x # h => handoffs'[x] = handoffs[x]
Kept(h) == /\ handoffs'[h].source = handoffs[h].source /\ handoffs'[h].target = handoffs[h].target
           /\ handoffs'[h].period = handoffs[h].period /\ handoffs'[h].receipts = handoffs[h].receipts

\* A change of phase changes nothing else but the version (handoff_commit.go).
LEMMA Advancing ==
  ASSUME HandoffType, NEW h \in Handoffs, NEW to,
         handoffs' = [handoffs EXCEPT ![h].phase = to, ![h].version = @ + 1]
  PROVE  /\ HandoffType' /\ Others(h) /\ Kept(h) /\ handoffs'[h].phase = to
         /\ handoffs'[h].confirmed = handoffs[h].confirmed /\ handoffs'[h].grant = handoffs[h].grant
  BY DEF HandoffType, HandoffFields, Others, Kept

\* PrepareOwnershipHandoff.
LEMMA Preparing ==
  ASSUME HandoffType, NEW h \in Handoffs, NEW u, PrepareOwnershipHandoff(h, u)
  PROVE  /\ HandoffType' /\ Others(h) /\ handoffs[h].phase = "none"
         /\ handoffs'[h].phase = "preparing" /\ handoffs'[h].period = Current /\ handoffs'[h].target = u
         /\ handoffs'[h].receipts = {} /\ handoffs'[h].grant = None
  BY DEF HandoffType, HandoffFields, Others, PrepareOwnershipHandoff, NoHandoff, Phase

\* ConfirmHandoffSnapshot.
LEMMA Confirming ==
  ASSUME HandoffType, NEW h \in Handoffs, NEW u, NEW v, NEW b, ConfirmHandoffSnapshot(h, u, v, b)
  PROVE  /\ HandoffType' /\ Others(h) /\ Kept(h) /\ Phase(h, {"preparing", "prepared"})
         /\ handoffs'[h].phase = handoffs[h].phase /\ handoffs'[h].grant = handoffs[h].grant
  BY DEF HandoffType, HandoffFields, Others, Kept, ConfirmHandoffSnapshot, LiveSnapshot

\* AuthorizeHandoffCommit.
LEMMA Authorizing ==
  ASSUME HandoffType, NEW h \in Handoffs, NEW v, AuthorizeHandoffCommit(h, v)
  PROVE  /\ HandoffType' /\ Others(h) /\ Kept(h) /\ Phase(h, {"preparing", "prepared"})
         /\ handoffs'[h].phase = "commit_authorized" /\ handoffs'[h].grant.snapshot = v
         /\ handoffs'[h].confirmed = handoffs[h].confirmed /\ BothConfirmed(h, v)
         /\ \E r \in LiveSnapshot(h) : r.version = v
  BY DEF HandoffType, HandoffFields, Others, Kept, AuthorizeHandoffCommit, LiveSnapshot

\* RecordHandoffSettlement.
LEMMA Recording ==
  ASSUME HandoffType, NEW h \in Handoffs, NEW digest, NEW evidence,
         RecordHandoffSettlement(h, digest, evidence)
  PROVE  /\ HandoffType' /\ Others(h)
         /\ Phase(h, {"preparing", "prepared"}) /\ handoffs'[h].phase \in {"preparing", "prepared"}
         /\ handoffs'[h].period = handoffs[h].period /\ handoffs'[h].target = handoffs[h].target
         /\ handoffs'[h].grant = handoffs[h].grant
         /\ handoffs'[h].receipts = handoffs[h].receipts \cup
              {[version |-> handoffs[h].version + 1, digest |-> Digest,
                evidence |-> Merge(evidence, LocalEvidence)]}
  BY Zenon DEF HandoffType, HandoffFields, Others, Phase, RecordHandoffSettlement

\* No transfer begins.
NoneBegins ==
  \A x \in Handoffs :
    /\ Open(x)' => Open(x)
    /\ handoffs'[x].period = handoffs[x].period /\ handoffs'[x].target = handoffs[x].target
    /\ handoffs'[x].phase \in {"preparing", "prepared"} => handoffs[x].phase \in {"preparing", "prepared"}
    /\ handoffs[x].phase # "none" => handoffs'[x].phase # "none"

\* A transfer is only ever begun by PrepareOwnershipHandoff, and every other
\* step leads on from where it is.
LEMMA HandoffOrder ==
  ASSUME HandoffType, Handoff
  PROVE  /\ HandoffType'
         /\ NoneBegins \/ \E h \in Handoffs, u \in Users : PrepareOwnershipHandoff(h, u)
<1>1. ASSUME NEW h \in Handoffs, NEW u \in Users, PrepareOwnershipHandoff(h, u)
      PROVE  HandoffType'
  BY <1>1, Preparing
<1>2. ASSUME NEW h \in Handoffs, NEW u, NEW v, NEW b, ConfirmHandoffSnapshot(h, u, v, b)
      PROVE  HandoffType' /\ NoneBegins
  BY <1>2, Confirming DEF NoneBegins, Others, Kept, Open
<1>3. ASSUME NEW h \in Handoffs, NEW v, AskForCommit(h, v) \/ Decide(h, v)
      PROVE  HandoffType' /\ NoneBegins
  BY <1>3 DEF AskForCommit, Decide, NoneBegins, HandoffType, Open
<1>4. ASSUME NEW h \in Handoffs, NEW v, AuthorizeHandoffCommit(h, v)
      PROVE  HandoffType' /\ NoneBegins
  BY <1>4, Authorizing DEF NoneBegins, Others, Kept, Phase, Open
<1>5. ASSUME NEW h \in Handoffs, \/ RecordCommittedDecision(h) \/ FinalizeOwnershipHandoff(h)
                               \/ BeginOwnershipHandoffAbort(h) \/ CompleteOwnershipHandoffAbort(h)
      PROVE  HandoffType' /\ NoneBegins
  <2> USE <1>5
  <2>1. PICK to \in {"finalizing", "finalized", "abort_pending", "aborted"} :
          handoffs' = [handoffs EXCEPT ![h].phase = to, ![h].version = @ + 1]
    BY DEF RecordCommittedDecision, FinalizeOwnershipHandoff, BeginOwnershipHandoffAbort,
                CompleteOwnershipHandoffAbort
  <2>2. Open(h)
    BY DEF RecordCommittedDecision, FinalizeOwnershipHandoff, BeginOwnershipHandoffAbort,
                CompleteOwnershipHandoffAbort, Phase, Open
  <2>3. HandoffType' /\ Others(h) /\ Kept(h) /\ handoffs'[h].phase = to
    BY Zenon, <2>1, Advancing
  <2> QED BY Zenon, <2>1, <2>2, <2>3 DEF NoneBegins, Others, Kept, Open
<1> QED BY <1>1, <1>2, <1>3, <1>4, <1>5
        DEF Handoff, prepareHandoff, confirmHandoff, authorizeHandoffCommit, finalizeHandoff,
            beginHandoffAbort

-----------------------------------------------------------------------------
(* What the steps of a deletion do to its row *)

\* No deletion begins, and the tasks stay.
NoneDeletes ==
  \A x \in Closures :
    /\ Deleting(x)' => Deleting(x)
    /\ closures'[x].tasks = closures[x].tasks
    /\ closures'[x].phase = "preparing" => closures[x].phase = "preparing"
    /\ closures[x].phase # "none" => closures'[x].phase # "none"

\* A digest is made of counts and sets (captureSettlementStateTx).
LEMMA EvidenceTypes ==
  ASSUME MoneyType, NEW e \in Evidence
  PROVE  /\ Digest \in [writes : Nat, unresolved : SUBSET Reversals]
         /\ LocalEvidence \in Evidence /\ Merge(e, LocalEvidence) \in Evidence
  BY DEF OpenWork, Works, LocalEvidence, Evidence, MoneyType, Merge, Digest, Unresolved

\* PrepareCloudClosure.
LEMMA Deletion ==
  ASSUME ClosureType, PeriodInv, NEW c \in Closures, PrepareCloudClosure(c)
  PROVE  /\ ClosureType' /\ closures[c].phase = "none" /\ closures'[c].phase = "preparing"
         /\ closures'[c].tasks = {m \in Methods : methods[m] # "none"}
         /\ closures'[c].receipts = <<>>
         /\ \A x \in Closures : x # c => closures'[x] = closures[x]
<1>1. Current \in Nat BY CurrentIs
<1>2. closures[c].phase = "none"
  BY DEF PrepareCloudClosure, ClosurePhase
<1> DEFINE T == {m \in Methods : methods[m] # "none"}
           row == [NoClosure EXCEPT !.phase = "preparing", !.period = Current, !.tasks = T]
<1>3. closures' = [closures EXCEPT ![c] = row]
  BY DEF PrepareCloudClosure
<1>4. T \in SUBSET Methods OBVIOUS
<1>5. <<>> \in Seq(ClosureReceipt) OBVIOUS
<1> HIDE DEF T
<1>6. NoClosure \in Closure BY <1>5 DEF NoClosure, Closure
<1>7. row \in Closure /\ row.phase = "preparing" /\ row.receipts = NoClosure.receipts /\ row.tasks = T
  BY Zenon, <1>1, <1>4, <1>6 DEF Closure
<1>8. NoClosure.receipts = <<>> BY DEF NoClosure
<1> HIDE DEF row
<1> QED BY <1>2, <1>3, <1>7, <1>8 DEF ClosureType, T

\* What the steps of a deletion after the first write to its row; only
\* CloseCloud closes it (cloud_closure.go).
Rewritten(c, row) ==
  /\ row \in Closure /\ closures' = [closures EXCEPT ![c] = row]
  /\ row.tasks = closures[c].tasks /\ row.receipts = closures[c].receipts
  /\ row.phase # "none" /\ (row.phase = "preparing" => closures[c].phase = "preparing")
  /\ row.phase = "closed" => \E i \in DOMAIN closures[c].receipts : CloseCloud(c, i)
  /\ Deleting(c) /\ closures[c].phase # "closed"

Further(c) ==
  \/ CancelCloudClosure(c) \/ CompleteCloudClosureCancellation(c)
  \/ \E m \in Methods : RecordCloudClosureRevocation(c, m)
  \/ \E i \in DOMAIN closures[c].receipts : CloseCloud(c, i) \/ RetireCloudClose(c, i)

LEMMA ClosingRow ==
  ASSUME ClosureType, NEW c \in Closures, Further(c)
  PROVE  \E row : Rewritten(c, row)
<1> DEFINE q == closures[c]
<1>1. q \in Closure /\ \A i \in DOMAIN q.receipts : i \in Nat BY DEF ClosureType, Closure
<1>2. ASSUME NEW to \in {"canceling", "canceled"}, closures' = [closures EXCEPT ![c] = [q EXCEPT !.phase = to]],
             Deleting(c), q.phase # "closed"
      PROVE  Rewritten(c, [q EXCEPT !.phase = to])
  BY Zenon, <1>1, <1>2 DEF Closure, Rewritten
<1>3. CASE CancelCloudClosure(c) \/ CompleteCloudClosureCancellation(c)
  BY <1>2, <1>3 DEF CancelCloudClosure, CompleteCloudClosureCancellation, ClosurePhase, Deleting
<1>4. ASSUME NEW m \in Methods, RecordCloudClosureRevocation(c, m)
      PROVE  Rewritten(c, [q EXCEPT !.acked = @ \cup {m}])
  BY Zenon, <1>1, <1>4 DEF RecordCloudClosureRevocation, ClosurePhase, Deleting, Closure, Rewritten
<1>5. ASSUME NEW i \in DOMAIN q.receipts, CloseCloud(c, i)
      PROVE  Rewritten(c, [q EXCEPT !.phase = "closed", !.completion = i])
  BY Zenon, <1>1, <1>5 DEF CloseCloud, Ready, ClosurePhase, Deleting, Closure, Rewritten
<1>6. ASSUME NEW i \in DOMAIN q.receipts, RetireCloudClose(c, i)
      PROVE  Rewritten(c, [q EXCEPT !.retired = @ \cup {i}])
  BY Zenon, <1>1, <1>6 DEF RetireCloudClose, ClosurePhase, Deleting, Closure, Rewritten
<1> QED BY Zenon, <1>3, <1>4, <1>5, <1>6 DEF Further

\* Every step of a deletion after the first leads on from where it is.
LEMMA ClosingOrder ==
  ASSUME ClosureType, PeriodInv, Closing
  PROVE  /\ ClosureType'
         /\ NoneDeletes \/ \E c \in Closures : PrepareCloudClosure(c)
<1>1. ASSUME NEW c \in Closures, PrepareCloudClosure(c) PROVE ClosureType'
  BY <1>1, Deletion
<1>2. ASSUME NEW c \in Closures, Further(c) PROVE ClosureType' /\ NoneDeletes
  <2>1. PICK row : Rewritten(c, row) BY <1>2, ClosingRow
  <2>2. /\ ClosureType' /\ closures'[c] = row
        /\ \A x \in Closures : x # c => closures'[x] = closures[x]
    BY <2>1 DEF Rewritten, ClosureType
  <2> QED BY Zenon, <2>1, <2>2 DEF Rewritten, NoneDeletes, Deleting
<1> QED BY <1>1, <1>2 DEF Closing, Further

\* The steps of a deletion write no receipt, and a new one has none.
LEMMA NoReceiptWritten ==
  ASSUME ClosureType, PeriodInv, Closing, NEW x \in Closures
  PROVE  closures'[x].receipts = <<>> \/ closures'[x].receipts = closures[x].receipts
<1>1. ASSUME NEW c \in Closures, PrepareCloudClosure(c)
      PROVE  closures'[x].receipts = <<>> \/ closures'[x].receipts = closures[x].receipts
  BY <1>1, Deletion
<1>2. ASSUME NEW c \in Closures, Further(c) PROVE closures'[x].receipts = closures[x].receipts
  <2>1. PICK row : Rewritten(c, row) BY <1>2, ClosingRow
  <2> QED BY <2>1 DEF Rewritten, ClosureType
<1> QED BY <1>1, <1>2 DEF Closing, Further

\* A recorded or an expired receipt leaves the operations where they are.
LEMMA ReceiptsOrder ==
  ASSUME MoneyType, HandoffType, ClosureType, PassInv, Record \/ ExpireReceipts
  PROVE  HandoffType' /\ ClosureType' /\ NoneBegins /\ NoneDeletes
<1>1. ASSUME NEW h \in Handoffs, RecordHandoff(h)
      PROVE  HandoffType' /\ ClosureType' /\ NoneBegins /\ NoneDeletes
  <2> DEFINE d == collector.digest
             e == collector.evidence
  <2>1. UNCHANGED closures /\ RecordHandoffSettlement(h, d, e)
    BY Zenon, <1>1 DEF RecordHandoff, RecordHandoffSettlement
  <2>2. HandoffType' /\ NoneBegins
    <3> HIDE DEF d, e
    <3> QED BY <2>1, Recording DEF NoneBegins, Others, Phase, Open
  <2> QED BY <2>1, <2>2 DEF ClosureType, NoneDeletes, Deleting
<1>2. ASSUME NEW c \in Closures, RecordClosure(c)
      PROVE  HandoffType' /\ ClosureType' /\ NoneBegins /\ NoneDeletes
  <2> USE <1>2
  <2> DEFINE e == collector.evidence
             new == [digest |-> ClosureDigest(c), evidence |-> Merge(e, LocalEvidence), fresh |-> TRUE]
  <2>1. UNCHANGED handoffs /\ closures' = [closures EXCEPT ![c].receipts = Append(@, new)]
    BY DEF RecordClosure, RecordCloudClosureSettlement
  <2> USE <2>1
  <2>2. e \in Evidence
    BY DEF RecordClosure, PassInv, Pass
  <2>3. new \in ClosureReceipt
    BY Zenon, <2>2, EvidenceTypes DEF ClosureDigest, ClosureReceipt, ClosureType, Closure
  <2> HIDE DEF e, new
  <2>4. closures[c].receipts \in Seq(ClosureReceipt) BY DEF ClosureType, Closure
  <2>5. Append(closures[c].receipts, new) \in Seq(ClosureReceipt) BY <2>3, <2>4
  <2>6. ClosureType'
    <3>1. [closures[c] EXCEPT !.receipts = Append(@, new)] \in Closure
      BY Zenon, <2>5 DEF ClosureType, Closure
    <3> QED BY <3>1 DEF ClosureType
  <2>7. NoneDeletes BY DEF ClosureType, Closure, NoneDeletes, Deleting
  <2> QED BY <2>6, <2>7 DEF HandoffType, NoneBegins, Open
<1>3. CASE ExpireReceipts
  <2> DEFINE old(c) == closures[c].receipts
             new(c) == [i \in DOMAIN old(c) |-> [old(c)[i] EXCEPT !.fresh = FALSE]]
  <2>1. UNCHANGED handoffs /\ closures' = [c \in Closures |-> [closures[c] EXCEPT !.receipts = new(c)]]
    BY <1>3 DEF ExpireReceipts
  <2> USE <2>1
  <2>2. ASSUME NEW c \in Closures PROVE new(c) \in Seq(ClosureReceipt)
    <3>1. old(c) \in Seq(ClosureReceipt) BY DEF ClosureType, Closure
    <3>2. \A r \in ClosureReceipt : [r EXCEPT !.fresh = FALSE] \in ClosureReceipt
      BY Zenon DEF ClosureReceipt
    <3> HIDE DEF old
    <3> QED BY <3>1, <3>2
  <2> HIDE DEF new
  <2>3. ClosureType' BY Zenon, <2>2 DEF ClosureType, Closure
  <2>4. NoneDeletes BY DEF ClosureType, Closure, NoneDeletes, Deleting
  <2> QED BY <2>3, <2>4 DEF HandoffType, NoneBegins, Open
<1> QED BY <1>1, <1>2, <1>3 DEF Record

-----------------------------------------------------------------------------
(* Types *)

\* A reversal that is allocated keeps the rows' types.
LEMMA AllocatingTypes ==
  ASSUME MoneyType, Current \in Nat, NEW r \in Reversals, NEW p \in Payments,
         NEW as \in {"review", "balance", "predecessor"}, Allocate(r, p, as)
  PROVE  MoneyType'
<1>1. /\ reversal' = [reversal EXCEPT ![r] = [as |-> as, of |-> p, in |-> Current]]
      /\ as = "balance" => writes' = writes + 1 /\ account' = [account EXCEPT !.balance = @ - 1]
      /\ as # "balance" => UNCHANGED <<account, writes>>
      /\ UNCHANGED <<usage, pay>>
  BY Zenon DEF Allocate, Digested
<1>2. PICK k \in Nat : k = Current OBVIOUS
<1>3. [as |-> as, of |-> p, in |-> k] \in ReversalRow BY Zenon DEF ReversalRow
<1>4. reversal' \in [Reversals -> ReversalRow] BY <1>1, <1>2, <1>3 DEF MoneyType
<1>5. account' \in [state : {"absent", "active", "closed"}, balance : Int] /\ writes' \in Nat
  <2>1. CASE as = "balance" BY <1>1, <2>1 DEF MoneyType
  <2>2. CASE as # "balance" BY <1>1, <2>2 DEF MoneyType
  <2> QED BY Zenon, <2>1, <2>2
<1> QED BY <1>1, <1>4, <1>5 DEF MoneyType

\* Money keeps its type.
LEMMA MoneyTypeStep ==
  ASSUME MoneyType, PeriodInv, ReversalInv, Next PROVE MoneyType'
<1>1. CASE Provision
  BY <1>1, ProvisionFrame DEF Provision, BootstrapBrandCloud, InitializeResponsibility, MoneyType
<1>2. CASE Money
  <2>0. Current \in Nat BY CurrentIs
  <2>1. CASE ProduceUsage BY <2>1 DEF ProduceUsage, MoneyType, Fenced
  <2>2. CASE SettleUsage BY <2>2 DEF SettleUsage, MoneyType, Digested
  <2>3. ASSUME NEW p \in Payments, StartPayment(p) PROVE MoneyType'
    <3> USE <2>3
    <3>1. PICK k \in Nat : pay' = [pay EXCEPT ![p].state = "open", ![p].period = k]
      BY Zenon, <2>0 DEF StartPayment
    <3>2. pay' \in [Payments -> PaymentRow]
      <4>1. pay[p] \in PaymentRow BY DEF MoneyType
      <4>2. [pay[p] EXCEPT !.state = "open", !.period = k] \in PaymentRow BY Zenon, <4>1 DEF PaymentRow
      <4> QED BY <3>1, <4>2 DEF MoneyType
    <3>3. writes' \in Nat /\ UNCHANGED <<account, usage, reversal>>
      BY DEF StartPayment, MoneyType, Digested
    <3> QED BY <3>2, <3>3 DEF MoneyType
  <2>4. ASSUME NEW p \in Payments, CapturePayment(p) \/ FailPayment(p) PROVE MoneyType'
    <3> USE <2>4
    <3>1. PICK outcome \in {"settled", "failed"} : pay' = Concluded(p, outcome)
      BY Zenon DEF CapturePayment, FailPayment
    <3>2. pay' \in [Payments -> PaymentRow]
      <4>1. pay[p] \in PaymentRow BY DEF MoneyType
      <4> DEFINE read == IF pay[p].inbox = "scheduled" THEN "processed" ELSE pay[p].inbox
      <4>2. pay' = [pay EXCEPT ![p].state = outcome, ![p].inbox = read] BY Zenon, <3>1 DEF Concluded
      <4>3. read \in {"empty", "scheduled", "processed"} BY <4>1 DEF PaymentRow
      <4> HIDE DEF read
      <4>4. [pay[p] EXCEPT !.state = outcome, !.inbox = read] \in PaymentRow BY Zenon, <4>3, <4>1 DEF PaymentRow
      <4> QED BY <4>2, <4>4 DEF MoneyType
    <3>3. /\ writes' \in Nat /\ UNCHANGED <<usage, reversal>>
          /\ account' = account \/ account' = [account EXCEPT !.balance = @ + 1]
      BY DEF CapturePayment, FailPayment, MoneyType, Digested
    <3> QED BY <3>2, <3>3 DEF MoneyType
  <2>5. ASSUME NEW p \in Payments, RecordWebhook(p) PROVE MoneyType'
    BY <2>5 DEF RecordWebhook, MoneyType, PaymentRow, Digested
  <2>6. ASSUME NEW p \in Payments, NEW k \in DOMAIN periods, BindHistoricalPaymentResponsibility(p, k)
        PROVE  MoneyType'
    <3>1. k \in Nat BY DEF PeriodInv
    <3> QED BY <2>6, <3>1 DEF BindHistoricalPaymentResponsibility, MoneyType, PaymentRow
  <2>7. ASSUME NEW r \in Reversals, NEW p \in Payments,
               NEW as \in {"review", "balance", "predecessor"}, Allocate(r, p, as)
        PROVE  MoneyType'
    BY Zenon, <2>0, <2>7, AllocatingTypes
  <2>8. \A p : Classify(p) \in {"review", "balance", "predecessor"} BY DEF Classify
  <2>9. ASSUME NEW r \in Reversals, ResolveProviderReversal(r) PROVE MoneyType'
    BY <2>7, <2>8, <2>9 DEF ResolveProviderReversal, ReversalInv
  <2> QED BY <1>2, <2>1, <2>2, <2>3, <2>4, <2>5, <2>6, <2>7, <2>8, <2>9
          DEF Money, RecordProviderReversal
<1>3. CASE Authority
  BY <1>3, AuthorityFrame DEF Authority, BeginPaymentMethodSetup, RevokePaymentMethod,
     CompletePaymentMethodSetup, Digested, MoneyType
<1>4. CASE Handoff
  <2>1. ASSUME NEW h, NEW u, PrepareOwnershipHandoff(h, u)
        PROVE  writes' \in Nat /\ usage' = [usage EXCEPT !.late = FALSE]
    BY <2>1 DEF PrepareOwnershipHandoff, MoneyType, Digested
  <2> QED BY Zenon, <1>4, <2>1, HandoffFrame DEF MoneyType
<1>5. CASE Closing
  <2>1. ASSUME NEW c, PrepareCloudClosure(c) PROVE writes' \in Nat
    BY <2>1 DEF PrepareCloudClosure, MoneyType, Digested
  <2> QED BY <1>5, <2>1, ClosingFrame DEF MoneyType
<1>6. CASE Collect \/ Record \/ ExpireReceipts
  BY <1>6, CollectFrame, RecordFrame, ExpireFrame DEF MoneyType
<1> QED BY <1>1, <1>2, <1>3, <1>4, <1>5, <1>6 DEF Next

\* The four outcomes of a setup.
LEMMA MethodAfterType ==
  ASSUME NEW result
  PROVE  MethodAfter(result) \in {"pending", "active", "failed"}
  BY Zenon DEF MethodAfter

\* Which steps change payment authority (setups.go, handoff.go,
\* cloud_closure.go).
LEMMA PayerSteps ==
  ASSUME MoneyType, PeriodInv, Next
  PROVE  \/ UNCHANGED <<setups, methods, voided, began>>
         \/ Authority
         \/ \E h \in Handoffs, u \in Users : PrepareOwnershipHandoff(h, u)
         \/ \E h \in Handoffs : FinalizeOwnershipHandoff(h)
         \/ \E c \in Closures : PrepareCloudClosure(c)
  BY ProvisionFrame, MoneyFrame, HandoffFrame, ClosingFrame, CollectFrame, RecordFrame, ExpireFrame
  DEF Next

\* Payment authority keeps its type.
LEMMA SetupTypeStep ==
  ASSUME MoneyType, SetupType, PeriodInv, Next PROVE SetupType'
<1>1. CASE Authority
  <2>1. ASSUME NEW m \in Methods, BeginPaymentMethodSetup(m) PROVE SetupType'
    <3> USE <2>1
    <3>1. PICK k \in Nat : began' = [began EXCEPT ![m] = k]
      BY Zenon, CurrentIs DEF BeginPaymentMethodSetup
    <3> QED BY <3>1 DEF BeginPaymentMethodSetup, SetupType
  <2>2. ASSUME NEW m \in Methods, RevokePaymentMethod(m) PROVE SetupType'
    BY <2>2 DEF RevokePaymentMethod, SetupType
  <2>3. ASSUME NEW m \in Methods, NEW result \in {"requires_action", "succeeded", "failed"},
               CompletePaymentMethodSetup(m, result)
        PROVE  SetupType'
    BY <2>3, MethodAfterType DEF CompletePaymentMethodSetup, SetupType
  <2> QED BY <1>1, <2>1, <2>2, <2>3 DEF Authority
<1>2. ASSUME NEW h \in Handoffs, NEW u \in Users, PrepareOwnershipHandoff(h, u) PROVE SetupType'
  BY <1>2 DEF PrepareOwnershipHandoff, SetupType
<1>3. ASSUME NEW h \in Handoffs, FinalizeOwnershipHandoff(h) PROVE SetupType'
  BY <1>3 DEF FinalizeOwnershipHandoff, SetupType
<1>4. ASSUME NEW c \in Closures, PrepareCloudClosure(c) PROVE SetupType'
  BY <1>4 DEF PrepareCloudClosure, SetupType
<1>5. CASE UNCHANGED <<setups, methods, voided, began>> BY <1>5 DEF SetupType
<1> QED BY <1>1, <1>2, <1>3, <1>4, <1>5, PayerSteps

-----------------------------------------------------------------------------
(* Ownership *)

\* Which steps change the periods (responsibility.go, handoff_commit.go,
\* cloud_closure.go).
LEMMA PeriodSteps ==
  ASSUME MoneyType, PeriodInv, Next
  PROVE  \/ UNCHANGED periods /\ account'.state = account.state
         \/ Provision
         \/ \E h \in Handoffs : FinalizeOwnershipHandoff(h)
         \/ \E c \in Closures : \E i \in DOMAIN closures[c].receipts : CloseCloud(c, i)
  BY MoneyFrame, AuthorityFrame, HandoffFrame, ClosingFrame, CollectFrame, RecordFrame, ExpireFrame
  DEF Next

\* The end of a period.
LEMMA EndPeriod ==
  ASSUME NEW s \in Seq(Period), NEW k \in DOMAIN s
  PROVE  LET t == [s EXCEPT ![k].ended = TRUE] IN
           /\ t \in Seq(Period) /\ Len(t) = Len(s) /\ DOMAIN t = DOMAIN s /\ t[k].ended
           /\ \A i \in DOMAIN s : /\ i # k => t[i] = s[i]
                                 /\ t[i].by = s[i].by /\ t[i].opening = s[i].opening
<1> DEFINE t == [s EXCEPT ![k].ended = TRUE]
<1>1. \A i \in DOMAIN s : s[i] \in Period OBVIOUS
<1>2. \A q \in Period : /\ [q EXCEPT !.ended = TRUE] \in Period
                        /\ [q EXCEPT !.ended = TRUE].ended
                        /\ [q EXCEPT !.ended = TRUE].by = q.by
                        /\ [q EXCEPT !.ended = TRUE].opening = q.opening
  BY Zenon DEF Period
<1>3. DOMAIN t = DOMAIN s /\ t[k] = [s[k] EXCEPT !.ended = TRUE] /\ \A i \in DOMAIN s : i # k => t[i] = s[i]
  OBVIOUS
<1>4. t \in Seq(Period) /\ Len(t) = Len(s)
  BY <1>1, <1>2
<1> QED BY Zenon, <1>1, <1>2, <1>3, <1>4

\* The transfer of the account: the source's period ends, the target's begins
\* (FinalizeOwnershipHandoff).
LEMMA Succession ==
  ASSUME MoneyType, PeriodInv, FenceInv, NEW h \in Handoffs, FinalizeOwnershipHandoff(h)
  PROVE  /\ periods' \in Seq(Period) /\ Len(periods') = Len(periods) + 1
         /\ periods'[Len(periods')] = OpenPeriod(handoffs[h].target, account.balance, h)
         /\ \A k \in DOMAIN periods : /\ k \in DOMAIN periods' /\ periods'[k].ended
                                     /\ periods'[k].by = periods[k].by
                                     /\ periods'[k].opening = periods[k].opening
<1> DEFINE n == handoffs[h].period
           q == OpenPeriod(handoffs[h].target, account.balance, h)
           s == [periods EXCEPT ![n].ended = TRUE]
<1>1. periods' = Append(s, q) BY DEF FinalizeOwnershipHandoff
<1>2. Responsible(n) /\ handoffs[h].target \in Users
  BY DEF FenceInv, Open, FinalizeOwnershipHandoff, Phase
<1>3. q \in Period BY <1>2 DEF OpenPeriod, Period, MoneyType
<1>4. n \in DOMAIN periods /\ n = Len(periods) /\ \A k \in DOMAIN periods : k # n => periods[k].ended
  BY <1>2 DEF Responsible, PeriodInv
<1>5. /\ s \in Seq(Period) /\ Len(s) = Len(periods) /\ DOMAIN s = DOMAIN periods /\ s[n].ended
      /\ \A k \in DOMAIN periods : /\ k # n => s[k] = periods[k]
                                  /\ s[k].by = periods[k].by /\ s[k].opening = periods[k].opening
  BY <1>4, EndPeriod DEF PeriodInv
<1> USE <1>5
<1>6. \A k \in DOMAIN s : s[k].ended BY <1>4
<1> HIDE DEF s, q
<1>7. /\ Append(s, q) \in Seq(Period) /\ Len(Append(s, q)) = Len(s) + 1
      /\ Append(s, q)[Len(s) + 1] = q
      /\ \A k \in DOMAIN s : k \in DOMAIN Append(s, q) /\ Append(s, q)[k] = s[k]
  BY <1>3
<1> QED BY <1>1, <1>6, <1>7 DEF q

\* At most one period goes on and it is the last (responsibility.go).
LEMMA PeriodStep ==
  ASSUME MoneyType, PeriodInv, FenceInv, Next PROVE PeriodInv'
<1>1. CASE Provision
  <2> USE <1>1
  <2>1. PICK u \in Users : periods' = <<OpenPeriod(u, 0, None)>>
    BY DEF Provision, BootstrapBrandCloud, InitializeResponsibility
  <2>2. OpenPeriod(u, 0, None) \in Period BY DEF OpenPeriod, Period
  <2> QED BY <2>1, <2>2, ProvisionFrame DEF PeriodInv
<1>2. ASSUME NEW h \in Handoffs, FinalizeOwnershipHandoff(h) PROVE PeriodInv'
  <2> USE <1>2
  <2>1. \A k \in DOMAIN periods' : ~periods'[k].ended => k = Len(periods')
    BY Succession DEF PeriodInv
  <2>2. account'.state # "absent"
    BY DEF FinalizeOwnershipHandoff, Phase, PeriodInv, FenceInv, Open, Responsible
  <2> QED BY <2>1, <2>2, Succession DEF PeriodInv
<1>3. ASSUME NEW c \in Closures, NEW i \in DOMAIN closures[c].receipts, CloseCloud(c, i)
      PROVE  PeriodInv'
  BY <1>3, EndPeriod DEF CloseCloud, Ready, ClosureOwner, Responsible, MoneyType, PeriodInv
<1>4. CASE UNCHANGED periods /\ account'.state = account.state BY <1>4 DEF PeriodInv
<1> QED BY <1>1, <1>2, <1>3, <1>4, PeriodSteps

\* An operation begins with PrepareOwnershipHandoff or PrepareCloudClosure; no
\* other step begins one or leads it back.
LEMMA StepOrder ==
  ASSUME MoneyType, PeriodInv, HandoffType, ClosureType, PassInv, Next
  PROVE  /\ HandoffType' /\ ClosureType'
         /\ \/ NoneBegins /\ NoneDeletes
            \/ /\ \E h \in Handoffs, u \in Users : PrepareOwnershipHandoff(h, u)
               /\ UNCHANGED <<account, pay, reversal, began, periods, closures>>
            \/ /\ \E c \in Closures : PrepareCloudClosure(c)
               /\ UNCHANGED <<account, usage, pay, reversal, began, periods, handoffs>>
<1>1. UNCHANGED handoffs => HandoffType' /\ NoneBegins BY DEF HandoffType, NoneBegins, Open
<1>2. UNCHANGED closures => ClosureType' /\ NoneDeletes BY DEF ClosureType, NoneDeletes, Deleting
<1>3. CASE Handoff
  BY Zenon, <1>2, <1>3, HandoffOrder, HandoffFrame DEF PrepareOwnershipHandoff
<1>4. CASE Closing
  BY Zenon, <1>1, <1>4, ClosingOrder, ClosingFrame DEF PrepareCloudClosure
<1>5. CASE Record \/ ExpireReceipts BY <1>5, ReceiptsOrder
<1> QED BY <1>1, <1>2, <1>3, <1>4, <1>5, ProvisionFrame, MoneyFrame, AuthorityFrame, CollectFrame DEF Next

\* The end of a period leaves no transfer open: its own is over, and a deletion
\* kept every other out (handoff_commit.go, cloud_closure.go).
LEMMA NoneOpenAfter ==
  ASSUME MoneyType, PeriodInv, HandoffType, ClosureType, FenceInv, NoneBegins,
         \/ Provision
         \/ \E h \in Handoffs : FinalizeOwnershipHandoff(h)
         \/ \E c \in Closures : \E i \in DOMAIN closures[c].receipts : CloseCloud(c, i)
  PROVE  \A x \in Handoffs : ~Open(x)'
<1>1. CASE Provision
  BY <1>1, ProvisionFrame DEF FenceInv, NoneBegins, Responsible
<1>2. ASSUME NEW h \in Handoffs, FinalizeOwnershipHandoff(h) PROVE \A x \in Handoffs : ~Open(x)'
  <2>1. Open(h) /\ handoffs' = [handoffs EXCEPT ![h].phase = "finalized", ![h].version = @ + 1]
    BY <1>2 DEF FinalizeOwnershipHandoff, Phase, Open
  <2>2. handoffs'[h].phase = "finalized" BY Zenon, <2>1, Advancing
  <2> QED BY Zenon, <2>1, <2>2 DEF FenceInv, NoneBegins, Open
<1>3. ASSUME NEW c \in Closures, NEW i, CloseCloud(c, i) PROVE \A x \in Handoffs : ~Open(x)'
  BY Zenon, <1>3 DEF CloseCloud, Ready, ClosurePhase, Deleting, FenceInv, NoneBegins
<1> QED BY <1>1, <1>2, <1>3

\* One operation at a time: requireNoHandoffTx keeps a transfer and a deletion,
\* or two of a kind, apart.
LEMMA FenceStep ==
  ASSUME MoneyType, PeriodInv, HandoffType, ClosureType, PassInv, FenceInv, Next PROVE FenceInv'
<1>1. CASE NoneBegins /\ NoneDeletes /\ UNCHANGED periods
  BY <1>1, CurrentSame DEF FenceInv, NoneBegins, NoneDeletes, Responsible
<1>2. CASE NoneBegins /\ NoneDeletes /\ \A x \in Handoffs : ~Open(x)'
  BY <1>2 DEF FenceInv, NoneDeletes
<1>3. ASSUME NEW h \in Handoffs, NEW u \in Users, PrepareOwnershipHandoff(h, u),
             UNCHANGED <<periods, closures>>
      PROVE  FenceInv'
  <2> USE <1>3
  <2>1. /\ \A x \in Handoffs : ~Open(x)
        /\ \A c \in Closures : ~Deleting(c)'
    BY DEF PrepareOwnershipHandoff, Fenced, Open, Deleting
  <2>2. \A x \in Handoffs : x # h => ~Open(x)' BY <2>1, Preparing DEF Others, Open
  <2>3. HasOwner BY DEF PrepareOwnershipHandoff
  <2>4. Responsible(handoffs[h].period)'
    BY Preparing, <2>3, CurrentIs DEF Responsible
  <2>5. handoffs'[h].target \in Users BY Preparing
  <2> QED BY Zenon, <2>1, <2>2, <2>4, <2>5 DEF FenceInv
<1>4. ASSUME NEW c \in Closures, PrepareCloudClosure(c), UNCHANGED <<periods, handoffs>>
      PROVE  FenceInv'
  <2> USE <1>4
  <2>1. /\ \A x \in Handoffs : ~Open(x)'
        /\ \A x \in Closures : ~Deleting(x)
    BY DEF PrepareCloudClosure, Fenced, Open, Deleting
  <2>2. \A x \in Closures : x # c => ~Deleting(x)' BY <2>1, Deletion DEF Deleting
  <2> QED BY <2>1, <2>2 DEF FenceInv
<1> QED BY <1>1, <1>2, <1>3, <1>4, StepOrder, PeriodSteps, NoneOpenAfter

-----------------------------------------------------------------------------
(* Reversals *)

\* Ownership periods are never forgotten.
LEMMA PeriodsGrow ==
  ASSUME MoneyType, PeriodInv, FenceInv, Next PROVE DOMAIN periods \subseteq DOMAIN periods'
<1>1. CASE Provision BY <1>1, ProvisionFrame
<1>2. ASSUME NEW h \in Handoffs, FinalizeOwnershipHandoff(h) PROVE DOMAIN periods \subseteq DOMAIN periods'
  BY <1>2, Succession
<1>3. ASSUME NEW c \in Closures, NEW i, CloseCloud(c, i) PROVE DOMAIN periods \subseteq DOMAIN periods'
  BY <1>3 DEF CloseCloud
<1> QED BY <1>1, <1>2, <1>3, PeriodSteps

\* classifyProviderReversalTx: a decision needs the one full credit, not
\* reversed yet, and a debit needs the credited owner to be the current one and
\* no barrier.
LEMMA Classified ==
  ASSUME MoneyType, PeriodInv, ReversalInv, NEW p \in Payments
  PROVE  /\ Classify(p) \in {"review", "balance", "predecessor"}
         /\ Classify(p) # "review" => pay[p].state = "settled" /\ Allocated(p) = {}
         /\ Classify(p) = "balance" => /\ pay[p].period = Current /\ pay[p].period # 0
                                       /\ ~Barred
<1>1. Classify(p) \in {"review", "balance", "predecessor"} BY DEF Classify
<1>2. Classify(p) # "review" => pay[p].state = "settled" /\ Allocated(p) = {} /\ pay[p].period # 0
  BY DEF Classify
<1>3. Classify(p) = "balance" => ~periods[pay[p].period].ended /\ ~Barred
  BY DEF Classify, Barred
<1>4. pay[p].period # 0 => pay[p].period \in DOMAIN periods BY DEF ReversalInv
<1> QED BY <1>1, <1>2, <1>3, <1>4, CurrentIs DEF Responsible

\* A reversal is allocated to the owner who was credited, and once.
LEMMA AllocationStep ==
  ASSUME MoneyType, PeriodInv, ReversalInv, NEW r \in Reversals, NEW p \in Payments,
         reversal[r].as \in {"none", "review"}, Allocate(r, p, Classify(p))
  PROVE  ReversalInv'
<1> DEFINE as == Classify(p)
<1>1. /\ reversal' = [reversal EXCEPT ![r] = [as |-> as, of |-> p, in |-> Current]]
      /\ UNCHANGED <<pay, periods>>
  BY Allocating
<1>2. /\ as \in {"review", "balance", "predecessor"}
      /\ as # "review" => pay[p].state = "settled" /\ Allocated(p) = {}
      /\ as = "balance" => pay[p].period = Current /\ pay[p].period # 0
  BY Classified
<1> HIDE DEF as
<1>3. /\ reversal'[r].as = as /\ reversal'[r].of = p /\ reversal'[r].in = Current
      /\ \A s \in Reversals : s # r => reversal'[s] = reversal[s]
  BY <1>1 DEF MoneyType
<1> USE <1>3
<1>4. \A q \in Payments : Allocated(q)' \subseteq Allocated(q) \cup {r}
  BY DEF Allocated
<1>5. \A q \in Payments : r \in Allocated(q)' => q = p /\ Allocated(q) = {}
  BY Zenon, <1>2 DEF Allocated
<1>6. \A q \in Payments : \A s, t \in Allocated(q)' : s = t
  BY <1>4, <1>5 DEF ReversalInv, ReversalChargesItsOwner
<1> QED BY Zenon, <1>1, <1>2, <1>6 DEF ReversalInv, ReversalChargesItsOwner

\* Reversals stay with the credited owner, whatever payments and owners do.
LEMMA ReversalStep ==
  ASSUME MoneyType, PeriodInv, FenceInv, ReversalInv, Next PROVE ReversalInv'
<1>1. CASE UNCHANGED <<pay, reversal>>
  BY <1>1, PeriodsGrow DEF ReversalInv, ReversalChargesItsOwner, Allocated
<1>2. CASE Money
  <2>1. ASSUME NEW p \in Payments, StartPayment(p) PROVE ReversalInv'
    BY <2>1, CurrentIs DEF StartPayment, MoneyType, PaymentRow, ReversalInv, ReversalChargesItsOwner,
       Allocated
  <2>2. ASSUME NEW p \in Payments, CapturePayment(p) \/ FailPayment(p) \/ RecordWebhook(p)
        PROVE  ReversalInv'
    <3> USE <2>2
    <3>0. UNCHANGED <<reversal, periods>> BY DEF CapturePayment, FailPayment, RecordWebhook
    <3> USE <3>0
    <3>1. ASSUME NEW q \in Payments
          PROVE  /\ pay'[q].period = pay[q].period
                 /\ pay[q].state = "settled" => pay'[q].state = "settled"
      BY DEF CapturePayment, FailPayment, Concluded, RecordWebhook, MoneyType, PaymentRow
    <3>2. ASSUME NEW q \in Payments, pay'[q].period # 0 PROVE pay'[q].period \in DOMAIN periods'
      BY <3>1, <3>2 DEF ReversalInv
    <3>3. \A q \in Payments : Allocated(q)' = Allocated(q) BY DEF Allocated
    <3>4. ASSUME NEW r \in Reversals
          PROVE  /\ reversal'[r].as # "none" => reversal'[r].of \in Payments
                 /\ reversal'[r].as \in {"balance", "predecessor"} => pay'[reversal'[r].of].state = "settled"
                 /\ reversal'[r].as = "balance" =>
                      reversal'[r].in = pay'[reversal'[r].of].period /\ reversal'[r].in # 0
      <4> DEFINE q == reversal[r].of
      <4>1. q \in Payments => /\ pay'[q].period = pay[q].period
                              /\ pay[q].state = "settled" => pay'[q].state = "settled"
        BY <3>1
      <4> QED BY <4>1 DEF ReversalInv, ReversalChargesItsOwner
    <3> QED BY <3>2, <3>3, <3>4 DEF ReversalInv, ReversalChargesItsOwner
  <2>3. ASSUME NEW p \in Payments, NEW k \in DOMAIN periods, BindHistoricalPaymentResponsibility(p, k)
        PROVE  ReversalInv'
    BY <2>3 DEF BindHistoricalPaymentResponsibility, MoneyType, PaymentRow, ReversalInv,
       ReversalChargesItsOwner, Allocated
  <2>4. ASSUME NEW r \in Reversals, NEW p \in Payments, RecordProviderReversal(r, p)
        PROVE  ReversalInv'
    BY <2>4, AllocationStep DEF RecordProviderReversal
  <2>5. ASSUME NEW r \in Reversals, ResolveProviderReversal(r) PROVE ReversalInv'
    <3> USE <2>5
    <3> DEFINE p == reversal[r].of
    <3>1. PICK q \in Payments : q = p BY DEF ResolveProviderReversal, ReversalInv
    <3>2. Allocate(r, q, Classify(q)) /\ reversal[r].as = "review" BY <3>1 DEF ResolveProviderReversal
    <3> QED BY <3>2, AllocationStep
  <2>6. CASE ProduceUsage \/ SettleUsage BY <1>1, <2>6 DEF ProduceUsage, SettleUsage
  <2> QED BY <1>2, <2>1, <2>2, <2>3, <2>4, <2>5, <2>6 DEF Money
<1> QED BY <1>1, <1>2, ProvisionFrame, AuthorityFrame, HandoffFrame, ClosingFrame, CollectFrame,
           RecordFrame, ExpireFrame DEF Next

-----------------------------------------------------------------------------
(* Payment authority *)

\* Payment authority stays with the owner it was given by, and an operation
\* leaves none behind (setups.go, handoff.go, cloud_closure.go).
LEMMA AuthorityStep ==
  ASSUME MoneyType, SetupType, PeriodInv, HandoffType, ClosureType, FenceInv, AuthorityInv, PassInv, Next
  PROVE  AuthorityInv'
<1>1. CASE Authority
  <2> USE <1>1
  <2>1. UNCHANGED <<periods, handoffs, closures>> BY AuthorityFrame
  <2>2. Current' = Current /\ Fenced' = Fenced /\ \A c \in Closures : Deleting(c)' = Deleting(c)
    BY <2>1, CurrentSame DEF Fenced, Deleting
  <2> USE <2>2
  <2>3. ASSUME NEW m \in Methods, BeginPaymentMethodSetup(m) PROVE AuthorityInv'
    BY <2>3 DEF BeginPaymentMethodSetup, SetupType, Fenced, Deleting, AuthorityInv,
       AuthorityBelongsToOwner, SetupOpen
  <2>4. ASSUME NEW m \in Methods, RevokePaymentMethod(m) PROVE AuthorityInv'
    BY <2>4 DEF RevokePaymentMethod, SetupType, AuthorityInv, AuthorityBelongsToOwner, SetupOpen
  <2>5. ASSUME NEW m \in Methods, NEW result \in {"requires_action", "succeeded", "failed"},
               CompletePaymentMethodSetup(m, result)
        PROVE  AuthorityInv'
    BY <2>5, <2>1, MethodAfterType DEF CompletePaymentMethodSetup, SetupType, AuthorityInv,
       AuthorityBelongsToOwner, SetupOpen, Fenced, Deleting
  <2> QED BY <2>3, <2>4, <2>5 DEF Authority
<1>2. ASSUME NEW h \in Handoffs, NEW u \in Users, PrepareOwnershipHandoff(h, u) PROVE AuthorityInv'
  BY <1>2, CurrentSame DEF PrepareOwnershipHandoff, Fenced, Deleting, AuthorityInv,
     AuthorityBelongsToOwner, SetupOpen
<1>3. ASSUME NEW h \in Handoffs, FinalizeOwnershipHandoff(h) PROVE AuthorityInv'
  BY <1>3 DEF FinalizeOwnershipHandoff, Phase, Open, AuthorityInv, FenceInv, Fenced, Deleting,
     AuthorityBelongsToOwner, SetupOpen
<1>4. ASSUME NEW c \in Closures, PrepareCloudClosure(c) PROVE AuthorityInv'
  <2> USE <1>4
  <2>1. /\ UNCHANGED <<periods, began>>
        /\ \A m \in Methods :
             /\ setups'[m] = IF SetupOpen(m) THEN "failed" ELSE setups[m]
             /\ voided'[m] = IF SetupOpen(m) THEN "yes" ELSE voided[m]
             /\ methods'[m] = IF methods[m] = "none" THEN "none" ELSE "revoked"
    BY DEF PrepareCloudClosure
  <2> USE <2>1
  <2>2. Current' = Current /\ \A x \in Closures : ~Deleting(x)
    BY CurrentSame DEF PrepareCloudClosure, Fenced, Deleting
  <2>3. /\ closures'[c].tasks = {m \in Methods : methods[m] # "none"}
        /\ \A x \in Closures : x # c => ~Deleting(x)'
    BY <2>2, Deletion DEF Deleting
  <2>4. {m \in Methods : methods[m] # "none"} = {m \in Methods : methods'[m] # "none"} OBVIOUS
  <2> QED BY <2>2, <2>3, <2>4 DEF AuthorityInv, AuthorityBelongsToOwner, SetupOpen
<1>5. CASE UNCHANGED <<setups, methods, voided, began>> /\ NoneBegins /\ NoneDeletes
  <2> USE <1>5
  <2>1. Fenced' => Fenced BY DEF Fenced, NoneBegins, NoneDeletes, Open, Deleting
  <2> USE <2>1
  <2>2. \A c \in Closures : Deleting(c)' => Deleting(c) /\ closures'[c].tasks = closures[c].tasks
    BY DEF NoneDeletes
  <2> USE <2>2
  <2>3. CASE UNCHANGED periods
    BY <2>3, CurrentSame DEF AuthorityInv, AuthorityBelongsToOwner, SetupOpen
  <2>4. CASE Provision
    BY <2>4, ProvisionFrame, CurrentIs DEF HasOwner, AuthorityInv, AuthorityBelongsToOwner, SetupOpen
  <2>5. ASSUME NEW c \in Closures, NEW i, CloseCloud(c, i) PROVE AuthorityInv'
    <3>1. Deleting(c) BY <2>5 DEF CloseCloud, Ready, ClosurePhase, Deleting
    <3>2. \A m \in Methods : ~SetupOpen(m) /\ methods[m] \in {"none", "revoked"}
      BY <3>1 DEF AuthorityInv, Fenced, Deleting
    <3> QED BY <3>2 DEF AuthorityInv, AuthorityBelongsToOwner, SetupOpen
  <2> QED BY <1>3, <2>3, <2>4, <2>5, PeriodSteps
<1> QED BY <1>1, <1>2, <1>3, <1>4, <1>5, PayerSteps, StepOrder

-----------------------------------------------------------------------------
(* Evidence *)

\* The balance moves only with the digest, and so does usage but for its
\* arrival at the producer and a new cutoff (captureSettlementStateTx).
LEMMA WriteStep ==
  ASSUME MoneyType, PeriodInv, Next
  PROVE  \/ writes' = writes + 1
         \/ /\ writes' = writes /\ account'.balance = account.balance
            /\ UNCHANGED usage \/ ProduceUsage \/ \E h \in Handoffs, u \in Users : PrepareOwnershipHandoff(h, u)
<1>1. CASE Money
  BY Zenon, Allocating, <1>1 DEF ProduceUsage, StartPayment, CapturePayment, FailPayment, RecordWebhook,
     Digested, BindHistoricalPaymentResponsibility, SettleUsage, Money, RecordProviderReversal,
     ResolveProviderReversal
<1>2. CASE Authority
  BY <1>2, AuthorityFrame DEF Authority, BeginPaymentMethodSetup, RevokePaymentMethod,
     CompletePaymentMethodSetup, Digested
<1>3. ASSUME NEW h, NEW u, PrepareOwnershipHandoff(h, u) PROVE writes' = writes + 1 \/ writes' = writes
  BY <1>3 DEF PrepareOwnershipHandoff, Digested
<1>4. ASSUME NEW c, PrepareCloudClosure(c) PROVE writes' = writes + 1 \/ writes' = writes
  BY <1>4 DEF PrepareCloudClosure, Digested
<1>5. CASE Handoff BY <1>3, <1>5, HandoffFrame
<1>6. CASE Closing BY <1>4, <1>6, ClosingFrame
<1> QED BY <1>1, <1>2, <1>5, <1>6, ProvisionFrame, CollectFrame, RecordFrame, ExpireFrame DEF Next

\* What a step may do to what evidence says: count as a write, or leave the
\* balance and, for every pass that can still end in a receipt, the usage.
EvidenceStep ==
  /\ \A t \in Targets : Started(t) => Started(t)'
  /\ \/ writes' = writes + 1
     \/ /\ writes' = writes /\ account'.balance = account.balance
        /\ \A t \in Targets : Started(t) /\ Live(t)' =>
             Live(t) /\ (Owed(t)' => Owed(t) /\ usage'.stage = usage.stage)

\* Every step is such a step: usage that arrives during a transfer is the
\* target's, and a deletion waits for a drained producer.
LEMMA EvidenceKept ==
  ASSUME MoneyType, PeriodInv, HandoffType, ClosureType, FenceInv, PassInv, Next PROVE EvidenceStep
<1> USE TargetAssumption
<1>1. CASE NoneBegins /\ NoneDeletes
  <2> USE <1>1
  <2>1. \A t \in Targets : (Started(t) => Started(t)') /\ (Live(t)' => Live(t))
    BY DEF Targets, Started, Live, NoneBegins, NoneDeletes
  <2> USE <2>1
  <2>2. CASE UNCHANGED usage
    BY <2>2, WriteStep DEF Owed, EvidenceStep
  <2>3. CASE ProduceUsage
    BY Zenon, <2>3 DEF ProduceUsage, Live, Fenced, Targets, Owed, EvidenceStep
  <2>4. ASSUME NEW h \in Handoffs, NEW u \in Users, PrepareOwnershipHandoff(h, u) PROVE FALSE
    BY <2>4, Preparing DEF NoneBegins
  <2>5. CASE writes' = writes + 1 BY <2>5 DEF EvidenceStep
  <2> QED BY <2>2, <2>3, <2>4, <2>5, WriteStep
<1>2. ASSUME NEW h \in Handoffs, NEW u \in Users, PrepareOwnershipHandoff(h, u),
             UNCHANGED <<account, closures>>
      PROVE  EvidenceStep
  <2> USE <1>2
  <2>1. /\ handoffs[h].phase = "none"
        /\ \A x \in Handoffs : x # h => handoffs'[x].phase = handoffs[x].phase
        /\ handoffs'[h].phase = "preparing"
    BY Preparing DEF Others
  <2>2. \A t \in Targets : Started(t) => Started(t)' BY <2>1 DEF Started, Targets
  <2>3. \A t \in Handoffs : Started(t) => ~Live(t)'
    BY <2>1 DEF PrepareOwnershipHandoff, Fenced, Started, Live
  <2>4. \A t \in Targets : t \notin Handoffs => (Live(t)' => Live(t)) BY DEF Live, Targets
  <2>5. usage'.stage = usage.stage BY DEF PrepareOwnershipHandoff, MoneyType
  <2>6. \A t \in Targets : t \notin Handoffs => (Owed(t)' => Owed(t)) BY <2>5 DEF Owed
  <2>7. writes' = writes + 1 \/ writes' = writes BY DEF PrepareOwnershipHandoff, Digested
  <2> QED BY <2>2, <2>3, <2>4, <2>5, <2>6, <2>7 DEF EvidenceStep
<1>3. ASSUME NEW c \in Closures, PrepareCloudClosure(c), UNCHANGED <<account, usage, handoffs>>
      PROVE  EvidenceStep
  BY Zenon, <1>3, Deletion DEF Started, Live, Targets, Owed, PrepareCloudClosure, Digested, EvidenceStep
<1> QED BY <1>1, <1>2, <1>3, StepOrder

\* Evidence stands through such a step.
LEMMA StandsOn ==
  ASSUME EvidenceStep, MoneyType, NEW e, NEW n, NEW t \in Targets, Stands(e, n, t)
  PROVE  Stands(e, n, t)'
<1>1. n \in Nat /\ n <= writes /\ writes \in Nat BY DEF Stands, MoneyType
<1>2. Started(t) /\ Started(t)' BY DEF Stands, EvidenceStep
<1> USE <1>2
<1>3. CASE writes' = writes + 1 BY <1>1, <1>3 DEF Stands
<1>4. CASE writes' # writes + 1
  BY <1>4, <1>1 DEF EvidenceStep, Stands, Vouches
<1> QED BY <1>3, <1>4

\* So does what a pass knows.
LEMMA PassGoesOn ==
  ASSUME EvidenceStep, MoneyType, NEW k, Pass(k) PROVE Pass(k)'
<1>1. CASE k.at = "idle" BY <1>1 DEF Pass
<1>2. CASE k.at # "idle"
  <2> USE <1>2
  <2> DEFINE t == k.target
             n == Taken(k)
  <2>1. /\ t \in Targets /\ Started(t) /\ n \in Nat /\ n <= writes /\ writes \in Nat
        /\ n = writes /\ Live(t) /\ Owed(t) => k.covers /\ (k.at = "attested" => usage.stage # "produced")
        /\ k.at = "reconciled" => k.evidence \in Evidence /\ Stands(k.evidence, n, t)
    BY DEF Pass, MoneyType
  <2> USE <2>1
  <2> HIDE DEF t, n
  <2>2. Started(t)' BY DEF EvidenceStep
  <2>3. /\ n <= writes'
        /\ n = writes' /\ Live(t)' /\ Owed(t)' =>
             n = writes /\ Live(t) /\ Owed(t) /\ usage'.stage = usage.stage
    BY DEF EvidenceStep
  <2>4. k.at = "reconciled" => Stands(k.evidence, n, t)' BY StandsOn
  <2> QED BY <2>2, <2>3, <2>4 DEF Pass, t, n
<1> QED BY <1>1, <1>2

-----------------------------------------------------------------------------
(* Passes *)

\* An idle collector knows nothing.
LEMMA IdlePass == Pass(Idle) /\ Pass(Idle)'
  BY DEF Pass, Idle, PassFields

\* A pass begins with the digest of now, and covers what is owed.
LEMMA CapturedPass ==
  ASSUME MoneyType, NEW t \in Targets, NEW d, Capture(t, d), Started(t),
         writes = IF t \in Closures THEN d.state.writes ELSE d.writes,
         NEW k, k = collector'
  PROVE  Pass(k)
<1>1. DOMAIN k = PassFields /\ k.at = "captured" /\ k.target = t /\ k.digest = d
  BY DEF Capture, Idle, PassFields
<1>2. k.covers = (usage.stage # "none" /\ (t \in Handoffs => ~usage.late))
  BY Zenon DEF Capture, Idle
<1>3. Owed(t) => k.covers BY Zenon, <1>2 DEF Owed
<1>4. Taken(k) = writes BY <1>1 DEF Taken
<1>5. writes \in Nat /\ writes <= writes BY DEF MoneyType
<1> QED BY Zenon, <1>1, <1>3, <1>4, <1>5 DEF Pass

\* The producer's answer (usagecheckpoint).
LEMMA AttestedPass ==
  ASSUME Attest, PassInv, NEW k, k = collector' PROVE Pass(k)
<1>1. Pass(collector) /\ collector.at = "captured" /\ (usage.stage = "produced" => ~collector.covers)
  BY DEF PassInv, Attest
<1>2. DOMAIN collector = PassFields BY <1>1 DEF Pass
<1>3. /\ DOMAIN k = PassFields /\ k.at = "attested" /\ k.target = collector.target
      /\ k.digest = collector.digest /\ k.covers = collector.covers
  BY <1>2 DEF Attest, PassFields
<1>4. Taken(k) = Taken(collector) BY <1>3 DEF Taken
<1> QED BY <1>1, <1>3, <1>4 DEF Pass

\* ReconcileSettlementEvidence on the captured digest: a complete usage check
\* means that nothing is owed.
LEMMA ReconciledPass ==
  ASSUME MoneyType, PassInv, NEW d, Reconcile(d), NEW k, k = collector' PROVE Pass(k)
<1>1. Pass(collector) /\ collector.at = "attested" BY DEF PassInv, Reconcile
<1> USE <1>1
<1>2. CASE k = Idle BY <1>2, IdlePass
<1>3. CASE k # Idle
  <2> DEFINE e == [LocalEvidence EXCEPT !.complete = ReconciledChecks(collector.covers)]
  <2>1. k = [collector EXCEPT !.at = "reconciled", !.evidence = e] BY <1>3 DEF Reconcile
  <2>2. LocalEvidence \in Evidence
    BY DEF OpenWork, Works, LocalEvidence, Evidence, MoneyType
  <2>3. /\ ReconciledChecks(collector.covers) \in SUBSET Checks
        /\ "usage" \in ReconciledChecks(collector.covers) =>
             usage.stage # "invoiced" /\ (collector.covers => usage.stage # "accepted")
    BY DEF ReconciledChecks
  <2>4. /\ e \in Evidence /\ e.balance = account.balance
        /\ e.complete = ReconciledChecks(collector.covers)
    BY <2>2, <2>3 DEF Evidence, LocalEvidence
  <2> USE <2>4
  <2> HIDE DEF e
  <2>5. DOMAIN collector = PassFields BY DEF Pass
  <2>6. /\ DOMAIN k = PassFields /\ k.at = "reconciled" /\ k.target = collector.target
        /\ k.digest = collector.digest /\ k.covers = collector.covers /\ k.evidence = e
    BY <2>1, <2>5 DEF PassFields
  <2> USE <2>6
  <2>7. Taken(k) = Taken(collector) BY DEF Taken
  <2> USE <2>7
  <2>8. Taken(k) = writes /\ Live(k.target) /\ Owed(k.target) => "usage" \notin e.complete
    BY <2>3 DEF Owed, Pass
  <2>9. Stands(e, Taken(k), k.target)
    BY <2>8 DEF Pass, Stands, Vouches
  <2> QED BY <2>9 DEF Pass
<1> QED BY <1>2, <1>3

\* A pass never knows more than is so, whatever runs between its four steps.
LEMMA PassStep ==
  ASSUME MoneyType, PeriodInv, HandoffType, ClosureType, FenceInv, PassInv, Next PROVE PassInv'
<1>1. EvidenceStep BY EvidenceKept
<1> USE <1>1
<1> SUFFICES ASSUME NEW k, k = collector' PROVE Pass(k)' BY DEF PassInv
<1>2. CASE UNCHANGED collector BY <1>2, PassGoesOn DEF PassInv
<1>3. CASE k = Idle BY <1>3, IdlePass
<1>4. CASE Collect
  <2>1. CASE CapturePreflight
    BY TargetAssumption, <2>1, CapturedPass, PassGoesOn DEF Targets, Started, CapturePreflight, Digest
  <2>2. ASSUME NEW h \in Handoffs, CaptureHandoff(h) PROVE Pass(k)'
    BY <2>2, TargetAssumption, CapturedPass, PassGoesOn DEF Targets, Started, CaptureHandoff, Phase,
       Digest
  <2>3. ASSUME NEW c \in Closures, CaptureClosure(c) PROVE Pass(k)'
    BY <2>3, TargetAssumption, CapturedPass, PassGoesOn DEF Targets, Started, CaptureClosure,
       ClosurePhase, ClosureDigest, Digest
  <2>4. CASE Attest BY <2>4, AttestedPass, PassGoesOn
  <2>5. ASSUME NEW d, Reconcile(d) PROVE Pass(k)' BY <2>5, ReconciledPass, PassGoesOn
  <2>6. CASE RecordPreflight \/ Fail BY <1>3, <2>6 DEF RecordPreflight, Fail
  <2> QED BY <1>4, <2>1, <2>2, <2>3, <2>4, <2>5, <2>6 DEF Collect
<1>5. CASE Record BY <1>3, <1>5 DEF Record, RecordHandoff, RecordClosure
<1>6. CASE ExpireReceipts
  <2>1. k = [collector EXCEPT !.fresh = FALSE] /\ Pass(collector) BY <1>6 DEF ExpireReceipts, Expire, PassInv
  <2> USE <2>1
  <2>2. DOMAIN collector = PassFields BY DEF Pass
  <2>3. /\ DOMAIN k = PassFields /\ k.at = collector.at /\ k.target = collector.target
        /\ k.digest = collector.digest /\ k.covers = collector.covers /\ k.evidence = collector.evidence
    BY <2>2 DEF PassFields
  <2>4. Taken(k) = Taken(collector) BY <2>3 DEF Taken
  <2>5. Pass(k) BY <2>3, <2>4 DEF Pass
  <2> QED BY <2>5, PassGoesOn
<1> QED BY <1>2, <1>4, <1>5, <1>6 DEF Next

=============================================================================
