------------------------ MODULE SettlementCollector ------------------------
(***************************************************************************)
(* The settlement collector (internal/settlementcollector, the collector's *)
(* queries in paymentstore) and the advisory preflight it feeds            *)
(* (cloud_preflight.go, ownership_eligibility.go).                         *)
(*                                                                         *)
(* A pass captures the digest, asks the usage producer for its checkpoint, *)
(* reconciles Billing's own rows, and records a receipt: four steps with   *)
(* no lock between them.  The digest travels through all four.             *)
(***************************************************************************)
EXTENDS OwnershipHandoff

CONSTANT CollectsPreflight   \* whether passes over preflight scopes happen

\* What a pass is over tells its kind.
ASSUME TargetAssumption == Handoffs \cap Closures = {} /\ "preflight" \notin Handoffs \cup Closures

VARIABLES
  collector,  \* the pass in progress
  preflight   \* the latest billing_cloud_preflight_receipts row

Idle == [at |-> "idle", target |-> None, period |-> 0, covers |-> FALSE,
         digest |-> None, evidence |-> None, fresh |-> FALSE]

NoReceipt == [period |-> 0, digest |-> None, evidence |-> None, fresh |-> FALSE]

collectorVars == <<collector, preflight>>

\* ListCloudPreflightScopes: one scope per account with a current owner.
PreflightDue == HasOwner /\ account.state # "closed"

\* CaptureCloudPreflightState, CaptureHandoffSettlementState and
\* CaptureCloudClosureState: the first step of a pass over a target.  It covers
\* usage up to now, or for a handoff up to the cutoff.
Capture(target, digest) ==
  /\ collector = Idle
  /\ collector' = [Idle EXCEPT !.at = "captured", !.target = target, !.period = Current,
                               !.digest = digest, !.fresh = target \notin Handoffs,
                               !.covers = /\ usage.stage # "none"
                                          /\ target \in Handoffs => ~usage.late]
  /\ UNCHANGED preflight

CapturePreflight == CollectsPreflight /\ PreflightDue /\ Capture("preflight", Digest)

\* ListHandoffCollectorTargets and loadHandoffScopeTx.
CaptureHandoff(h) ==
  /\ Phase(h, {"preparing", "prepared"}) /\ SourceResponsible(h)
  /\ Cardinality(handoffs[h].receipts) < MaxReceipts
  /\ Capture(h, Digest)

\* The producer's answer (usagecheckpoint): a checkpoint only when everything
\* it measured up to the covered time was delivered.
Attest ==
  /\ collector.at = "captured"
  /\ usage.stage = "produced" => ~collector.covers
  /\ collector' = [collector EXCEPT !.at = "attested"]
  /\ UNCHANGED preflight

\* Mutant: the rows are reconciled without looking at the digest again.
ReconcileAnyState(digest) ==
  /\ collector.at = "attested"
  /\ collector' = [collector EXCEPT !.at = "reconciled", !.digest = digest,
       !.evidence = [balance |-> account.balance, complete |-> Checks, open |-> {}]]
  /\ UNCHANGED preflight

\* ReconcileSettlementEvidence, in one repeatable-read snapshot that still has
\* the captured digest; otherwise the pass fails.
Reconcile(digest) ==
  /\ collector.at = "attested"
  /\ collector' =
       IF collector.digest = digest
       THEN [collector EXCEPT !.at = "reconciled",
               !.evidence = [LocalEvidence EXCEPT !.complete = ReconciledChecks(collector.covers)]]
       ELSE Idle
  /\ UNCHANGED preflight

\* RecordCloudPreflightEvidence, for the owner the pass began with.
RecordPreflight ==
  /\ collector.at = "reconciled" /\ collector.target = "preflight"
  /\ collector' = Idle
  /\ preflight' = IF collector.fresh /\ collector.period = Current /\ collector.digest = Digest
                  THEN [period |-> Current, digest |-> Digest, fresh |-> TRUE,
                        evidence |-> Merge(collector.evidence, LocalEvidence)]
                  ELSE preflight

\* The last step of a handoff's pass.
RecordHandoff(h) ==
  /\ collector.at = "reconciled" /\ collector.target = h
  /\ collector' = Idle /\ UNCHANGED preflight
  /\ RecordHandoffSettlement(h, collector.digest, collector.evidence)

\* A pass dies or its call fails at any point; the next one starts over.
Fail == collector # Idle /\ collector' = Idle /\ UNCHANGED preflight

\* Receipts live for minutes: all that exist expire.
Expire ==
  /\ collector' = [collector EXCEPT !.fresh = FALSE]
  /\ preflight' = [preflight EXCEPT !.fresh = FALSE]

-----------------------------------------------------------------------------
(* Advisory answers *)

\* Mutant: the last receipt of the owner answers, whatever happened since.
EligibleOnReceipt(transfer) ==
  /\ HasOwner /\ account.state = "active" /\ ~Fenced
  /\ preflight.period = Current /\ preflight.fresh
  /\ (IF transfer THEN OwnershipTransferBlockers(preflight.evidence)
                  ELSE CloudClosureBlockers(preflight.evidence)) = {}

\* getCloudFinancialPreflight, for CheckOwnershipEligibility (a transfer) and
\* GetCloudDeletionPreflight.
Eligible(transfer) ==
  /\ HasOwner /\ account.state = "active" /\ ~Fenced
  /\ preflight.period = Current /\ preflight.fresh /\ preflight.digest = Digest
  /\ LET e == Merge(preflight.evidence, LocalEvidence) IN
       (IF transfer THEN OwnershipTransferBlockers(e) ELSE CloudClosureBlockers(e)) = {}
=============================================================================
