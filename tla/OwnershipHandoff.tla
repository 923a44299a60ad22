-------------------------- MODULE OwnershipHandoff --------------------------
(***************************************************************************)
(* The transfer of a cloud between two owners: paymentstore/handoff.go,    *)
(* handoff_settlement.go, handoff_commit.go and internal/api/handoff.go.   *)
(* Billing fences the account, waits for settlement evidence, lets both    *)
(* participants confirm one balance, authorizes the commit, and learns     *)
(* from the Account Manager that the transfer was committed or canceled.   *)
(*                                                                         *)
(* The Account Manager is outside the repository: "am" is its durable      *)
(* decision per operation, taken once, and whether it asked for the        *)
(* commit.  Its messages arrive late and again: an action that delivers    *)
(* one is enabled from the decision on.                                    *)
(***************************************************************************)
EXTENDS CloudAccount

CONSTANT MaxReceipts   \* settlement receipts of one operation

VARIABLE am   \* the Account Manager's side of every handoff

NoHandoff == [phase |-> "none", version |-> 0, source |-> None, target |-> None, period |-> 0,
              receipts |-> {}, confirmed |-> {}, grant |-> None]

\* A handoff's receipts, by the version they gave the operation.  One without
\* blockers comes with a balance snapshot.
ReceiptsAt(h, v) == {r \in handoffs[h].receipts : r.version = v}
SnapshotAt(h, v) == {r \in ReceiptsAt(h, v) : OwnershipTransferBlockers(r.evidence) = {}}

\* requireSourceResponsibilityTx.
SourceResponsible(h) == Responsible(handoffs[h].period)

Phase(h, S) == handoffs[h].phase \in S

\* Mutant: a receipt counts whatever was written since.
LiveWhateverWritten(h) ==
  {r \in SnapshotAt(h, handoffs[h].version) :
     /\ Phase(h, {"preparing", "prepared"}) /\ SourceResponsible(h)
     /\ OwnershipTransferBlockers(Merge(r.evidence, LocalEvidence)) = {}
     /\ account.state # "closed"}

\* handoffSettlementStatusTx: the snapshot the operation shows now, if any.
LiveSnapshot(h) ==
  {r \in SnapshotAt(h, handoffs[h].version) :
     /\ Phase(h, {"preparing", "prepared"}) /\ SourceResponsible(h)
     /\ r.digest = Digest
     /\ OwnershipTransferBlockers(Merge(r.evidence, LocalEvidence)) = {}
     /\ account.state # "closed"}

-----------------------------------------------------------------------------
(* Preparation *)

PrepareOwnershipHandoff(h, u) ==
  /\ Phase(h, {"none"}) /\ account.state = "active" /\ ~Fenced
  /\ HasOwner /\ u # periods[Current].owner
  /\ handoffs' = [handoffs EXCEPT ![h] = [NoHandoff EXCEPT
        !.phase = "preparing", !.version = 1, !.period = Current,
        !.source = periods[Current].owner, !.target = u]]
  /\ LET cut == {m \in Methods : SetupOpen(m)} IN
       /\ setups' = [m \in Methods |-> IF m \in cut THEN "failed" ELSE setups[m]]
       /\ voided' = [m \in Methods |-> IF m \in cut THEN "yes" ELSE voided[m]]
       /\ methods' = [m \in Methods |-> IF m \in cut THEN "revoked" ELSE methods[m]]
       /\ IF cut = {} THEN UNCHANGED writes ELSE Digested
  /\ usage' = [usage EXCEPT !.late = FALSE]   \* the cutoff is now
  /\ UNCHANGED <<account, pay, reversal, began, periods, closures, am>>

-----------------------------------------------------------------------------
(* Settlement and confirmation *)

\* RecordHandoffSettlement with evidence captured at "digest": a receipt, a new
\* version and, when nothing blocks, a new snapshot to confirm.
RecordHandoffSettlement(h, digest, evidence) ==
  /\ Phase(h, {"preparing", "prepared"}) /\ SourceResponsible(h)
  /\ digest = Digest /\ evidence.balance = account.balance
  /\ LET merged == Merge(evidence, LocalEvidence)
         next == handoffs[h].version + 1 IN
       handoffs' = [handoffs EXCEPT
         ![h].version = next,
         ![h].phase = IF OwnershipTransferBlockers(merged) = {} /\ account.state # "closed"
                      THEN "prepared" ELSE "preparing",
         ![h].receipts = @ \cup {[version |-> next, digest |-> Digest, evidence |-> merged]}]
  /\ UNCHANGED <<moneyVars, writes, payerVars, periods, closures, am>>

\* ConfirmHandoffSnapshot by a participant who saw snapshot v and its balance b.
ConfirmHandoffSnapshot(h, u, v, b) ==
  /\ u \in {handoffs[h].source, handoffs[h].target}
  /\ \E r \in LiveSnapshot(h) : r.version = v /\ r.evidence.balance = b
  /\ handoffs' = [handoffs EXCEPT ![h].confirmed = @ \cup {<<v, u>>}]
  /\ UNCHANGED <<moneyVars, writes, payerVars, periods, closures, am>>

-----------------------------------------------------------------------------
(* Commit *)

\* Mutant: any confirmation counts, of this snapshot or an earlier one.
ConfirmedSometime(h, v) ==
  \A u \in {handoffs[h].source, handoffs[h].target} :
    \E w \in 1..v : <<w, u>> \in handoffs[h].confirmed

BothConfirmed(h, v) ==
  \A u \in {handoffs[h].source, handoffs[h].target} : <<v, u>> \in handoffs[h].confirmed

\* The Account Manager saw both confirmations of snapshot v, and persists and
\* sends its authorization request.
AskForCommit(h, v) ==
  /\ am[h].decision = "open" /\ am[h].asked < v /\ BothConfirmed(h, v)
  /\ am' = [am EXCEPT ![h].asked = v]
  /\ UNCHANGED <<moneyVars, writes, payerVars, periods, handoffs, closures>>

\* AuthorizeHandoffCommit: the request may arrive after the Account Manager
\* canceled; the grant keeps the digest of the confirmed snapshot's receipt.
AuthorizeHandoffCommit(h, v) ==
  /\ am[h].asked = v /\ handoffs[h].grant = None
  /\ \E r \in LiveSnapshot(h) :
       /\ r.version = v /\ BothConfirmed(h, v)
       /\ handoffs' = [handoffs EXCEPT ![h].phase = "commit_authorized", ![h].version = @ + 1,
                         ![h].grant = [snapshot |-> v, digest |-> r.digest]]
  /\ UNCHANGED <<moneyVars, writes, payerVars, periods, closures, am>>

\* The Account Manager's one decision: commit needs the grant.
Decide(h, d) ==
  /\ ~Phase(h, {"none"}) /\ am[h].decision = "open"
  /\ d = "committed" => handoffs[h].grant # None
  /\ am' = [am EXCEPT ![h].decision = d]
  /\ UNCHANGED <<moneyVars, writes, payerVars, periods, handoffs, closures>>

\* FinalizeOwnershipHandoff, first transaction: the decision, in its own right.
RecordCommittedDecision(h) ==
  /\ am[h].decision = "committed"
  /\ Phase(h, {"commit_authorized"}) /\ SourceResponsible(h)
  /\ handoffs' = [handoffs EXCEPT ![h].phase = "finalizing", ![h].version = @ + 1]
  /\ UNCHANGED <<moneyVars, writes, payerVars, periods, closures, am>>

\* Mutant: the second transaction does not compare the digest.
FinalizeUnchecked(h) ==
  /\ am[h].decision = "committed"
  /\ Phase(h, {"finalizing"}) /\ SourceResponsible(h)
  /\ periods' = Append([periods EXCEPT ![handoffs[h].period].ended = TRUE],
                       OpenPeriod(handoffs[h].target, account.balance, h))
  /\ methods' = [m \in Methods |-> IF methods[m] = "none" THEN "none" ELSE "revoked"]
  /\ handoffs' = [handoffs EXCEPT ![h].phase = "finalized", ![h].version = @ + 1]
  /\ UNCHANGED <<moneyVars, writes, setups, voided, began, closures, am>>

\* Mutant: the new owner takes over the stored methods.
FinalizeKeepingMethods(h) ==
  /\ am[h].decision = "committed"
  /\ Phase(h, {"finalizing"}) /\ SourceResponsible(h)
  /\ handoffs[h].grant.digest = Digest /\ account.balance >= 0
  /\ periods' = Append([periods EXCEPT ![handoffs[h].period].ended = TRUE],
                       OpenPeriod(handoffs[h].target, account.balance, h))
  /\ handoffs' = [handoffs EXCEPT ![h].phase = "finalized", ![h].version = @ + 1]
  /\ UNCHANGED <<moneyVars, writes, payerVars, closures, am>>

\* Second transaction: the source's period ends, the target's begins with the
\* balance, and no stored payment authority passes over.
FinalizeOwnershipHandoff(h) ==
  /\ am[h].decision = "committed"
  /\ Phase(h, {"finalizing"}) /\ SourceResponsible(h)
  /\ handoffs[h].grant.digest = Digest /\ account.balance >= 0
  /\ periods' = Append([periods EXCEPT ![handoffs[h].period].ended = TRUE],
                       OpenPeriod(handoffs[h].target, account.balance, h))
  /\ methods' = [m \in Methods |-> IF methods[m] = "none" THEN "none" ELSE "revoked"]
  /\ handoffs' = [handoffs EXCEPT ![h].phase = "finalized", ![h].version = @ + 1]
  /\ UNCHANGED <<moneyVars, writes, setups, voided, began, closures, am>>

-----------------------------------------------------------------------------
(* Abort *)

\* Mutant: a cancellation that does not know of the grant is refused.
AbortUnlessGranted(h) ==
  /\ am[h].decision = "canceled"
  /\ Phase(h, {"preparing", "prepared"}) /\ SourceResponsible(h)
  /\ handoffs' = [handoffs EXCEPT ![h].phase = "abort_pending", ![h].version = @ + 1]
  /\ UNCHANGED <<moneyVars, writes, payerVars, periods, closures, am>>

\* BeginOwnershipHandoffAbort: the cancellation names the authorization that
\* was asked for, which covers a grant issued since.
BeginOwnershipHandoffAbort(h) ==
  /\ am[h].decision = "canceled"
  /\ Phase(h, {"preparing", "prepared", "commit_authorized"}) /\ SourceResponsible(h)
  /\ handoffs[h].grant # None => handoffs[h].grant.snapshot = am[h].asked
  /\ handoffs' = [handoffs EXCEPT ![h].phase = "abort_pending", ![h].version = @ + 1]
  /\ UNCHANGED <<moneyVars, writes, payerVars, periods, closures, am>>

\* CompleteOwnershipHandoffAbort, when the holds are released: nothing revoked
\* meanwhile comes back.
CompleteOwnershipHandoffAbort(h) ==
  /\ Phase(h, {"abort_pending"}) /\ SourceResponsible(h)
  /\ handoffs' = [handoffs EXCEPT ![h].phase = "aborted", ![h].version = @ + 1]
  /\ UNCHANGED <<moneyVars, writes, payerVars, periods, closures, am>>

-----------------------------------------------------------------------------
(* The coordinator's HTTP handlers: what they check before the store *)

prepareHandoff(h, u) == PrepareOwnershipHandoff(h, u)

confirmHandoff(h, u, v, b) == v >= 2 /\ b >= 0 /\ ConfirmHandoffSnapshot(h, u, v, b)

authorizeHandoffCommit(h, v) == v >= 2 /\ AuthorizeHandoffCommit(h, v)

\* One request runs both transactions; it may die between them.
finalizeHandoff(h) == RecordCommittedDecision(h) \/ FinalizeOwnershipHandoff(h)

beginHandoffAbort(h) == BeginOwnershipHandoffAbort(h)
=============================================================================
