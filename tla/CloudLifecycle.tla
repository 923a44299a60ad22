--------------------------- MODULE CloudLifecycle ---------------------------
(***************************************************************************)
(* A cloud's account over its life: money, payment authority, reversals,   *)
(* the ownership handoff, the closure and the settlement collector, all    *)
(* interleaved.                                                            *)
(***************************************************************************)
EXTENDS CloudClosure

CONSTANT CarriedBalances   \* balances of accounts from before responsibility periods

ASSUME CarriedAssumption == CarriedBalances \subseteq Int

vars == <<moneyVars, writes, payerVars, periods, handoffs, closures, am, collectorVars>>

\* An account is provisioned with its owner, or it is from before
\* responsibility periods and has a balance already.
Init ==
  /\ account \in {[state |-> "absent", balance |-> 0]}
                \cup {[state |-> "active", balance |-> b] : b \in CarriedBalances}
  /\ writes = 0 /\ periods = <<>>
  /\ usage = [stage |-> "none", late |-> FALSE]
  /\ pay = [p \in Payments |-> [state |-> "none", period |-> 0, inbox |-> "empty"]]
  /\ reversal = [r \in Reversals |-> [as |-> "none", of |-> None, in |-> 0]]
  /\ setups = [m \in Methods |-> "none"] /\ methods = [m \in Methods |-> "none"]
  /\ voided = [m \in Methods |-> "no"] /\ began = [m \in Methods |-> 0]
  /\ handoffs = [h \in Handoffs |-> NoHandoff]
  /\ closures = [c \in Closures |-> NoClosure]
  /\ am = [h \in Handoffs |-> [asked |-> 0, decision |-> "open"]]
  /\ collector = Idle /\ preflight = NoReceipt

Provision == \E u \in Users : BootstrapBrandCloud(u) \/ InitializeResponsibility(u)

Money ==
  \/ ProduceUsage \/ SettleUsage
  \/ \E p \in Payments :
       \/ StartPayment(p) \/ CapturePayment(p) \/ FailPayment(p) \/ RecordWebhook(p)
       \/ \E k \in DOMAIN periods : BindHistoricalPaymentResponsibility(p, k)
       \/ \E r \in Reversals : RecordProviderReversal(r, p)
  \/ \E r \in Reversals : ResolveProviderReversal(r)

Authority ==
  \E m \in Methods :
    \/ BeginPaymentMethodSetup(m) \/ RevokePaymentMethod(m)
    \/ \E result \in {"requires_action", "succeeded", "failed"} : CompletePaymentMethodSetup(m, result)

Handoff ==
  \E h \in Handoffs :
    \/ \E u \in Users : prepareHandoff(h, u)
    \/ \E u \in Users, v \in 2..(MaxReceipts + 1), b \in 0..MaxBalance : confirmHandoff(h, u, v, b)
    \/ \E v \in 2..(MaxReceipts + 1) : AskForCommit(h, v) \/ authorizeHandoffCommit(h, v)
    \/ finalizeHandoff(h) \/ beginHandoffAbort(h) \/ CompleteOwnershipHandoffAbort(h)
    \/ Decide(h, "committed") \/ Decide(h, "canceled")

Closing ==
  \E c \in Closures :
    \/ PrepareCloudClosure(c) \/ CancelCloudClosure(c) \/ CompleteCloudClosureCancellation(c)
    \/ \E m \in Methods : RecordCloudClosureRevocation(c, m)
    \/ \E i \in DOMAIN closures[c].receipts : CloseCloud(c, i) \/ RetireCloudClose(c, i)

\* The steps of a pass that leave the account alone.
Collect ==
  /\ \/ CapturePreflight \/ Attest \/ RecordPreflight \/ Fail
     \/ \E h \in Handoffs : CaptureHandoff(h)
     \/ \E c \in Closures : CaptureClosure(c)
     \/ Reconcile(IF collector.target \in Closures THEN ClosureDigest(collector.target) ELSE Digest)
  /\ UNCHANGED <<moneyVars, writes, payerVars, periods, handoffs, closures, am>>

Record == (\E h \in Handoffs : RecordHandoff(h)) \/ (\E c \in Closures : RecordClosure(c))

Next ==
  \/ (Provision \/ Money \/ Authority) /\ UNCHANGED <<am, collectorVars>>
  \/ (Handoff \/ Closing) /\ UNCHANGED collectorVars
  \/ Collect \/ Record \/ ExpireReceipts

Spec == Init /\ [][Next]_vars

-----------------------------------------------------------------------------
(* Properties *)

\* The target opens with exactly the balance that both participants confirmed
\* in the one snapshot the commit was authorized on, and it is not negative,
\* whatever usage, payments and reversals arrived in between
\* (handoff_commit.go:77-86 and 178-195).
ConfirmedBalanceTransfers ==
  \A k \in DOMAIN periods :
    periods[k].by # None =>
      LET h == periods[k].by
          v == handoffs[h].grant.snapshot IN
        /\ \E r \in ReceiptsAt(h, v) : r.evidence.balance = periods[k].opening
        /\ periods[k].opening >= 0
        /\ {<<v, handoffs[h].source>>, <<v, handoffs[h].target>>} \subseteq handoffs[h].confirmed

\* From the grant until the decision is carried out the account does not move:
\* the balance is the granted one, the source's usage is settled, no payment
\* and no setup is open (enforce_billing_handoff_commit_barrier and the fence).
StillUntilDecided ==
  \A h \in Handoffs :
    Committing(h) =>
      /\ \E r \in ReceiptsAt(h, handoffs[h].grant.snapshot) : r.evidence.balance = account.balance
      /\ usage.stage \in {"produced", "accepted", "invoiced"} => usage.late
      /\ \A p \in Payments : pay[p].state # "open"
      /\ \A m \in Methods : ~SetupOpen(m)

\* A reversal debits the balance only while the owner who was credited is
\* responsible for it, and at most once per payment: a chargeback that arrives
\* after a transfer never reaches the new owner (reversals.go:105-171).
ReversalChargesItsOwner ==
  /\ \A r \in Reversals :
       reversal[r].as = "balance" =>
         /\ reversal[r].in = pay[reversal[r].of].period
         /\ reversal[r].in # 0
  /\ \A p \in Payments : \A r, s \in Allocated(p) : r = s

\* Payment authority never changes hands: a method that can still be used was
\* set up under the current owner, and one whose setup an operation cut short
\* stays revoked whatever the provider answers later (setups.go:169-293,
\* handoff_commit.go:214-220).
AuthorityBelongsToOwner ==
  \A m \in Methods :
    /\ methods[m] \in {"pending", "active"} => began[m] = Current \/ began[m] = 0
    /\ voided[m] # "no" => methods[m] = "revoked"

\* A closed account is empty and stays so: no balance, no unsettled usage, no
\* open payment or setup, no usable method, every revocation acknowledged by
\* its provider, and the closing command was not a retired one
\* (cloud_closure.go:449-521, cloud_closure_retirement.go:26-90).
ClosedIsSettled ==
  account.state = "closed" =>
    /\ account.balance = 0 /\ usage.stage \in {"none", "settled"}
    /\ \A p \in Payments : pay[p].state # "open"
    /\ \A m \in Methods : ~SetupOpen(m) /\ methods[m] \in {"none", "revoked"}
    /\ \A c \in Closures :
         ClosurePhase(c, {"closed"}) =>
           /\ {m \in Methods : methods[m] # "none"} = closures[c].acked
           /\ closures[c].completion \notin closures[c].retired

\* The advisory answer is never optimistic about Billing's own rows: when it
\* says a transfer or a deletion is eligible, all accepted usage is settled and
\* nothing is open now, not only when the receipt was taken
\* (cloud_preflight.go:175-261).
EligibleMeansSettled ==
  \A transfer \in BOOLEAN :
    Eligible(transfer) =>
      /\ usage.stage \notin {"accepted", "invoiced"} /\ OpenWork = {}
      /\ IF transfer THEN account.balance >= 0 ELSE account.balance = 0

\* The Account Manager repeats its cancellation until it is acknowledged, and
\* the hold release is certified once it is: handoff_commit.go:294, :363.
FairSpec ==
  /\ Spec
  /\ \A h \in Handoffs : WF_vars(beginHandoffAbort(h) /\ UNCHANGED collectorVars)
  /\ \A h \in Handoffs : WF_vars(CompleteOwnershipHandoffAbort(h) /\ UNCHANGED collectorVars)

\* A canceled handoff releases the account, also when its authorization was
\* granted after the cancellation was decided (handoff_commit.go:325-334): the
\* fence never outlives the cancellation.
CancellationReleasesFence ==
  \A h \in Handoffs : am[h].decision = "canceled" ~> Phase(h, {"aborted"})
=============================================================================
