---------------------------- MODULE BillingPeriod ----------------------------
(***************************************************************************)
(* A price book, the usage and the seals producers deliver, the ownership  *)
(* of the account, and the calls that close its billing periods, all at    *)
(* work on the same rows.                                                  *)
(***************************************************************************)
EXTENDS PeriodClose

bookVars == <<now, versions>>
vars == <<bookVars, intakeVars, periods, seals, ownerVars, closeVars>>

Invoiced == {[version |-> invoices[p].pricing, start |-> p[1]] : p \in {q \in Periods : invoices[q] # NoInvoice}}

Init == PriceBookInit /\ IntakeInit /\ CloseInit

Tick == now < MaxTime /\ now' = now + 1 /\ UNCHANGED versions

Pricing ==
  /\ \/ Tick
     \/ \E v \in Versions, from \in Cutovers, card \in Cards : CreatePricingVersion(v, from, card)
     \/ \E v, base \in Versions, from \in Cutovers : CreateOTAPricingDraft(v, base, from)
     \/ \E v \in Versions : ActivatePricingVersion(v, Invoiced)
     \/ \E v, base \in Versions : PublishReviewedOTAPricingVersion(v, base, Invoiced)
  /\ UNCHANGED <<intakeVars, periods, seals, ownerVars, closeVars>>

Intake ==
  /\ \/ \E u \in UsageIDs, r \in Rows : PutUsageFact(u, r) \/ InsertUsageFact(u, r)
     \/ \E m \in Months, products \in SUBSET Products : PutPlatformSeal(m, products)
     \/ \E m \in Months, products \in SUBSET Products :
          \E listed \in SUBSET Deliverable(m) : PutProducerSeal(m, products, listed)
  /\ UNCHANGED <<bookVars, ownerVars, closeVars>>

Ownership ==
  /\ \/ \E u \in Users, from \in TermStarts : InitializeResponsibility(u, from)
     \/ \E u \in Users : FinalizeOwnershipHandoff(u) \/ GetBillingProfile(u) \/ PutBillingProfile(u)
  /\ UNCHANGED <<bookVars, intakeVars, periods, seals, closeVars>>

Progress(c) ==
  \/ PostInvoiceDebit(c) \/ RecordInvoiceSettlement(c)
  \/ GetInvoiceDocument(c) \/ PutInvoiceDocument(c)

Closing ==
  /\ \E c \in Closers :
       \/ \E p \in Periods, verified \in BOOLEAN : PrepareInvoice(c, p, verified)
       \/ Progress(c) \/ Stop(c)
  /\ UNCHANGED <<bookVars, intakeVars, seals>>

Next == Pricing \/ Intake \/ Ownership \/ Closing

Spec == Init /\ [][Next]_vars

\* A call that is running goes on, and the caller asks again for a period it
\* has not seen completed: ClosePeriod is a request, nothing here repeats it.
FairSpec ==
  /\ Spec
  /\ \A c \in Closers : WF_vars(Progress(c) /\ UNCHANGED <<bookVars, intakeVars, seals>>)
  /\ \A p \in Periods : SF_vars(\E c \in Closers : /\ invoices[p] # NoInvoice
                                                  /\ PrepareInvoice(c, p, TRUE)
                                                  /\ UNCHANGED <<bookVars, intakeVars, seals>>)

-----------------------------------------------------------------------------
Issued == {p \in Periods : invoices[p] # NoInvoice}
CardOf(p) == versions[invoices[p].pricing].card

\* An invoice bills exactly the billable facts of its period, and what a
\* producer was told is stored is among them with that very content: also when
\* its check ran before the period closed and its insert came after, or when two
\* requests with one usage_id raced (PutUsageFact, usage_period_barrier).
ClosedPeriodBillsAllItsFacts ==
  \A p \in Issued :
    /\ invoices[p].refs = BillableUsageFacts(ListUsageFacts(p), CardOf(p))
    /\ \A x \in accepted : Within(x[2], p) => facts[x[1]] = x[2]

\* However calls of ClosePeriod race, stop and are repeated, the invoice is
\* debited once, a settled one is linked to its debit, and a free one has none.
InvoiceDebitedOnce ==
  \A p \in Periods :
    /\ debits[p] <= 1
    /\ debits[p] = 1 => p \in Issued /\ invoices[p].total > 0
    /\ (p \in Issued /\ invoices[p].state = "settled") =>
         /\ invoices[p].ledger = debits[p]
         /\ (invoices[p].total > 0) <=> (debits[p] = 1)

\* Two calls at work on one invoice may hold copies of different versions of it
\* (each settlement raises the version): they still render the same document, so
\* that PutInvoiceDocument refuses neither.
RendersAgree ==
  \A c \in Closers : (/\ closers[c].pc = "store"
                      /\ documents[closers[c].p] # None) => documents[closers[c].p] = closers[c].rendered

\* From the start of the first published version on, one version is in force at
\* every instant: activations leave neither a gap nor an overlap in the book.
PriceIsUnambiguous ==
  \A v \in Published, t \in 0..MaxTime :
    versions[v].from <= t => \E w \in Versions : InForce(t) = {w}

\* The version an invoice was priced by stays the one in force at the start of
\* its period: no later cutover reaches back behind an invoice.
InvoicePriceExplained ==
  \A p \in Issued : ActivePricingVersion(p[1]) = invoices[p].pricing

\* A published OTA card follows the card its reviewers compared it with and
\* leaves the price of everything else as it was.
PublishedExtendsBase ==
  \A v \in Published : OTAEnabled(versions[v].card) =>
    LET b == versions[v].base
    IN /\ b \in Published
       /\ versions[b].until = versions[v].from
       /\ ReviewOTACandidateRates(versions[b].card, versions[v].card)

\* OTA usage is invoiced only as both sources sealed it, and what they sealed
\* stays what is stored.
OTAInvoiceIsSealed ==
  \A p \in Issued : OTAEnabled(CardOf(p)) =>
    /\ p \in Months /\ seals[p].platform # None /\ seals[p].producer # None
    /\ seals[p].producer.facts = {<<u, facts[u]>> : u \in OTAFacts(p)}
    /\ \A u \in OTAFacts(p) : facts[u].product \in seals[p].platform

\* "never charge a later owner for an earlier owner's OTA usage"
\* (prepareInvoice): the recipient of an OTA invoice owned the whole month.
OTAInvoiceChargesMonthOwner ==
  \A p \in Issued : OTAEnabled(CardOf(p)) =>
    LET k == invoices[p].owner
    IN k \in DOMAIN terms /\ terms[k].from <= p[1] /\ p[2] <= terms[k].until

\* An invoice of an ownership version carries the recipient data its own owner
\* wrote, never that of the owner before.
RecipientIsOwner ==
  \A p \in Issued : invoices[p].owner > 0 => invoices[p].writer = terms[invoices[p].owner].owner

\* A user who is shown an invoice, also one who left and came back, was
\* responsible for all the usage it bills.
VisibleInvoiceIsOwn ==
  \A p \in Issued, u \in Users : InvoiceVisible(u, p) => invoices[p].refs \subseteq UsageVisible(u)

\* The estimate e is the invoice of p, or it is held for review because not all
\* was confirmed, and lacks nothing but the OTA usage.
InvoiceOrHeld(p, e, allConfirmed) ==
  LET rest == WithoutOTA(invoices[p].refs)
  IN \/ /\ e.status = IF OTAEnabled(CardOf(p)) THEN "estimated" ELSE "not_effective"
        /\ e.refs = invoices[p].refs /\ e.total = invoices[p].total
     \/ /\ e.status = "held_for_review" /\ ~allConfirmed /\ OTAEnabled(CardOf(p))
        /\ e.refs = rest /\ e.total = TotalMinor(rest, CardOf(p))

\* The estimate the current owner is shown for a period with an invoice of
\* theirs is that invoice, same facts and same total, whatever was published,
\* sealed or handed over since; or it says that it is held for review, only
\* because a check that passed for the invoice fails now (the account is not
\* active any more, the Account Manager does not confirm), and it lacks nothing
\* but the OTA usage (billingUsageForPeriod).
EstimateIsInvoiceOrHeld ==
  \A p \in Issued, u \in Users, eligible, confirmed \in BOOLEAN :
    (IsOwner(u) /\ invoices[p].owner = Current /\ InvoiceVisible(u, p)) =>
      InvoiceOrHeld(p, BillingUsageForPeriod(u, p, eligible, confirmed), eligible /\ confirmed)

\* An invoice that was issued is settled and has its document in the end, if
\* the close is asked for again after each of finitely many early ends.
CloseCompletes ==
  \A p \in Periods :
    (p \in Issued) ~> (p \in Issued /\ invoices[p].state = "settled" /\ documents[p] # None)
=============================================================================
