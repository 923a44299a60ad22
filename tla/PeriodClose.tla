----------------------------- MODULE PeriodClose -----------------------------
(***************************************************************************)
(* Closing a billing period of one account: the invoice, its debit, its    *)
(* settlement and its document, and the profile and the responsibility the *)
(* invoice is addressed by.                                                *)
(*                                                                         *)
(* ClosePeriod is a sequence of transactions, each a step here, carried by *)
(* a call that keeps its own copy of the invoice between them, may stop    *)
(* between any two (a crash, an error, a barrier), and may be one of       *)
(* several at work on the same period.  Nothing in it waits for the end of *)
(* the period: the caller's calendar decides.                              *)
(***************************************************************************)
EXTENDS UsageIntake, Sequences, Functions

CONSTANTS
  Users,
  Closers,     \* concurrent calls of ClosePeriod
  OTAPrice,    \* the approved price of one OTA unit
  TermStarts,  \* effective_from of the first responsibility
  MaxTerms,    \* bound on ownership versions
  MaxStops     \* bound on calls that end early

ASSUME CloseAssumption ==
  /\ OTAPrice \in Nat /\ MaxTerms \in Nat /\ MaxStops \in Nat
  /\ TermStarts \subseteq Nat /\ None \notin Users

VARIABLES
  terms,       \* billing_responsibility_periods, in order of ownership version
  profile,     \* billing_profiles: ownership version (0: NULL), who wrote it
  invoices,    \* billing_invoices, lines and settlement link, by period
  debits,      \* balance_ledger_entries of scope billing_invoice, by period
  documents,   \* billing_invoice_documents, by period
  closers,     \* the calls of ClosePeriod
  stops

ownerVars == <<terms, profile>>
closeVars == <<invoices, debits, documents, closers, stops>>

NoInvoice == [state |-> "none"]

Idle == [pc |-> "idle", p |-> None, invoice |-> None, ledger |-> 0, rendered |-> None]

CloseInit ==
  /\ terms = <<>> /\ profile = None
  /\ invoices = [p \in Periods |-> NoInvoice]
  /\ debits = [p \in Periods |-> 0]
  /\ documents = [p \in Periods |-> None]
  /\ closers = [c \in Closers |-> Idle]
  /\ stops = 0

-----------------------------------------------------------------------------
(* Responsibility and profile *)

Current == Len(terms)
HasOwner == Current > 0
IsOwner(u) == HasOwner /\ terms[Current].owner = u

InitializeResponsibility(u, from) ==
  /\ ~HasOwner /\ from <= now
  /\ terms' = <<[owner |-> u, from |-> from, until |-> Forever]>>
  /\ UNCHANGED profile

\* The stored profile, or a new one: under responsibility it must be configured
\* first, otherwise it is usable at once and belongs to no ownership version.
EnsureBillingProfile ==
  IF profile # None THEN profile
  ELSE [owner |-> Current, writer |-> None, required |-> HasOwner]

\* Mutant: the successor inherits the configured profile.
ProfileInherited(owner) ==
  IF profile = None THEN None ELSE [profile EXCEPT !.owner = owner]

ProfileReset(owner) == [owner |-> owner, writer |-> None, required |-> TRUE]

\* FinalizeOwnershipHandoff: what it does to responsibility and profile.
FinalizeOwnershipHandoff(u) ==
  /\ HasOwner /\ ~IsOwner(u) /\ Current < MaxTerms /\ now > terms[Current].from
  /\ terms' = Append([terms EXCEPT ![Current].until = now],
                     [owner |-> u, from |-> now, until |-> Forever])
  /\ profile' = ProfileReset(Current + 1)

\* Both for the current owner, whose ownership version the profile must have.
GetBillingProfile(u) ==
  /\ IsOwner(u) /\ EnsureBillingProfile.owner = Current
  /\ profile' = EnsureBillingProfile
  /\ UNCHANGED terms

PutBillingProfile(u) ==
  /\ IsOwner(u) /\ profile # None /\ profile.owner = Current
  /\ profile' = [profile EXCEPT !.writer = u, !.required = FALSE]
  /\ UNCHANGED terms

-----------------------------------------------------------------------------
(* The invoice *)

\* BillableUsageFacts: OTA facts are left out while the card has no OTA rates.
BillableUsageFacts(us, card) == {u \in us : IsOTA(facts[u]) => OTAEnabled(card)}

\* A fact no rate prices: BuildDraftInvoice fails.
RateMissing(us) == \E u \in us : facts[u].metric = "unrated"

Price(u, card) == IF IsOTA(facts[u]) THEN OTAPrice ELSE card.price

TotalMinor(us, card) == SumFunction([u \in us |-> Price(u, card)])

\* Mutant: whoever is responsible when the period is closed.
ResponsibleNow(p) == HasOwner

\* The current responsibility began no later than the period.
OwnsWholeMonth(p) == HasOwner /\ terms[Current].from <= p[1]

\* What a period needs before its profile is looked at.  verified says that the
\* account is active and the Account Manager confirms its tier and the grants: it
\* may fail, and whichever of them does, the period is incomplete.
EvidenceComplete(p, verified) ==
  LET v == ActivePricingVersion(p[1])
      card == versions[v].card
      billable == BillableUsageFacts(ListUsageFacts(p), card)
  IN /\ v # None
     /\ OTAEnabled(card) =>
          /\ OTAComplete(card)
          /\ UTCMonth(p[1], p[2])
          /\ OwnsWholeMonth(p)
          /\ verified
          /\ VerifyOTAPeriodSeals(p)
          /\ VerifyOTAFactGrants(billable)
     /\ billable # {}

\* The profile is configured and, where OTA is charged, the current owner's.
Addressed(p, prof) ==
  /\ OTAEnabled(versions[ActivePricingVersion(p[1])].card) => prof.owner = Current
  /\ ~prof.required

\* BuildDraftInvoice and IssueInvoice, with the profile as recipient.
Invoice(p, prof) ==
  LET v == ActivePricingVersion(p[1])
      billed == BillableUsageFacts(ListUsageFacts(p), versions[v].card)
  IN [pricing |-> v, refs |-> billed, total |-> TotalMinor(billed, versions[v].card),
      owner |-> prof.owner, writer |-> prof.writer,
      state |-> "issued", ledger |-> 0, version |-> 2]

Works(c, p, invoice) == closers' =
  [closers EXCEPT ![c] = [Idle EXCEPT !.pc = "debit", !.p = p, !.invoice = invoice, !.ledger = invoice.ledger]]

\* PrepareInvoice, one transaction: the stored invoice, an incomplete period
\* that is kept, a failed calculation that is rolled back (no step), or a new
\* invoice and a closed period.
PrepareInvoice(c, p, verified) ==
  LET prof == EnsureBillingProfile
  IN /\ closers[c].pc = "idle"
     /\ \/ /\ invoices[p] # NoInvoice
           /\ Works(c, p, invoices[p])
           /\ UNCHANGED <<periods, profile, invoices>>
        \/ /\ invoices[p] = NoInvoice /\ ~EvidenceComplete(p, verified)
           /\ periods' = [periods EXCEPT ![p] = "incomplete"]
           /\ UNCHANGED <<profile, invoices, closers>>
        \/ /\ invoices[p] = NoInvoice /\ EvidenceComplete(p, verified) /\ ~Addressed(p, prof)
           /\ periods' = [periods EXCEPT ![p] = "incomplete"]
           /\ profile' = prof
           /\ UNCHANGED <<invoices, closers>>
        \/ /\ invoices[p] = NoInvoice /\ EvidenceComplete(p, verified) /\ Addressed(p, prof)
           /\ ~RateMissing(ListUsageFacts(p))
           /\ periods' = [periods EXCEPT ![p] = "closed"]
           /\ profile' = prof
           /\ invoices' = [invoices EXCEPT ![p] = Invoice(p, prof)]
           /\ Works(c, p, Invoice(p, prof))
     /\ UNCHANGED <<terms, debits, documents, stops>>

\* Mutant: every call posts an entry of its own.
EntryAdded(p) == debits[p] + 1

\* PostLedgerEntry with the invoice as idempotency key: the entry that is there.
PostLedgerEntry(p) == IF debits[p] > 0 THEN debits[p] ELSE 1

\* The debit, unless there is nothing to pay or the copy names an entry.
PostInvoiceDebit(c) ==
  LET k == closers[c]
      needed == k.invoice.total > 0 /\ k.ledger = 0
  IN /\ k.pc = "debit"
     /\ debits' = IF needed THEN [debits EXCEPT ![k.p] = PostLedgerEntry(k.p)] ELSE debits
     /\ closers' = [closers EXCEPT ![c].pc = "settle",
                                   ![c].ledger = IF needed THEN PostLedgerEntry(k.p) ELSE @]
     /\ UNCHANGED <<periods, terms, profile, invoices, documents, stops>>

\* The copy is settled and linked: nothing left to record.
Recorded(k) == k.invoice.state = "settled" /\ k.ledger = k.invoice.ledger

\* Mutant: a settled invoice is done, document or not.
AfterSettlement(k) == IF Recorded(k) THEN Idle ELSE [k EXCEPT !.pc = "document"]

ThenDocument(k) == [k EXCEPT !.pc = "document"]

\* RecordInvoiceSettlement: a link that is there stays.
RecordInvoiceSettlement(c) ==
  LET k == closers[c]
      i == invoices[k.p]
      settled == [i EXCEPT !.state = "settled", !.version = @ + 1,
                           !.ledger = IF @ > 0 THEN @ ELSE k.ledger]
  IN /\ k.pc = "settle"
     /\ IF Recorded(k)
        THEN /\ closers' = [closers EXCEPT ![c] = ThenDocument(k)]
             /\ UNCHANGED invoices
        ELSE /\ invoices' = [invoices EXCEPT ![k.p] = settled]
             /\ closers' = [closers EXCEPT ![c] = ThenDocument([k EXCEPT !.invoice = settled])]
     /\ UNCHANGED <<periods, terms, profile, debits, documents, stops>>

\* Mutant: the document also shows the version of the invoice.
RenderVersion(i) == [owner |-> i.owner, writer |-> i.writer, refs |-> i.refs,
                     total |-> i.total, version |-> i.version]

\* RenderInvoice: recipient, lines and totals, none of which changes.
RenderInvoice(i) == [owner |-> i.owner, writer |-> i.writer, refs |-> i.refs, total |-> i.total]

\* The call is over if there is a document.
GetInvoiceDocument(c) ==
  LET k == closers[c]
  IN /\ k.pc = "document"
     /\ closers' = [closers EXCEPT ![c] =
          IF documents[k.p] # None THEN Idle
          ELSE [k EXCEPT !.pc = "store", !.rendered = RenderInvoice(k.invoice)]]
     /\ UNCHANGED <<periods, terms, profile, invoices, debits, documents, stops>>

\* Another document that is there is compared with this one: an error unless
\* they are the same (RendersAgree).
PutInvoiceDocument(c) ==
  LET k == closers[c]
  IN /\ k.pc = "store"
     /\ documents' = IF documents[k.p] = None THEN [documents EXCEPT ![k.p] = k.rendered] ELSE documents
     /\ closers' = [closers EXCEPT ![c] = Idle]
     /\ UNCHANGED <<periods, terms, profile, invoices, debits, stops>>

\* The call ends early.
Stop(c) ==
  /\ closers[c].pc # "idle" /\ stops < MaxStops
  /\ stops' = stops + 1
  /\ closers' = [closers EXCEPT ![c] = Idle]
  /\ UNCHANGED <<periods, terms, profile, invoices, debits, documents>>

-----------------------------------------------------------------------------
(* What a user is shown *)

\* Mutant: the recipient's ownership version decides.
VisibleToRecipient(u, p) ==
  \E k \in DOMAIN terms : terms[k].owner = u /\ invoices[p].owner = k

\* invoiceVisibility: the responsibility period that received the invoice is
\* u's and holds the whole billing period.
InvoiceVisible(u, p) ==
  \E k \in DOMAIN terms : /\ terms[k].owner = u /\ invoices[p].owner = k
                          /\ terms[k].from <= p[1] /\ p[2] <= terms[k].until

\* usageVisibility.
UsageVisible(u) ==
  {f \in Stored : \E k \in DOMAIN terms :
     /\ terms[k].owner = u
     /\ terms[k].from <= facts[f].start /\ facts[f].end <= terms[k].until}

\* Mutant: also from an owner who came exactly when the month began.
HeldFromMonthStart(p) == terms[Current].from >= p[1] - (p[1] % 2) \/ ~UTCMonth(p[1], p[2])

\* OTA usage is withheld from an owner who came during the month, and from a
\* window that is not a month.
HeldForReview(p) == terms[Current].from > p[1] - (p[1] % 2) \/ ~UTCMonth(p[1], p[2])

WithoutOTA(us) == {f \in us : ~IsOTA(facts[f])}

\* VerifyOTAFactGrants at the time of the question: confirmed is what the
\* Account Manager answers about the grants, and is asked for OTA facts only.
GrantsConfirmed(us, confirmed) ==
  VerifyOTAFactGrants(us) /\ (WithoutOTA(us) # us => confirmed)

Estimate(status, refs, total) == [status |-> status, refs |-> refs, total |-> total]

\* billingUsageForPeriod, for the current owner u.  eligible is the outcome of
\* VerifyOTAAccountEligibility, that the account is active and the Account
\* Manager confirms its tier.  A missing price book is an answer of its own; an
\* incomplete card and a fact no rate prices are errors.
BillingUsageForPeriod(u, p, eligible, confirmed) ==
  LET v == ActivePricingVersion(p[1])
      card == versions[v].card
      listed == ListUsageFacts(p) \cap UsageVisible(u)
      withheld == OTAEnabled(card) /\ (HeldForReview(p) \/ ~eligible)
      billable == BillableUsageFacts(IF withheld THEN WithoutOTA(listed) ELSE listed, card)
      held == withheld \/ (OTAEnabled(card) /\ ~GrantsConfirmed(billable, confirmed))
      billed == IF held THEN WithoutOTA(billable) ELSE billable
      status == IF held THEN "held_for_review"
                ELSE IF OTAEnabled(card) THEN "estimated" ELSE "not_effective"
  IN IF v = None THEN Estimate("unavailable", {}, 0)
     ELSE IF ~OTAComplete(card) \/ RateMissing(billed) THEN Estimate("error", {}, 0)
     ELSE Estimate(status, billed, TotalMinor(billed, card))
=============================================================================
