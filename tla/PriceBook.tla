------------------------------ MODULE PriceBook ------------------------------
(***************************************************************************)
(* Pricing versions: drafts, the generic activation, and the reviewed      *)
(* publication that is the only way to a card with OTA rates.              *)
(*                                                                         *)
(* Time is counted in half months, so that a period may start in the       *)
(* middle of a UTC month; month starts are the even instants.  A card is   *)
(* its price for the metered service and the state of its OTA rates: none, *)
(* some, or the four approved ones (whose prices are fixed in the source). *)
(* The digest of a card is its content.  An approval by two reviewers      *)
(* names the base version; it is for the card the draft's manifest holds.  *)
(* Activation holds the pricing lock exclusively and invoice preparation   *)
(* holds it shared: each is one step.                                      *)
(***************************************************************************)
EXTENDS Integers, FiniteSets

CONSTANTS
  Versions,    \* pricing_plan_versions.id
  Cards,       \* the cards drafted by hand: price, OTA rates, tax mode
  Cutovers,    \* effective_from of the drafts
  MaxTime,     \* bound on the clock
  None

\* Later than every instant of a behaviour: effective_until IS NULL.
Forever == MaxTime + 1

Card(price, ota, tax) == [price |-> price, ota |-> ota, tax |-> tax]

RateCards == [price : Nat, ota : {"absent", "partial", "complete"},
              tax : {"line", "invoice_total"}]

ASSUME PriceBookAssumption ==
  /\ MaxTime \in Nat /\ Cutovers \subseteq 0..MaxTime
  /\ None \notin Versions /\ Cards \subseteq RateCards

VARIABLES
  now,         \* the clock
  versions     \* pricing_plan_versions with their rates and OTA draft manifest

NoVersion == [status |-> "none", from |-> 0, until |-> Forever,
              card |-> Card(0, "absent", "line"), base |-> None]

PriceBookInit == now = 0 /\ versions = [v \in Versions |-> NoVersion]

-----------------------------------------------------------------------------
MonthStart(t) == t % 2 = 0
UTCMonth(start, end) == MonthStart(start) /\ end = start + 2

Published == {v \in Versions : versions[v].status \in {"active", "retired"}}

\* The versions ActivePricingVersion selects at t.
InForce(t) == {v \in Published : versions[v].from <= t /\ t < versions[v].until}

\* ActivePricingVersion: none or two rows are errors.
ActivePricingVersion(t) ==
  IF \E v \in Versions : InForce(t) = {v} THEN CHOOSE v \in Versions : InForce(t) = {v} ELSE None

OTAEnabled(card) == card.ota # "absent"
OTAComplete(card) == card.ota # "partial"

\* ReviewOTACandidateRates: the candidate is the base with the four OTA rates.
ReviewOTACandidateRates(base, candidate) ==
  ~OTAEnabled(base) /\ candidate.ota = "complete" /\ candidate.price = base.price

Pending == \E w \in Published : versions[w].from > now

-----------------------------------------------------------------------------
CreatePricingVersion(v, from, card) ==
  /\ versions[v].status = "none"
  /\ versions' = [versions EXCEPT ![v] =
       [NoVersion EXCEPT !.status = "draft", !.from = from, !.card = card]]
  /\ UNCHANGED now

\* Copies the card in force, adds the OTA rates and stores the manifest.
CreateOTAPricingDraft(v, base, from) ==
  LET candidate == Card(versions[base].card.price, "complete", "invoice_total")
  IN /\ versions[v].status = "none"
     /\ MonthStart(from) /\ from > now
     /\ ActivePricingVersion(now) = base
     /\ ~Pending
     /\ ReviewOTACandidateRates(versions[base].card, candidate)
     /\ versions' = [versions EXCEPT ![v] =
          [status |-> "draft", from |-> from, until |-> Forever, card |-> candidate, base |-> base]]
     /\ UNCHANGED now

\* The versions whose interval reaches beyond the start of v.
Overlapping(v) == {w \in Published \ {v} : versions[w].until > versions[v].from}

\* Mutant: the base is trusted to be the one reviewed when the draft was made.
ReviewedWhenDrafted(v, base) == versions[v].base = base

\* What the approval is checked against: the card in force now is the base the
\* reviewers saw and the manifest recorded, the draft still extends it, and it
\* is the one the cutover will shorten.
ApprovalHolds(v, base) ==
  /\ versions[v].base = base
  /\ ActivePricingVersion(now) = base
  /\ ReviewOTACandidateRates(versions[base].card, versions[v].card)
  /\ Overlapping(v) \subseteq {base}

\* With nothing to shorten, v must start where the book ends, or be the first.
Contiguous(v) ==
  LET earlier == {w \in Published : versions[w].from < versions[v].from}
  IN \A w \in earlier :
       (\A x \in earlier : versions[x].from <= versions[w].from)
         => versions[w].until = versions[v].from

\* Only one version is shortened: the open one, which started before v.
Replaces(v) ==
  /\ Cardinality(Overlapping(v)) <= 1
  /\ \A w \in Overlapping(v) : versions[w].status = "active" /\ versions[v].from > versions[w].from
  /\ Overlapping(v) = {} => Contiguous(v)

\* Mutant: issued invoices are not looked at.
InvoicesDisregarded(v, invoiced) == TRUE

\* No invoice priced by the version to be shortened starts after the cutover.
NotInvoiced(v, invoiced) ==
  \A w \in Overlapping(v) : ~\E i \in invoiced : i.version = w /\ i.start >= versions[v].from

\* Mutant: the shortened version is retired but keeps its end.
RetiredOnly(w, from) == [versions[w] EXCEPT !.status = "retired"]

Shortened(w, from) == [versions[w] EXCEPT !.status = "retired", !.until = from]

\* What both ways to activate v share.  invoiced lists billing_invoices.
Activates(v, invoiced) ==
  LET from == versions[v].from
  IN /\ versions[v].status = "draft"
     /\ from > now => MonthStart(from) /\ Overlapping(v) # {}
     /\ ~Pending
     /\ Replaces(v)
     /\ NotInvoiced(v, invoiced)
     /\ versions' = [w \in Versions |->
          IF w = v THEN [versions[w] EXCEPT !.status = "active"]
          ELSE IF w \in Overlapping(v) THEN Shortened(w, from)
          ELSE versions[w]]
     /\ UNCHANGED now

\* The generic route takes neither OTA nor invoice-total cards.
ActivatePricingVersion(v, invoiced) ==
  /\ versions[v].card.tax = "line" /\ ~OTAEnabled(versions[v].card)
  /\ Activates(v, invoiced)

PublishReviewedOTAPricingVersion(v, base, invoiced) ==
  /\ versions[v].card.ota = "complete" /\ versions[v].card.tax = "invoice_total"
  /\ ApprovalHolds(v, base)
  /\ versions[v].from > now
  /\ Activates(v, invoiced)

-----------------------------------------------------------------------------
\* The rows UpcomingPricingVersion reads: two are an error.
UpcomingPricingVersions(t) == {v \in Published : versions[v].from > t}
=============================================================================
