---------------------------- MODULE InvoiceTotals ----------------------------
(***************************************************************************)
(* The arithmetic of an invoice: usage is summed by line, priced and       *)
(* rounded by line, and taxed by line or once on the invoice subtotal; the *)
(* tax of an invoice is then spread over its lines by largest remainder.   *)
(*                                                                         *)
(* A rate and a tax are fractions of small integers: BasisPoints stands    *)
(* for 10000, a divisor for ten to the power of the two scales, MaxInt for *)
(* the largest int64.  Sums and products below are exact, as those of      *)
(* math/big are; what leaves big arithmetic is compared with MaxInt.       *)
(***************************************************************************)
EXTENDS Integers, FiniteSetsExt

CONSTANTS
  Keys,        \* service, metric, unit and product; ordered as the lines are
  Quantities,  \* quantities of a fact
  Rates,       \* rates of a card: price, divisor, rounding and tax rate
  BasisPoints, TaxRates, MaxInt,
  MaxFacts     \* bound on the facts of an invoice

Modes == {"down", "up", "half_up"}

ASSUME TotalsAssumption ==
  /\ Keys \subseteq Nat /\ Quantities \subseteq Nat /\ BasisPoints \in Nat \ {0}
  /\ \A r \in Rates : r.price \in Nat /\ r.divisor \in Nat \ {0}
                     /\ r.rounding \in Modes /\ r.taxRate \in 0..BasisPoints
  /\ TaxRates \subseteq 0..BasisPoints /\ MaxInt \in Nat /\ MaxFacts \in Nat

VARIABLES
  card,        \* the rate of each key; tax mode, rate and rounding of the invoice
  count,       \* facts so far
  usage,       \* exact quantity by key, -1 without a fact
  invoice      \* the outcome of BuildDraftInvoice and IssueInvoice

vars == <<card, count, usage, invoice>>

-----------------------------------------------------------------------------
\* roundedInt64, before it is narrowed.
Rounded(n, d, mode) ==
  n \div d + (IF n % d # 0 /\ (mode = "up" \/ (mode = "half_up" /\ 2 * (n % d) >= d)) THEN 1 ELSE 0)

Fits(x) == x <= MaxInt

Lines == {k \in Keys : usage[k] >= 0}

PriceSubtotal(k) == Rounded(usage[k] * card.rate[k].price, card.rate[k].divisor, card.rate[k].rounding)

\* PriceUsage: the tax of a line taxed on its own.
LineTax(k) == Rounded(PriceSubtotal(k) * card.rate[k].taxRate, BasisPoints, card.rate[k].rounding)

Subtotal == MapThenSumSet(PriceSubtotal, Lines)

-----------------------------------------------------------------------------
(* allocateInvoiceTax *)

InvoiceTax == Rounded(Subtotal * card.taxRate, BasisPoints, card.taxRounding)

Share(k) == (PriceSubtotal(k) * card.taxRate) \div BasisPoints
Remainder(k) == (PriceSubtotal(k) * card.taxRate) % BasisPoints

Remaining == InvoiceTax - MapThenSumSet(Share, Lines)

\* Mutant: the first lines get what remains.
InLineOrder(j, k) == j < k

\* The stable sort by falling remainder.
Sooner(j, k) == Remainder(j) > Remainder(k) \/ (Remainder(j) = Remainder(k) /\ j < k)

AllocatedTax(k) ==
  Share(k) + (IF Cardinality({j \in Lines : Sooner(j, k)}) < Remaining THEN 1 ELSE 0)

\* A share that exceeds what the lines before it left of the tax.
ShareExceedsTax ==
  \E k \in Lines : Share(k) > InvoiceTax - MapThenSumSet(Share, {j \in Lines : j < k})

-----------------------------------------------------------------------------
Taxed(k) == IF card.taxMode = "line" THEN LineTax(k) ELSE AllocatedTax(k)
TaxMinor == IF card.taxMode = "line" THEN MapThenSumSet(LineTax, Lines) ELSE InvoiceTax

\* Mutant: only the sums of the invoice are compared.
OnlySumsFit == Fits(Subtotal) /\ Fits(TaxMinor)

\* The comparisons of BuildDraftInvoice and the functions it calls, each at
\* the place where a sum or product becomes an int64.
AllFit ==
  /\ \A k \in Lines : Fits(usage[k]) /\ Fits(PriceSubtotal(k))
  /\ card.taxMode = "line" => \A k \in Lines : Fits(LineTax(k)) /\ Fits(PriceSubtotal(k) + LineTax(k))
  /\ Fits(Subtotal) /\ Fits(TaxMinor) /\ Fits(Subtotal + TaxMinor)
  /\ card.taxMode = "invoice_total" => /\ ~ShareExceedsTax
                                       /\ \A k \in Lines : Fits(PriceSubtotal(k) + AllocatedTax(k))

Draft == [state |-> "draft", subtotal |-> Subtotal, tax |-> TaxMinor, total |-> Subtotal + TaxMinor,
          lines |-> [k \in Lines |-> [subtotal |-> PriceSubtotal(k), tax |-> Taxed(k),
                                      total |-> PriceSubtotal(k) + Taxed(k)]]]

\* ValidateInvoiceTotals.
Reconciles(i) ==
  /\ \A k \in DOMAIN i.lines : i.lines[k].total = i.lines[k].subtotal + i.lines[k].tax
  /\ i.subtotal = MapThenSumSet(LAMBDA k : i.lines[k].subtotal, DOMAIN i.lines)
  /\ i.tax = MapThenSumSet(LAMBDA k : i.lines[k].tax, DOMAIN i.lines)
  /\ i.total = i.subtotal + i.tax
  /\ card.taxMode = "invoice_total" =>
       i.tax = Rounded(i.subtotal * card.taxRate, BasisPoints, card.taxRounding)

Outcome(state) == [state |-> state, subtotal |-> 0, tax |-> 0, total |-> 0, lines |-> <<>>]

-----------------------------------------------------------------------------
Init ==
  /\ card \in [rate : [Keys -> Rates], taxMode : {"line"}, taxRate : {0}, taxRounding : {"down"}]
          \cup [rate : [Keys -> Rates], taxMode : {"invoice_total"}, taxRate : TaxRates,
                taxRounding : Modes]
  /\ count = 0 /\ usage = [k \in Keys |-> -1] /\ invoice = Outcome("none")

\* A fact of a line that has the quantity scale of its other facts.
AddUsageFact(k, q) ==
  /\ invoice.state = "none" /\ count < MaxFacts
  /\ count' = count + 1
  /\ usage' = [usage EXCEPT ![k] = IF @ < 0 THEN q ELSE @ + q]
  /\ UNCHANGED <<card, invoice>>

BuildDraftInvoice ==
  /\ invoice.state = "none"
  /\ invoice' = IF ~AllFit THEN Outcome("overflow")
                ELSE IF card.taxMode = "invoice_total" /\ (Remaining < 0 \/ Remaining > Cardinality(Lines))
                     THEN Outcome("mismatch")
                ELSE IF Reconciles(Draft) THEN Draft ELSE Outcome("mismatch")
  /\ UNCHANGED <<card, count, usage>>

IssueInvoice ==
  /\ invoice.state = "draft"
  /\ Reconciles(invoice)
  /\ invoice' = [invoice EXCEPT !.state = "issued"]
  /\ UNCHANGED <<card, count, usage>>

Next == (\E k \in Keys, q \in Quantities : AddUsageFact(k, q)) \/ BuildDraftInvoice \/ IssueInvoice

Spec == Init /\ [][Next]_vars

-----------------------------------------------------------------------------
\* Taxed on the invoice, a line bears its exact share of the tax, rounded to
\* one of the two integers next to it: no line pays a unit for another, and one
\* without a remainder (a free one, say) none at all.  Of two lines the dearer
\* one never bears less tax (allocateInvoiceTax).
TaxFollowsSubtotal ==
  card.taxMode = "invoice_total" =>
    \A k \in DOMAIN invoice.lines :
      LET line == invoice.lines[k]
          exact == line.subtotal * card.taxRate
      IN /\ line.tax * BasisPoints < exact + BasisPoints
         /\ exact < line.tax * BasisPoints + BasisPoints
         /\ \A j \in DOMAIN invoice.lines :
              invoice.lines[j].subtotal > line.subtotal => invoice.lines[j].tax >= line.tax

\* Every amount of a draft is an int64, and BuildDraftInvoice refuses only if a
\* quantity or the exact total is none: no intermediate check refuses more, and
\* the sums it compares at the end always reconcile.
OverflowIsExact ==
  /\ \A k \in DOMAIN invoice.lines : Fits(usage[k]) /\ Fits(invoice.lines[k].total)
  /\ Fits(invoice.total)
  /\ invoice.state \in {"overflow", "mismatch"} =>
       (\E k \in Lines : ~Fits(usage[k])) \/ ~Fits(Subtotal + TaxMinor)
=============================================================================
