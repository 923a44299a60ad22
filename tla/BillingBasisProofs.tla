------------------------- MODULE BillingBasisProofs -------------------------
(***************************************************************************)
(* Proofs about what BillingPeriod bills from: the price book has one      *)
(* price at a time, accepted usage and seals keep their shape, the past of *)
(* a responsibility never changes, and an invoice is written once.  Used   *)
(* by BillingProofs.                                                       *)
(***************************************************************************)
EXTENDS BillingPeriod, TLAPS

-----------------------------------------------------------------------------
(* The price book *)

VersionRows ==
  [status : {"none", "draft", "active", "retired"}, from : 0..MaxTime, until : 0..Forever,
   card : RateCards, base : Versions \cup {None}]

BookType == now \in 0..MaxTime /\ versions \in [Versions -> VersionRows]

\* The open version is the active one, and no published interval is empty.
Ends ==
  \A v \in Versions :
    /\ v \notin Published => versions[v].until = Forever
    /\ v \in Published => /\ versions[v].from < versions[v].until
                          /\ versions[v].status = "active" <=> versions[v].until = Forever

NoOverlap ==
  \A v, w \in Published :
    v # w => versions[v].until <= versions[w].from \/ versions[w].until <= versions[v].from

NoGap ==
  \A v \in Published, t \in 0..MaxTime : versions[v].from <= t => InForce(t) # {}

\* PublishedExtendsBase, with the base retired, so that nothing shortens it again.
Extends ==
  \A v \in Published : OTAEnabled(versions[v].card) =>
    /\ versions[v].base \in Versions
    /\ versions[versions[v].base].status = "retired"
    /\ versions[versions[v].base].until = versions[v].from
    /\ ReviewOTACandidateRates(versions[versions[v].base].card, versions[v].card)

BookInv == BookType /\ Ends /\ NoOverlap /\ NoGap /\ Extends

-----------------------------------------------------------------------------
(* Usage and seals *)

Seals == [platform : (SUBSET Products) \cup {None},
          producer : [products : SUBSET Products, facts : SUBSET (UsageIDs \X Rows)] \cup {None}]

IntakeInv ==
  /\ facts \in [UsageIDs -> Rows \cup {None}]
  /\ posts \subseteq UsageIDs \X Rows
  /\ accepted \subseteq UsageIDs \X Rows
  /\ \A x \in accepted : facts[x[1]] = x[2]
  /\ seals \in [Months -> Seals]
  /\ \A m \in Months : seals[m].platform # None => m[2] <= now

-----------------------------------------------------------------------------
(* Responsibility *)

Terms == [owner : Users, from : Nat, until : Nat]

\* A profile is of an ownership version that exists, and a configured one was
\* written by the owner of that version.
ProfileOf(prof) ==
  /\ prof \in [owner : Nat, writer : Users \cup {None}, required : BOOLEAN]
  /\ prof.owner <= Current
  /\ prof.owner > 0 /\ ~prof.required => prof.writer = terms[prof.owner].owner

OwnerInv ==
  /\ terms \in Seq(Terms)
  /\ HasOwner => terms[Current].until = Forever
  /\ profile # None => ProfileOf(profile)

-----------------------------------------------------------------------------
(* Invoices *)

InvoiceFields == {"pricing", "refs", "total", "owner", "writer", "state", "ledger", "version"}
IsInvoice(i) == DOMAIN i = InvoiceFields /\ i = [f \in InvoiceFields |-> i[f]]

InvoiceType ==
  /\ periods \in [Periods -> {"none", "incomplete", "closed"}]
  /\ DOMAIN invoices = Periods /\ invoices = [p \in Periods |-> invoices[p]]
  /\ \A p \in Issued : IsInvoice(invoices[p])
  /\ \A p \in Periods : periods[p] = "closed" <=> p \in Issued

-----------------------------------------------------------------------------
(* Calls of ClosePeriod *)

CloserFields == {"pc", "p", "invoice", "ledger", "rendered"}
IsCloser(k) ==
  /\ DOMAIN k = CloserFields /\ k = [f \in CloserFields |-> k[f]]
  /\ k.pc \in {"idle", "debit", "settle", "document", "store"}

\* The entry a copy names is there, and after the debit it is the right one.
Copied(k) ==
  LET i == invoices[k.p]
  IN /\ k.p \in Issued
     /\ RenderInvoice(k.invoice) = RenderInvoice(i)
     /\ k.ledger \in {0, 1}
     /\ k.ledger = 1 => debits[k.p] = 1
     /\ k.pc # "debit" => k.ledger = debits[k.p] /\ ((i.total > 0) <=> (debits[k.p] = 1))
     /\ k.pc = "store" => k.rendered = RenderInvoice(i)

CloseType ==
  /\ debits \in [Periods -> {0, 1}]
  /\ DOMAIN documents = Periods /\ documents = [p \in Periods |-> documents[p]]
  /\ DOMAIN closers = Closers /\ closers = [c \in Closers |-> closers[c]]
  /\ \A c \in Closers : IsCloser(closers[c])

Documented(p) ==
  documents[p] # None => p \in Issued /\ documents[p] = RenderInvoice(invoices[p])

\* The debit of an invoice, and the link of a settled one to it.
Entered(p) ==
  /\ debits[p] = 1 => p \in Issued /\ invoices[p].total > 0
  /\ p \in Issued =>
       /\ invoices[p].ledger \in {0, 1}
       /\ invoices[p].ledger = 1 => debits[p] = 1
       /\ invoices[p].state = "settled" =>
            invoices[p].ledger = debits[p] /\ ((invoices[p].total > 0) <=> (debits[p] = 1))

CloseInv ==
  /\ CloseType
  /\ \A c \in Closers : closers[c].pc # "idle" => Copied(closers[c])
  /\ \A p \in Periods : Documented(p) /\ Entered(p)

-----------------------------------------------------------------------------
(* The price book is kept *)

\* Initially nothing is published.
LEMMA BookInitially == Init => BookInv
<1> SUFFICES ASSUME Init PROVE BookInv
  OBVIOUS
<1> USE PriceBookAssumption DEF Init, PriceBookInit
<1>1. BookType
  BY DEF BookType, VersionRows, NoVersion, Forever, Card, RateCards
<1>2. Published = {}
  BY DEF Published, NoVersion
<1>3. Ends
  BY <1>2 DEF Ends, NoVersion
<1>4. QED
  BY <1>1, <1>2, <1>3 DEF BookInv, NoOverlap, NoGap, Extends

\* A new draft (CreatePricingVersion, CreateOTAPricingDraft) takes the place of
\* no version and leaves what is published alone.
LEMMA DraftKeepsBook ==
  ASSUME BookInv, NEW v \in Versions, versions[v].status = "none", now' \in 0..MaxTime,
         NEW row \in VersionRows, row.status = "draft", row.until = Forever,
         versions' = [versions EXCEPT ![v] = row]
  PROVE  BookInv'
<1> USE DEF BookInv
<1>1. BookType'
  BY DEF BookType
<1>2. Published' = Published /\ v \notin Published
  BY DEF Published, BookType
<1>3. \A w \in Versions \ {v} : versions'[w] = versions[w]
  BY DEF BookType
<1>4. versions'[v] = row
  BY DEF BookType
<1>5. Published \subseteq Versions \ {v}
  BY <1>2 DEF Published
<1>6. Ends'
  BY <1>2, <1>3, <1>4 DEF Ends
<1>7. NoOverlap'
  BY <1>2, <1>3, <1>5 DEF NoOverlap
<1>8. NoGap'
  <2>1. \A t \in 0..MaxTime : InForce(t)' = InForce(t)
    BY <1>2, <1>3, <1>5 DEF InForce
  <2>2. QED
    BY <2>1, <1>2, <1>3, <1>5 DEF NoGap
<1>9. Extends'
  <2>1. ASSUME NEW w \in Published, OTAEnabled(versions[w].card)
        PROVE  versions[w].base \in Versions \ {v}
    BY <2>1 DEF Extends
  <2>2. QED
    BY <2>1, <1>2, <1>3, <1>5 DEF Extends
<1>10. QED
  BY <1>1, <1>6, <1>7, <1>8, <1>9

\* The fields an activation leaves alone.
SameTerms(row, old) == row.from = old.from /\ row.card = old.card /\ row.base = old.base

\* Activation publishes v, ends the interval that reached beyond its start, and
\* changes nothing else (Activates).
LEMMA ActivationRows ==
  ASSUME BookInv, NEW v \in Versions, NEW invoiced, Activates(v, invoiced)
  PROVE  /\ BookType'
         /\ v \notin Published /\ Published' = Published \cup {v}
         /\ \A w \in Versions : SameTerms(versions'[w], versions[w])
         /\ versions'[v].status = "active" /\ versions'[v].until = Forever
         /\ \A w \in Overlapping(v) :
              /\ w \in Published
              /\ versions[w].status = "active" /\ versions[w].from < versions[v].from
              /\ versions'[w].status = "retired" /\ versions'[w].until = versions[v].from
         /\ \A w \in Published \ Overlapping(v) : versions[w].until <= versions[v].from
         /\ \A w \in Versions : w # v /\ w \notin Overlapping(v) => versions'[w] = versions[w]
<1> DEFINE Opened(row) == [row EXCEPT !.status = "active"]
           Closed(row) == [row EXCEPT !.status = "retired", !.until = versions[v].from]
<1>1. /\ versions[v].status = "draft" /\ now' = now
      /\ versions' = [w \in Versions |-> IF w = v THEN Opened(versions[w])
                        ELSE IF w \in Overlapping(v) THEN Closed(versions[w]) ELSE versions[w]]
      /\ \A w \in Overlapping(v) : versions[w].status = "active" /\ versions[v].from > versions[w].from
  BY Zenon DEF Activates, Shortened, Replaces
<1>2. /\ now \in 0..MaxTime /\ MaxTime \in Nat /\ Forever = MaxTime + 1
      /\ versions \in [Versions -> VersionRows]
  BY PriceBookAssumption DEF BookInv, BookType, Forever
<1>3. versions[v].from \in 0..Forever
  BY <1>2 DEF VersionRows
<1>4. ASSUME NEW row \in VersionRows
      PROVE  /\ Opened(row) \in VersionRows /\ SameTerms(Opened(row), row)
             /\ Opened(row).status = "active" /\ Opened(row).until = row.until
  BY DEF VersionRows, SameTerms
<1>5. ASSUME NEW row \in VersionRows
      PROVE  /\ Closed(row) \in VersionRows /\ SameTerms(Closed(row), row)
             /\ Closed(row).status = "retired" /\ Closed(row).until = versions[v].from
  BY Zenon, <1>3 DEF VersionRows, SameTerms
<1> HIDE DEF Opened, Closed
<1>6. v \notin Overlapping(v) /\ Overlapping(v) \subseteq Published /\ Published \subseteq Versions
  BY DEF Overlapping, Published
<1>7. v \notin Published /\ versions[v].until = Forever
  BY <1>1 DEF Published, BookInv, Ends
<1>8. versions'[v] = Opened(versions[v])
  BY <1>1
<1>9. \A w \in Overlapping(v) : versions'[w] = Closed(versions[w])
  BY <1>1, <1>6
<1>10. \A w \in Versions : w # v /\ w \notin Overlapping(v) => versions'[w] = versions[w]
  BY <1>1
<1>11. versions' \in [Versions -> VersionRows]
  BY <1>1, <1>2, <1>4, <1>5
<1>12. \A w \in Versions : SameTerms(versions'[w], versions[w])
  BY <1>2, <1>4, <1>5, <1>8, <1>9, <1>10 DEF SameTerms
<1>13. Published' = Published \cup {v}
  <2>1. \A w \in Overlapping(v) : w \in Published /\ versions'[w].status = "retired"
    BY <1>2, <1>5, <1>6, <1>9
  <2>2. versions'[v].status = "active"
    BY <1>2, <1>4, <1>8
  <2>3. QED
    BY <2>1, <2>2, <1>10 DEF Published
<1>14. ASSUME NEW w \in Published \ Overlapping(v)
       PROVE  versions[w].until <= versions[v].from
  <2>1. versions[w].until \in Nat /\ versions[v].from \in Nat
    BY <1>2, <1>6 DEF VersionRows
  <2>2. QED
    BY <2>1, <1>7 DEF Overlapping
<1>15. ASSUME NEW w \in Overlapping(v)
       PROVE  /\ w \in Published
              /\ versions[w].status = "active" /\ versions[w].from < versions[v].from
              /\ versions'[w].status = "retired" /\ versions'[w].until = versions[v].from
  <2>1. versions[w] \in VersionRows
    BY <1>2, <1>6
  <2>2. versions[w].from < versions[v].from
    BY <2>1, <1>1, <1>3 DEF VersionRows
  <2>3. QED
    BY <2>1, <2>2, <1>1, <1>5, <1>6, <1>9
<1>16. BookType'
  BY <1>1, <1>2, <1>11 DEF BookType
<1>17. QED
  BY <1>2, <1>4, <1>7, <1>8, <1>10, <1>12, <1>13, <1>14, <1>15, <1>16

\* Activation leaves no empty interval, no overlap and no gap: v begins where
\* the one it shortens now ends, or is the first (Replaces).
LEMMA ActivationKeepsIntervals ==
  ASSUME BookInv, NEW v \in Versions, NEW invoiced, Activates(v, invoiced)
  PROVE  Ends' /\ NoOverlap' /\ NoGap'
<1> DEFINE from == versions[v].from
<1>1. /\ v \notin Published /\ Published' = Published \cup {v}
      /\ Published \subseteq Versions
  BY ActivationRows DEF Published
<1>2. from \in 0..MaxTime /\ MaxTime \in Nat /\ Forever = MaxTime + 1
  BY PriceBookAssumption DEF BookInv, BookType, VersionRows, Forever
<1>3. /\ versions'[v].from = from /\ versions'[v].until = Forever
      /\ versions'[v].status = "active"
  BY ActivationRows DEF SameTerms
<1>4. ASSUME NEW w \in Published
      PROVE  /\ versions[w].from \in 0..MaxTime /\ versions[w].until \in 0..Forever
             /\ versions[w].from < versions[w].until
             /\ versions'[w].from = versions[w].from
  <2>1. versions[w] \in VersionRows
    BY <1>1 DEF BookInv, BookType
  <2>2. versions'[w].from = versions[w].from
    BY <1>1, ActivationRows DEF SameTerms
  <2>3. QED
    BY <2>1, <2>2, <1>1 DEF VersionRows, BookInv, Ends
<1>5. ASSUME NEW w \in Overlapping(v)
      PROVE  /\ w \in Published /\ versions[w].from < from
             /\ versions'[w].status = "retired" /\ versions'[w].until = from
  BY ActivationRows
<1>6. ASSUME NEW w \in Published \ Overlapping(v)
      PROVE  versions'[w] = versions[w] /\ versions[w].until <= from
  BY <1>1, ActivationRows
<1>7. ASSUME NEW w \in Published
      PROVE  versions'[w].until \in Nat /\ versions'[w].until <= from /\ versions'[w].until <= versions[w].until
  <2>1. CASE w \in Overlapping(v)
    BY <2>1, <1>2, <1>4, <1>5 DEF Overlapping
  <2>2. CASE w \notin Overlapping(v)
    BY <2>2, <1>2, <1>4, <1>6
  <2>3. QED
    BY <2>1, <2>2
<1> HIDE DEF from
<1>8. Ends'
  <2> SUFFICES ASSUME NEW w \in Versions
               PROVE  /\ w \notin Published' => versions'[w].until = Forever
                      /\ w \in Published' =>
                           /\ versions'[w].from < versions'[w].until
                           /\ versions'[w].status = "active" <=> versions'[w].until = Forever
    BY DEF Ends
  <2>1. CASE w = v
    BY <2>1, <1>1, <1>2, <1>3
  <2>2. CASE w \in Overlapping(v)
    BY <2>2, <1>1, <1>2, <1>4, <1>5
  <2>3. CASE w \in Published \ Overlapping(v)
    BY <2>3, <1>1, <1>2, <1>4, <1>6 DEF BookInv, Ends
  <2>4. CASE w \notin Published /\ w # v
    <3>1. versions'[w] = versions[w]
      BY <2>4, ActivationRows
    <3>2. QED
      BY <2>4, <3>1, <1>1 DEF BookInv, Ends
  <2>5. QED
    BY <2>1, <2>2, <2>3, <2>4
<1>9. NoOverlap'
  <2> SUFFICES ASSUME NEW w \in Published', NEW x \in Published', w # x
               PROVE  \/ versions'[w].until <= versions'[x].from
                      \/ versions'[x].until <= versions'[w].from
    BY DEF NoOverlap
  <2>1. CASE w = v
    BY <2>1, <1>1, <1>3, <1>7
  <2>2. CASE x = v
    BY <2>2, <1>1, <1>3, <1>7
  <2>3. CASE w # v /\ x # v
    <3>1. w \in Published /\ x \in Published
      BY <2>3, <1>1
    <3>2. versions[w].until <= versions[x].from \/ versions[x].until <= versions[w].from
      BY <3>1 DEF BookInv, NoOverlap
    <3>3. QED
      BY <3>1, <3>2, <1>4, <1>7
  <2>4. QED
    BY <2>1, <2>2, <2>3
<1>10. NoGap'
  <2> SUFFICES ASSUME NEW w \in Published', NEW t \in 0..MaxTime, versions'[w].from <= t
               PROVE  \E x \in Published' : versions'[x].from <= t /\ t < versions'[x].until
    BY DEF NoGap, InForce
  <2>1. CASE from <= t
    BY <2>1, <1>1, <1>2, <1>3
  <2>2. CASE t < from
    <3>1. w \in Published /\ versions[w].from <= t
      BY <2>2, <1>1, <1>2, <1>3, <1>4
    <3>2. PICK x \in Published : versions[x].from <= t /\ t < versions[x].until
      BY <3>1 DEF BookInv, NoGap, InForce
    <3>3. t < versions'[x].until
      BY <2>2, <3>2, <1>5, <1>6
    <3>4. QED
      BY <3>2, <3>3, <1>1, <1>4
  <2>3. QED
    BY <2>1, <2>2, <1>2
<1>11. QED
  BY <1>8, <1>9, <1>10

\* A published OTA card keeps extending its base: the base is retired by the
\* activation of that card, and only an active version is shortened later.
LEMMA ActivationKeepsExtends ==
  ASSUME BookInv, NEW v \in Versions, NEW invoiced, Activates(v, invoiced),
         OTAEnabled(versions[v].card) =>
           /\ versions[v].base \in Overlapping(v)
           /\ ReviewOTACandidateRates(versions[versions[v].base].card, versions[v].card)
  PROVE  Extends'
<1> SUFFICES ASSUME NEW w \in Published', OTAEnabled(versions'[w].card)
             PROVE  LET b == versions'[w].base
                    IN /\ b \in Versions
                       /\ versions'[b].status = "retired"
                       /\ versions'[b].until = versions'[w].from
                       /\ ReviewOTACandidateRates(versions'[b].card, versions'[w].card)
  BY DEF Extends, ReviewOTACandidateRates
<1> DEFINE b == versions[w].base
<1>1. /\ Published' = Published \cup {v} /\ Published \subseteq Versions
      /\ Overlapping(v) \subseteq Versions
      /\ \A x \in Versions : SameTerms(versions'[x], versions[x])
  BY ActivationRows DEF Published, Overlapping
<1>2. /\ versions'[w].base = b /\ versions'[w].from = versions[w].from
      /\ versions'[w].card = versions[w].card /\ OTAEnabled(versions[w].card)
  BY <1>1 DEF SameTerms
<1>3. /\ b \in Versions /\ versions'[b].status = "retired" /\ versions'[b].until = versions[w].from
      /\ ReviewOTACandidateRates(versions[b].card, versions[w].card)
  <2>1. CASE w = v
    BY <2>1, <1>1, <1>2, ActivationRows
  <2>2. CASE w # v
    <3>1. /\ b \in Versions /\ versions[b].status = "retired" /\ versions[b].until = versions[w].from
          /\ ReviewOTACandidateRates(versions[b].card, versions[w].card)
      BY <2>2, <1>1, <1>2 DEF BookInv, Extends
    <3>2. b # v
      BY <3>1, ActivationRows DEF Published
    <3>3. b \notin Overlapping(v)
      BY <3>1, ActivationRows
    <3>4. QED
      BY <3>1, <3>2, <3>3, ActivationRows
  <2>3. QED
    BY <2>1, <2>2
<1>4. versions'[b].card = versions[b].card
  BY <1>1, <1>3 DEF SameTerms
<1>5. QED
  BY <1>2, <1>3, <1>4

\* Every step keeps the book.
LEMMA BookKept == BookInv /\ [Next]_vars => BookInv'
<1> SUFFICES ASSUME BookInv, [Next]_vars PROVE BookInv'
  OBVIOUS
<1>1. BookType /\ MaxTime \in Nat
  BY PriceBookAssumption DEF BookInv
<1>2. ASSUME versions' = versions, now' \in 0..MaxTime PROVE BookInv'
  BY <1>2 DEF BookInv, BookType, Ends, NoOverlap, NoGap, Extends, Published, InForce
<1>3. CASE Tick
  BY <1>1, <1>2, <1>3 DEF Tick, BookType
<1>4. ASSUME NEW v \in Versions, NEW from \in Cutovers, NEW card \in Cards,
             CreatePricingVersion(v, from, card)
      PROVE  BookInv'
  <2> DEFINE row == [NoVersion EXCEPT !.status = "draft", !.from = from, !.card = card]
  <2>1. NoVersion \in VersionRows /\ NoVersion.until = Forever
    BY PriceBookAssumption DEF NoVersion, VersionRows, Forever, Card, RateCards
  <2>2. row \in VersionRows /\ row.status = "draft" /\ row.until = Forever
    BY Zenon, <2>1, PriceBookAssumption DEF VersionRows
  <2>3. /\ versions[v].status = "none" /\ now' = now
        /\ versions' = [versions EXCEPT ![v] = row]
    BY <1>4 DEF CreatePricingVersion
  <2> HIDE DEF row
  <2>4. QED
    BY Zenon, <1>1, <2>2, <2>3, DraftKeepsBook DEF BookType
<1>5. ASSUME NEW v \in Versions, NEW base \in Versions, NEW from \in Cutovers,
             CreateOTAPricingDraft(v, base, from)
      PROVE  BookInv'
  <2> DEFINE candidate == Card(versions[base].card.price, "complete", "invoice_total")
             row == [status |-> "draft", from |-> from, until |-> Forever,
                     card |-> candidate, base |-> base]
  <2>1. candidate \in RateCards
    BY <1>1 DEF BookType, VersionRows, RateCards, Card
  <2>2. /\ versions[v].status = "none" /\ now' = now
        /\ versions' = [versions EXCEPT ![v] = row]
    BY <1>5 DEF CreateOTAPricingDraft
  <2> HIDE DEF candidate
  <2>3. row \in VersionRows /\ row.status = "draft" /\ row.until = Forever
    BY <2>1, PriceBookAssumption DEF VersionRows, Forever
  <2> HIDE DEF row
  <2>4. QED
    BY Zenon, <1>1, <2>2, <2>3, DraftKeepsBook DEF BookType
<1>6. ASSUME NEW v \in Versions, NEW invoiced, Activates(v, invoiced),
             OTAEnabled(versions[v].card) =>
               /\ versions[v].base \in Overlapping(v)
               /\ ReviewOTACandidateRates(versions[versions[v].base].card, versions[v].card)
      PROVE  BookInv'
  BY <1>6, ActivationRows, ActivationKeepsIntervals, ActivationKeepsExtends DEF BookInv
<1>7. ASSUME NEW v \in Versions, ActivatePricingVersion(v, Invoiced)
      PROVE  BookInv'
  BY <1>6, <1>7 DEF ActivatePricingVersion
<1>8. ASSUME NEW v \in Versions, NEW base \in Versions,
             PublishReviewedOTAPricingVersion(v, base, Invoiced)
      PROVE  BookInv'
  <2>1. Overlapping(v) # {} /\ Overlapping(v) \subseteq {base} /\ versions[v].base = base
    BY <1>8 DEF PublishReviewedOTAPricingVersion, Activates, ApprovalHolds
  <2>2. QED
    BY <2>1, <1>6, <1>8 DEF PublishReviewedOTAPricingVersion, ApprovalHolds
<1>9. CASE UNCHANGED bookVars
  BY <1>1, <1>2, <1>9 DEF bookVars, BookType
<1>10. QED
  BY <1>3, <1>4, <1>5, <1>7, <1>8, <1>9 DEF Next, Pricing, Intake, Ownership, Closing, vars

-----------------------------------------------------------------------------
(* One price at a time *)

\* A version in force is the only one, and the one ActivePricingVersion returns.
LEMMA InForceIsActive ==
  ASSUME BookInv, NEW t \in Nat, NEW v \in InForce(t)
  PROVE  v \in Versions /\ InForce(t) = {v} /\ ActivePricingVersion(t) = v
<1>1. ASSUME NEW w \in InForce(t) PROVE w = v
  <2>1. /\ v \in Published /\ w \in Published
        /\ versions[v] \in VersionRows /\ versions[w] \in VersionRows
    BY DEF InForce, Published, BookInv, BookType
  <2>2. QED
    BY <2>1, PriceBookAssumption DEF InForce, VersionRows, Forever, BookInv, NoOverlap
<1>2. v \in Versions /\ InForce(t) = {v}
  BY <1>1 DEF InForce, Published
<1>3. QED
  BY <1>2 DEF ActivePricingVersion

\* What ActivePricingVersion returns is in force.
LEMMA ActiveIsInForce ==
  ASSUME NEW t, ActivePricingVersion(t) # None
  PROVE  ActivePricingVersion(t) \in InForce(t)
BY DEF ActivePricingVersion

\* From the start of the first published version on, ActivePricingVersion finds
\* exactly one row, whatever was drafted, published and shortened before.
THEOREM PriceUnambiguous == Spec => []PriceIsUnambiguous
<1>1. BookInv => PriceIsUnambiguous
  <2> SUFFICES ASSUME BookInv, NEW v \in Published, NEW t \in 0..MaxTime, versions[v].from <= t
               PROVE  \E w \in Versions : InForce(t) = {w}
    BY DEF PriceIsUnambiguous
  <2>1. PICK w \in InForce(t) : TRUE
    BY DEF BookInv, NoGap
  <2>2. t \in Nat
    BY PriceBookAssumption
  <2>3. QED
    BY <2>1, <2>2, InForceIsActive
<1>2. QED
  BY <1>1, BookInitially, BookKept, PTL DEF Spec

\* A published OTA card follows, without a gap, the very card its reviewers
\* compared it with, and repeats its other prices
\* (PublishReviewedOTAPricingVersion).
THEOREM PublicationExtendsBase == Spec => []PublishedExtendsBase
<1>1. BookInv => PublishedExtendsBase
  BY DEF BookInv, Extends, PublishedExtendsBase, Published
<1>2. QED
  BY <1>1, BookInitially, BookKept, PTL DEF Spec

-----------------------------------------------------------------------------
(* Usage and seals are kept *)

\* Initially there is no usage and no seal.
LEMMA IntakeInitially == Init => IntakeInv
<1> SUFFICES ASSUME IntakeInit PROVE IntakeInv
  BY DEF Init
<1>1. facts \in [UsageIDs -> Rows \cup {None}] /\ posts = {} /\ accepted = {}
  BY DEF IntakeInit
<1>2. [platform |-> None, producer |-> None] \in Seals
  BY DEF Seals
<1>3. seals \in [Months -> Seals] /\ \A m \in Months : seals[m].platform = None
  BY <1>2 DEF IntakeInit
<1>4. QED
  BY <1>1, <1>3 DEF IntakeInv

\* The clock does not run backwards.
LEMMA ClockAdvances == BookInv /\ [Next]_vars => now \in Nat /\ now' \in Nat /\ now <= now'
<1> SUFFICES ASSUME BookInv, [Next]_vars PROVE now \in Nat /\ now' \in Nat /\ now <= now'
  OBVIOUS
<1>1. now \in Nat
  BY PriceBookAssumption DEF BookInv, BookType
<1>2. now' = now + 1 \/ now' = now
  BY Zenon DEF Next, Pricing, Tick, CreatePricingVersion, CreateOTAPricingDraft, ActivatePricingVersion,
         PublishReviewedOTAPricingVersion, Activates, Intake, Ownership, Closing, vars, bookVars
<1>3. QED
  BY <1>1, <1>2

\* Every step keeps what is stored of usage and seals: a fact is stored once,
\* what was accepted is what is stored, and a sealed month is over.
LEMMA IntakeKept == BookInv /\ IntakeInv /\ [Next]_vars => IntakeInv'
<1> SUFFICES ASSUME BookInv, IntakeInv, [Next]_vars PROVE IntakeInv'
  OBVIOUS
<1>1. now \in Nat /\ now' \in Nat /\ now <= now'
  BY ClockAdvances
<1>2. ASSUME NEW m \in Months PROVE m[2] \in Nat
  BY UsageAssumption
<1>3. CASE UNCHANGED <<intakeVars, seals>>
  BY <1>1, <1>2, <1>3 DEF IntakeInv, intakeVars
<1>4. ASSUME NEW u \in UsageIDs, NEW r \in Rows, PutUsageFact(u, r), UNCHANGED bookVars
      PROVE  IntakeInv'
  <2>1. facts' = facts /\ seals' = seals /\ now' = now
    BY <1>4 DEF PutUsageFact, bookVars
  <2>2. posts' \subseteq UsageIDs \X Rows
    BY <1>4 DEF PutUsageFact, IntakeInv
  <2>3. accepted' \subseteq UsageIDs \X Rows /\ \A x \in accepted' : facts[x[1]] = x[2]
    BY <1>4 DEF PutUsageFact, IntakeInv
  <2>4. QED
    BY <2>1, <2>2, <2>3 DEF IntakeInv
<1>5. ASSUME NEW u \in UsageIDs, NEW r \in Rows, InsertUsageFact(u, r), UNCHANGED bookVars
      PROVE  IntakeInv'
  <2>1. posts' \subseteq UsageIDs \X Rows /\ seals' = seals /\ now' = now
    BY <1>5 DEF InsertUsageFact, IntakeInv, bookVars
  <2>2. CASE facts' = facts /\ accepted' = accepted
    BY <2>1, <2>2 DEF IntakeInv
  <2>3. CASE facts' = facts /\ facts[u] = r /\ accepted' = accepted \cup {<<u, r>>}
    BY <2>1, <2>3 DEF IntakeInv
  <2>4. CASE facts[u] = None /\ facts' = [facts EXCEPT ![u] = r] /\ accepted' = accepted \cup {<<u, r>>}
    <3>1. facts' \in [UsageIDs -> Rows \cup {None}] /\ accepted' \subseteq UsageIDs \X Rows
      BY <2>4 DEF IntakeInv
    <3>2. ASSUME NEW x \in accepted PROVE facts'[x[1]] = x[2]
      <4>1. x[1] \in UsageIDs /\ x[2] \in Rows /\ facts[x[1]] = x[2]
        BY DEF IntakeInv
      <4>2. x[1] # u
        BY <4>1, <2>4, UsageAssumption
      <4>3. QED
        BY <4>1, <4>2, <2>4 DEF IntakeInv
    <3>3. facts'[u] = r
      BY <2>4 DEF IntakeInv
    <3>4. \A x \in accepted' : facts'[x[1]] = x[2]
      BY <3>2, <3>3, <2>4
    <3>5. QED
      BY <2>1, <3>1, <3>4 DEF IntakeInv
  <2>5. QED
    BY <1>5, <2>2, <2>3, <2>4 DEF InsertUsageFact, SameUsageFact
<1>6. ASSUME NEW m \in Months, NEW products \in SUBSET Products,
             PutPlatformSeal(m, products), UNCHANGED bookVars
      PROVE  IntakeInv'
  <2>1. /\ UNCHANGED <<facts, posts, accepted, now>> /\ now >= m[2]
        /\ seals' = [seals EXCEPT ![m].platform = products]
    BY <1>6 DEF PutPlatformSeal, Sealable, bookVars
  <2>2. seals' \in [Months -> Seals]
    BY <2>1 DEF IntakeInv, Seals
  <2>3. ASSUME NEW x \in Months, seals'[x].platform # None PROVE x[2] <= now
    BY <1>1, <1>2, <2>1, <2>3 DEF IntakeInv, Seals
  <2>4. QED
    BY <2>1, <2>2, <2>3 DEF IntakeInv
<1>7. ASSUME NEW m \in Months, NEW products \in SUBSET Products, NEW listed \in SUBSET Deliverable(m),
             PutProducerSeal(m, products, listed), UNCHANGED bookVars
      PROVE  IntakeInv'
  <2>1. /\ UNCHANGED <<facts, posts, accepted, now>>
        /\ seals' = [seals EXCEPT ![m].producer = [products |-> products, facts |-> listed]]
    BY <1>7 DEF PutProducerSeal, bookVars
  <2>2. listed \subseteq UsageIDs \X Rows
    BY DEF Deliverable, IntakeInv, Stored
  <2>3. [products |-> products, facts |-> listed]
          \in [products : SUBSET Products, facts : SUBSET (UsageIDs \X Rows)]
    BY <2>2
  <2>4. seals' \in [Months -> Seals]
    BY <2>1, <2>3 DEF IntakeInv, Seals
  <2>5. \A x \in Months : seals'[x].platform = seals[x].platform
    BY <2>1 DEF IntakeInv, Seals
  <2>6. QED
    BY <2>1, <2>4, <2>5 DEF IntakeInv
<1>8. QED
  BY <1>3, <1>4, <1>5, <1>6, <1>7
     DEF Next, Pricing, Intake, Ownership, Closing, vars

-----------------------------------------------------------------------------
(* Responsibility and profile are kept *)

\* Initially nobody is responsible.
LEMMA OwnerInitially == Init => OwnerInv
BY DEF Init, CloseInit, OwnerInv, HasOwner, Current

\* The profile a call uses, stored or new, is of an ownership version that
\* exists (EnsureBillingProfile).
LEMMA EnsuredProfile == OwnerInv => ProfileOf(EnsureBillingProfile)
<1> SUFFICES ASSUME OwnerInv PROVE ProfileOf(EnsureBillingProfile)
  OBVIOUS
<1>1. CASE profile # None
  BY <1>1 DEF OwnerInv, EnsureBillingProfile
<1>2. CASE profile = None
  <2>1. Current \in Nat
    BY DEF OwnerInv, Current
  <2>2. EnsureBillingProfile = [owner |-> Current, writer |-> None, required |-> HasOwner]
    BY <1>2 DEF EnsureBillingProfile
  <2>3. HasOwner \in BOOLEAN /\ (HasOwner <=> Current > 0)
    BY DEF HasOwner
  <2>4. QED
    BY <2>1, <2>2, <2>3 DEF ProfileOf
<1>3. QED
  BY <1>1, <1>2

\* What is in the past of a responsibility: its owner and its start never
\* change, and its end only when it is handed over, to the time of that.
TermsGrow ==
  /\ Current <= Current'
  /\ \A k \in 1..Current :
       /\ terms'[k].owner = terms[k].owner /\ terms'[k].from = terms[k].from
       /\ terms'[k].until = terms[k].until \/ terms'[k].until = now

\* A responsibility that begins, at first or by a hand-over, and a profile of a
\* version that was there or of the new one.
LEMMA TermsAppended ==
  ASSUME BookInv, OwnerInv, NEW u \in Users,
         \/ \E from \in TermStarts : InitializeResponsibility(u, from)
         \/ FinalizeOwnershipHandoff(u)
  PROVE  OwnerInv' /\ TermsGrow
<1>1. /\ terms \in Seq(Terms) /\ Current \in Nat /\ Current = Len(terms)
      /\ now \in Nat /\ Forever \in Nat /\ TermStarts \subseteq Nat
  BY PriceBookAssumption, CloseAssumption DEF OwnerInv, Current, BookInv, BookType, Forever
<1>2. ASSUME NEW from \in TermStarts, InitializeResponsibility(u, from)
      PROVE  OwnerInv' /\ TermsGrow
  <2> DEFINE term == [owner |-> u, from |-> from, until |-> Forever]
  <2>1. terms' = <<term>> /\ profile' = profile /\ Current = 0
    BY <1>1, <1>2 DEF InitializeResponsibility, HasOwner
  <2>2. term \in Terms /\ term.until = Forever
    BY <1>1 DEF Terms
  <2> HIDE DEF term
  <2>3. terms' \in Seq(Terms) /\ Current' = 1 /\ terms'[1] = term
    BY <2>1, <2>2 DEF Current
  <2>4. profile # None => ProfileOf(profile)'
    BY <2>1, <2>3 DEF OwnerInv, ProfileOf
  <2>5. QED
    BY <2>1, <2>2, <2>3, <2>4 DEF OwnerInv, HasOwner, TermsGrow
<1>3. ASSUME FinalizeOwnershipHandoff(u)
      PROVE  OwnerInv' /\ TermsGrow
  <2> DEFINE ended == [terms EXCEPT ![Current].until = now]
             term == [owner |-> u, from |-> now, until |-> Forever]
  <2>1. /\ Current > 0 /\ terms' = Append(ended, term)
        /\ profile' = [owner |-> Current + 1, writer |-> None, required |-> TRUE]
    BY <1>3 DEF FinalizeOwnershipHandoff, ProfileReset, HasOwner
  <2>2. term \in Terms /\ term.until = Forever
    BY <1>1 DEF Terms
  <2>3. /\ ended \in Seq(Terms) /\ Len(ended) = Current
        /\ \A k \in 1..Current : /\ ended[k].owner = terms[k].owner /\ ended[k].from = terms[k].from
                                 /\ ended[k].until = terms[k].until \/ ended[k].until = now
    <3>1. ASSUME NEW t \in Terms
          PROVE  /\ [t EXCEPT !.until = now] \in Terms
                 /\ [t EXCEPT !.until = now].owner = t.owner
                 /\ [t EXCEPT !.until = now].from = t.from
                 /\ [t EXCEPT !.until = now].until = now
      BY <1>1 DEF Terms
    <3>2. /\ Current \in DOMAIN terms /\ DOMAIN terms = 1..Current
          /\ \A k \in 1..Current : terms[k] \in Terms
      BY <1>1, <2>1
    <3>3. ended = [terms EXCEPT ![Current] = [terms[Current] EXCEPT !.until = now]]
      OBVIOUS
    <3>4. ended \in Seq(Terms) /\ Len(ended) = Current
      BY <1>1, <3>1, <3>2, <3>3
    <3>5. \A k \in 1..Current :
            ended[k] = IF k = Current THEN [terms[k] EXCEPT !.until = now] ELSE terms[k]
      BY <3>2, <3>3
    <3>6. QED
      BY <3>1, <3>2, <3>4, <3>5
  <2> HIDE DEF ended, term
  <2>4. /\ terms' \in Seq(Terms) /\ Current' = Current + 1 /\ terms'[Current'] = term
        /\ \A k \in 1..Current : terms'[k] = ended[k]
    BY <1>1, <2>1, <2>2, <2>3 DEF Current
  <2>5. ProfileOf(profile)'
    BY <1>1, <2>1, <2>4 DEF ProfileOf
  <2>6. TermsGrow
    BY <1>1, <2>3, <2>4 DEF TermsGrow
  <2>7. QED
    BY <2>2, <2>4, <2>5, <2>6 DEF OwnerInv, HasOwner
<1>4. QED
  BY <1>2, <1>3

\* Every step keeps responsibility and profile.
LEMMA OwnerKept == BookInv /\ OwnerInv /\ [Next]_vars => OwnerInv' /\ TermsGrow
<1> SUFFICES ASSUME BookInv, OwnerInv, [Next]_vars PROVE OwnerInv' /\ TermsGrow
  OBVIOUS
<1>1. Current \in Nat
  BY DEF OwnerInv, Current
<1>2. ASSUME terms' = terms, profile' # None => ProfileOf(profile')
      PROVE  OwnerInv' /\ TermsGrow
  BY <1>1, <1>2 DEF OwnerInv, TermsGrow, ProfileOf, HasOwner, Current
<1>3. CASE UNCHANGED ownerVars
  BY <1>2, <1>3 DEF ownerVars, OwnerInv
<1>4. ASSUME terms' = terms, profile' = EnsureBillingProfile
      PROVE  OwnerInv' /\ TermsGrow
  BY <1>2, <1>4, EnsuredProfile
<1>5. ASSUME NEW u \in Users, PutBillingProfile(u)
      PROVE  OwnerInv' /\ TermsGrow
  <2>1. /\ terms' = terms /\ profile # None /\ ProfileOf(profile)
        /\ profile' = [profile EXCEPT !.writer = u, !.required = FALSE]
        /\ profile.owner = Current /\ terms[Current].owner = u
    BY <1>5 DEF PutBillingProfile, IsOwner, OwnerInv
  <2>2. ProfileOf(profile')
    BY Zenon, <1>1, <2>1 DEF ProfileOf
  <2>3. QED
    BY <1>2, <2>1, <2>2
<1>6. ASSUME NEW u \in Users, GetBillingProfile(u)
      PROVE  OwnerInv' /\ TermsGrow
  BY <1>4, <1>6 DEF GetBillingProfile
<1>7. ASSUME NEW c \in Closers, NEW p \in Periods, NEW verified, PrepareInvoice(c, p, verified)
      PROVE  OwnerInv' /\ TermsGrow
  <2>1. terms' = terms /\ (profile' = profile \/ profile' = EnsureBillingProfile)
    BY <1>7 DEF PrepareInvoice
  <2>2. QED
    BY <2>1, <1>3, <1>4 DEF ownerVars
<1>8. ASSUME NEW c \in Closers, Progress(c) \/ Stop(c)
      PROVE  OwnerInv' /\ TermsGrow
  <2>1. terms' = terms /\ profile' = profile
    BY <1>8 DEF Progress, Stop, PostInvoiceDebit, RecordInvoiceSettlement,
                GetInvoiceDocument, PutInvoiceDocument
  <2>2. QED
    BY <2>1, <1>3 DEF ownerVars
<1>9. QED
  BY <1>3, <1>5, <1>6, <1>7, <1>8, TermsAppended
     DEF Next, Pricing, Intake, Ownership, Closing, vars
-----------------------------------------------------------------------------
(* Invoices are written once *)

\* What an invoice says, which its settlement leaves alone.
SameBill(i, j) ==
  /\ i.pricing = j.pricing /\ i.refs = j.refs /\ i.total = j.total
  /\ i.owner = j.owner /\ i.writer = j.writer

\* A step that issues the invoice of p.
Issues(p) ==
  /\ p \notin Issued
  /\ \E verified \in BOOLEAN : EvidenceComplete(p, verified)
  /\ Addressed(p, EnsureBillingProfile) /\ ~RateMissing(ListUsageFacts(p))
  /\ invoices'[p] = Invoice(p, EnsureBillingProfile)
  /\ UNCHANGED <<bookVars, intakeVars, seals, terms>>

\* What a step may do to the invoice of p: nothing, issue it, or settle it.
InvoiceStep(p) ==
  \/ p \notin Issued /\ p \notin Issued'
  \/ Issues(p) /\ p \in Issued'
  \/ p \in Issued /\ p \in Issued' /\ SameBill(invoices'[p], invoices[p])

\* What a new invoice says: the version in force at its start, the usage billed
\* by that card, the profile it is addressed to (BuildDraftInvoice, IssueInvoice).
LEMMA InvoiceNames ==
  ASSUME NEW p, NEW prof
  PROVE  LET v == ActivePricingVersion(p[1])
             i == Invoice(p, prof)
         IN /\ i.pricing = v
            /\ i.refs = BillableUsageFacts(ListUsageFacts(p), versions[v].card)
            /\ i.total = TotalMinor(i.refs, versions[v].card)
            /\ i.owner = prof.owner /\ i.writer = prof.writer
BY DEF Invoice

\* A new invoice has the fields of one (BuildDraftInvoice, IssueInvoice).
LEMMA NewInvoice ==
  ASSUME NEW p, NEW prof
  PROVE  IsInvoice(Invoice(p, prof)) /\ Invoice(p, prof) # NoInvoice
BY DEF Invoice, IsInvoice, InvoiceFields, NoInvoice

Settled(i, ver, ledger) == [i EXCEPT !.state = "settled", !.version = ver, !.ledger = ledger]

\* Settling an invoice changes nothing it says (RecordInvoiceSettlement).
LEMMA SettledInvoice ==
  ASSUME NEW i, IsInvoice(i), NEW ver, NEW ledger
  PROVE  /\ IsInvoice(Settled(i, ver, ledger)) /\ Settled(i, ver, ledger) # NoInvoice
         /\ SameBill(Settled(i, ver, ledger), i)
         /\ Settled(i, ver, ledger).ledger = ledger
BY Zenon DEF Settled, IsInvoice, InvoiceFields, NoInvoice, SameBill

\* Initially no period is closed and there is no invoice.
LEMMA InvoiceInitially == Init => InvoiceType
BY DEF Init, IntakeInit, CloseInit, InvoiceType, Issued

\* Every step does to each invoice what InvoiceStep says, and a period is
\* closed in the step that writes its invoice and stays closed (PrepareInvoice).
LEMMA InvoiceKept ==
  InvoiceType /\ CloseInv /\ [Next]_vars => InvoiceType' /\ \A p \in Periods : InvoiceStep(p)
<1> SUFFICES ASSUME InvoiceType, CloseInv, [Next]_vars
             PROVE  InvoiceType' /\ \A p \in Periods : InvoiceStep(p)
  OBVIOUS
<1>1. ASSUME UNCHANGED <<periods, invoices>>
      PROVE  InvoiceType' /\ \A p \in Periods : InvoiceStep(p)
  <2>1. Issued' = Issued
    BY <1>1 DEF Issued
  <2>2. QED
    BY <1>1, <2>1 DEF InvoiceType, InvoiceStep, SameBill
<1>2. ASSUME NEW q \in Periods, q \notin Issued, invoices' = invoices,
             periods' = [periods EXCEPT ![q] = "incomplete"]
      PROVE  InvoiceType' /\ \A p \in Periods : InvoiceStep(p)
  <2>1. Issued' = Issued
    BY <1>2 DEF Issued
  <2>2. InvoiceType'
    BY <1>2, <2>1 DEF InvoiceType
  <2>3. QED
    BY <1>2, <2>1, <2>2 DEF InvoiceStep, SameBill
<1>3. ASSUME NEW q \in Periods, NEW i, IsInvoice(i), i # NoInvoice,
             invoices' = [invoices EXCEPT ![q] = i],
             \/ q \in Issued /\ periods' = periods
             \/ periods' = [periods EXCEPT ![q] = "closed"]
      PROVE  /\ InvoiceType' /\ Issued' = Issued \cup {q} /\ invoices'[q] = i
             /\ \A p \in Periods \ {q} : InvoiceStep(p)
  <2>1. /\ DOMAIN invoices' = Periods /\ invoices' = [p \in Periods |-> invoices'[p]]
        /\ invoices'[q] = i /\ \A p \in Periods \ {q} : invoices'[p] = invoices[p]
    BY <1>3 DEF InvoiceType
  <2>2. Issued' = Issued \cup {q}
    BY <1>3, <2>1 DEF Issued
  <2>3. \A p \in Issued' : IsInvoice(invoices'[p])
    BY <1>3, <2>1, <2>2 DEF InvoiceType, Issued
  <2>4. /\ periods' \in [Periods -> {"none", "incomplete", "closed"}]
        /\ \A p \in Periods : periods'[p] = "closed" <=> p \in Issued'
    BY <1>3, <2>2 DEF InvoiceType
  <2>5. InvoiceType'
    BY <2>1, <2>3, <2>4 DEF InvoiceType
  <2>6. \A p \in Periods \ {q} : InvoiceStep(p)
    BY <2>1, <2>2 DEF InvoiceStep, SameBill
  <2>7. QED
    BY <2>1, <2>2, <2>5, <2>6
<1>4. ASSUME NEW c \in Closers, NEW q \in Periods, NEW verified \in BOOLEAN,
             PrepareInvoice(c, q, verified), UNCHANGED <<bookVars, intakeVars, seals>>
      PROVE  InvoiceType' /\ \A p \in Periods : InvoiceStep(p)
  <2> DEFINE prof == EnsureBillingProfile
  <2>1. CASE UNCHANGED <<periods, invoices>>
    BY <2>1, <1>1
  <2>2. CASE /\ invoices[q] = NoInvoice /\ invoices' = invoices
             /\ periods' = [periods EXCEPT ![q] = "incomplete"]
    BY Zenon, <2>2, <1>2 DEF Issued
  <2>3. CASE /\ invoices[q] = NoInvoice /\ EvidenceComplete(q, verified) /\ Addressed(q, prof)
             /\ ~RateMissing(ListUsageFacts(q))
             /\ periods' = [periods EXCEPT ![q] = "closed"]
             /\ invoices' = [invoices EXCEPT ![q] = Invoice(q, prof)]
    <3>1. /\ InvoiceType' /\ Issued' = Issued \cup {q} /\ invoices'[q] = Invoice(q, prof)
          /\ \A p \in Periods \ {q} : InvoiceStep(p)
      BY Zenon, <2>3, <1>3, NewInvoice
    <3>2. Issues(q)
      BY <1>4, <2>3, <3>1 DEF Issues, Issued, PrepareInvoice
    <3>3. QED
      BY <3>1, <3>2 DEF InvoiceStep
  <2>4. QED
    BY <1>4, <2>1, <2>2, <2>3 DEF PrepareInvoice
<1>5. ASSUME NEW c \in Closers, RecordInvoiceSettlement(c)
      PROVE  InvoiceType' /\ \A p \in Periods : InvoiceStep(p)
  <2> DEFINE k == closers[c]
             i == invoices[k.p]
             link == IF i.ledger > 0 THEN i.ledger ELSE k.ledger
             j == Settled(i, i.version + 1, link)
  <2>1. k.p \in Issued /\ k.p \in Periods /\ periods' = periods
    BY <1>5 DEF RecordInvoiceSettlement, CloseInv, Copied, Issued
  <2>2. IsInvoice(i)
    BY <2>1 DEF InvoiceType
  <2>3. invoices' = invoices \/ invoices' = [invoices EXCEPT ![k.p] = j]
    BY <1>5, <2>2 DEF RecordInvoiceSettlement, Settled, IsInvoice, InvoiceFields
  <2>4. CASE invoices' = invoices
    BY <2>1, <2>4, <1>1
  <2>5. CASE invoices' = [invoices EXCEPT ![k.p] = j]
    <3>1. IsInvoice(j) /\ j # NoInvoice /\ SameBill(j, i)
      BY <2>2, SettledInvoice
    <3> HIDE DEF j
    <3>2. /\ InvoiceType' /\ Issued' = Issued \cup {k.p} /\ invoices'[k.p] = j
          /\ \A p \in Periods \ {k.p} : InvoiceStep(p)
      BY Zenon, <2>1, <2>5, <3>1, <1>3
    <3>3. InvoiceStep(k.p)
      BY <2>1, <3>1, <3>2 DEF InvoiceStep
    <3>4. QED
      BY <3>2, <3>3
  <2>6. QED
    BY <2>3, <2>4, <2>5
<1>6. ASSUME NEW u \in UsageIDs, NEW r \in Rows, PutUsageFact(u, r) \/ InsertUsageFact(u, r),
             UNCHANGED closeVars
      PROVE  UNCHANGED <<periods, invoices>>
  BY <1>6 DEF PutUsageFact, InsertUsageFact, closeVars
<1>7. ASSUME NEW m \in Months, NEW products, NEW listed, UNCHANGED closeVars,
             PutPlatformSeal(m, products) \/ PutProducerSeal(m, products, listed)
      PROVE  UNCHANGED <<periods, invoices>>
  BY <1>7 DEF PutPlatformSeal, PutProducerSeal, closeVars
<1>8. ASSUME NEW c \in Closers,
             PostInvoiceDebit(c) \/ GetInvoiceDocument(c) \/ PutInvoiceDocument(c) \/ Stop(c)
      PROVE  UNCHANGED <<periods, invoices>>
  BY <1>8 DEF PostInvoiceDebit, GetInvoiceDocument, PutInvoiceDocument, Stop
<1>9. CASE Closing
  BY <1>1, <1>4, <1>5, <1>8, <1>9 DEF Closing, Progress
<1>10. CASE Intake
  BY <1>1, <1>6, <1>7, <1>10 DEF Intake
<1>11. CASE Pricing \/ Ownership \/ UNCHANGED vars
  BY <1>1, <1>11 DEF Pricing, Ownership, vars, closeVars
<1>12. QED
  BY <1>9, <1>10, <1>11 DEF Next

=============================================================================
