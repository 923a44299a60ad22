---------------------------- MODULE BillingProofs ----------------------------
(***************************************************************************)
(* Proofs about the invoices of BillingPeriod: calls of ClosePeriod that   *)
(* race debit, settle and render one invoice, and what it was made from is *)
(* frozen when it is written, so every later reader finds the bill         *)
(* complete, priced, sealed and addressed as ClosePeriod found it.         *)
(***************************************************************************)
EXTENDS BillingBasisProofs

-----------------------------------------------------------------------------
(* However calls of ClosePeriod race *)

\* An idle call is in order.
LEMMA IdleCloser == IsCloser(Idle) /\ Idle.pc = "idle"
BY DEF IsCloser, CloserFields, Idle

\* Initially every call is idle and nothing was debited.
LEMMA CloseInitially == Init => CloseInv
<1> SUFFICES ASSUME CloseInit PROVE CloseInv
  BY DEF Init
<1>1. CloseType /\ \A c \in Closers : closers[c].pc = "idle"
  BY IdleCloser DEF CloseInit, CloseType
<1>2. \A p \in Periods : Documented(p) /\ Entered(p)
  BY DEF CloseInit, Documented, Entered, Issued
<1>3. QED
  BY <1>1, <1>2 DEF CloseInv

\* A step that leaves what an invoice says, and debits it only while it is owed
\* and was not debited.
BillStays(p) ==
  /\ p \in Issued' /\ SameBill(invoices'[p], invoices[p])
  /\ \/ debits'[p] = debits[p]
     \/ debits[p] = 0 /\ debits'[p] = 1 /\ invoices[p].total > 0

\* The copy of a call that is between two of its transactions stays good under
\* the steps of every other call.
LEMMA CopyStays ==
  ASSUME NEW x \in Closers, closers'[x] = closers[x], Copied(closers[x]), BillStays(closers[x].p)
  PROVE  Copied(closers[x])'
BY DEF Copied, BillStays, SameBill, RenderInvoice

\* A call that moves on replaces its own record and no other.
LEMMA CloserSet ==
  ASSUME CloseType, NEW c \in Closers, NEW k, IsCloser(k), closers' = [closers EXCEPT ![c] = k]
  PROVE  /\ DOMAIN closers' = Closers /\ closers' = [x \in Closers |-> closers'[x]]
         /\ \A x \in Closers : IsCloser(closers'[x])
         /\ closers'[c] = k /\ \A x \in Closers \ {c} : closers'[x] = closers[x]
BY DEF CloseType

\* What a step of call c must show for the invariant: the types, its own new
\* copy, and that it treats every invoice well.
LEMMA CloseStep ==
  ASSUME CloseInv, CloseType', NEW c \in Closers,
         \A x \in Closers \ {c} : closers'[x] = closers[x],
         closers'[c].pc # "idle" => Copied(closers[c])',
         \A p \in Issued : BillStays(p),
         \A p \in Periods : Documented(p)' /\ Entered(p)'
  PROVE  CloseInv'
<1>1. ASSUME NEW x \in Closers, x # c, closers'[x].pc # "idle" PROVE Copied(closers[x])'
  <2>1. closers'[x] = closers[x] /\ Copied(closers[x]) /\ closers[x].p \in Issued
    BY <1>1 DEF CloseInv, Copied
  <2>2. QED
    BY <2>1, CopyStays
<1>2. QED
  BY <1>1 DEF CloseInv

Working(p, i) == [Idle EXCEPT !.pc = "debit", !.p = p, !.invoice = i, !.ledger = i.ledger]

\* A call that begins has the invoice as its copy.
LEMMA WorkingCloser ==
  ASSUME NEW p, NEW i
  PROVE  /\ IsCloser(Working(p, i)) /\ Working(p, i).pc = "debit" /\ Working(p, i).p = p
         /\ Working(p, i).invoice = i /\ Working(p, i).ledger = i.ledger
BY Zenon DEF Working, IsCloser, CloserFields, Idle

\* PrepareInvoice: the stored invoice, an incomplete period, or a new invoice,
\* which has no debit and no document yet.
LEMMA PrepareKeepsClose ==
  ASSUME InvoiceType, CloseInv, NEW c \in Closers, NEW q \in Periods, NEW verified \in BOOLEAN,
         PrepareInvoice(c, q, verified)
  PROVE  CloseInv'
<1>1. UNCHANGED <<debits, documents>>
  BY DEF PrepareInvoice
<1>2. CASE UNCHANGED <<invoices, closers>>
  BY <1>1, <1>2 DEF CloseInv, CloseType, Copied, Documented, Entered, Issued
<1>3. ASSUME NEW i, invoices'[q] = i, q \in Issued', closers' = [closers EXCEPT ![c] = Working(q, i)],
             i.ledger \in {0, 1}, i.ledger = 1 => debits[q] = 1,
             \A p \in Issued : BillStays(p),
             \A p \in Periods : Documented(p)' /\ Entered(p)'
      PROVE  CloseInv'
  <2>1. closers'[c] = Working(q, i) /\ \A x \in Closers \ {c} : closers'[x] = closers[x]
    BY Zenon, <1>3, WorkingCloser, CloserSet DEF CloseInv
  <2>2. CloseType'
    BY <1>1, <1>3, WorkingCloser, CloserSet DEF CloseInv, CloseType
  <2>3. Copied(closers[c])'
    BY <1>1, <1>3, <2>1, WorkingCloser DEF Copied
  <2>4. QED
    BY <1>3, <2>1, <2>2, <2>3, CloseStep
<1>4. CASE /\ invoices[q] # NoInvoice /\ invoices' = invoices
           /\ closers' = [closers EXCEPT ![c] = Working(q, invoices[q])]
  <2>1. q \in Issued /\ Issued' = Issued
    BY <1>4 DEF Issued
  <2>2. \A p \in Issued : BillStays(p)
    BY <1>1, <1>4, <2>1 DEF BillStays, SameBill
  <2>3. \A p \in Periods : Documented(p)' /\ Entered(p)'
    BY <1>1, <1>4, <2>1 DEF CloseInv, Documented, Entered
  <2>4. invoices[q].ledger \in {0, 1} /\ (invoices[q].ledger = 1 => debits[q] = 1)
    BY <2>1 DEF CloseInv, Entered
  <2>5. QED
    BY Zenon, <1>3, <1>4, <2>1, <2>2, <2>3, <2>4
<1>5. CASE /\ invoices[q] = NoInvoice
           /\ invoices' = [invoices EXCEPT ![q] = Invoice(q, EnsureBillingProfile)]
           /\ closers' = [closers EXCEPT ![c] = Working(q, Invoice(q, EnsureBillingProfile))]
  <2> DEFINE i == Invoice(q, EnsureBillingProfile)
  <2>1. i # NoInvoice /\ i.ledger = 0 /\ i.state = "issued"
    BY NewInvoice DEF Invoice
  <2> HIDE DEF i
  <2>2. invoices'[q] = i /\ \A p \in Periods \ {q} : invoices'[p] = invoices[p]
    BY <1>5 DEF InvoiceType, i
  <2>3. q \notin Issued /\ Issued' = Issued \cup {q}
    BY <1>5, <2>1, <2>2 DEF Issued
  <2>4. debits[q] # 1 /\ documents[q] = None
    BY <2>3 DEF CloseInv, Documented, Entered
  <2>5. \A p \in Issued : BillStays(p)
    BY <1>1, <2>2, <2>3 DEF BillStays, SameBill, Issued
  <2>6. \A p \in Periods : Documented(p)' /\ Entered(p)'
    <3> TAKE p \in Periods
    <3>1. CASE p = q
      BY <1>1, <2>1, <2>2, <2>4, <3>1 DEF Documented, Entered
    <3>2. CASE p # q
      BY <1>1, <2>2, <2>3, <3>2 DEF CloseInv, Documented, Entered
    <3>3. QED
      BY <3>1, <3>2
  <2>7. closers' = [closers EXCEPT ![c] = Working(q, i)]
    BY <1>5 DEF i
  <2>8. i.ledger \in {0, 1} /\ (i.ledger = 1 => debits[q] = 1) /\ q \in Issued'
    BY <2>1, <2>3
  <2>9. QED
    BY Zenon, <1>3, <2>2, <2>5, <2>6, <2>7, <2>8
<1>6. QED
  BY <1>2, <1>4, <1>5 DEF PrepareInvoice, Works, Working

Posted(k, ledger) == [k EXCEPT !.pc = "settle", !.ledger = ledger]

\* A call that has posted the debit keeps its period and its copy.
LEMMA PostedCloser ==
  ASSUME NEW k, IsCloser(k), NEW ledger
  PROVE  /\ IsCloser(Posted(k, ledger)) /\ Posted(k, ledger).pc = "settle"
         /\ Posted(k, ledger).p = k.p /\ Posted(k, ledger).invoice = k.invoice
         /\ Posted(k, ledger).ledger = ledger
BY Zenon DEF Posted, IsCloser, CloserFields

\* PostInvoiceDebit: the entry that is there, or the first one, for an invoice
\* with something to pay.
LEMMA DebitKeepsClose ==
  ASSUME InvoiceType, CloseInv, NEW c \in Closers, PostInvoiceDebit(c)
  PROVE  CloseInv'
<1> DEFINE k == closers[c]
           q == k.p
           needed == k.invoice.total > 0 /\ k.ledger = 0
           entry == IF needed THEN 1 ELSE k.ledger
<1>1. /\ IsCloser(k) /\ k.pc = "debit" /\ Copied(k) /\ q \in Issued /\ q \in Periods
      /\ UNCHANGED <<invoices, documents>> /\ debits \in [Periods -> {0, 1}] /\ Entered(q)
  BY DEF PostInvoiceDebit, CloseInv, CloseType, Copied, Issued
<1>2. /\ k.invoice.total = invoices[q].total
      /\ k.ledger \in {0, 1} /\ (k.ledger = 1 => debits[q] = 1) /\ debits[q] \in {0, 1}
  BY <1>1 DEF Copied, RenderInvoice
<1>3. PostLedgerEntry(q) = 1
  BY <1>2 DEF PostLedgerEntry
<1>4. debits' = IF needed THEN [debits EXCEPT ![q] = 1] ELSE debits
  BY <1>3 DEF PostInvoiceDebit
<1>5. closers' = [closers EXCEPT ![c] = Posted(k, entry)] /\ closers'[c] = Posted(k, entry)
  BY Zenon, <1>1, <1>3 DEF PostInvoiceDebit, CloseInv, CloseType, IsCloser, CloserFields, Posted
<1>6. /\ IsCloser(closers'[c]) /\ closers'[c].pc = "settle" /\ closers'[c].p = q
      /\ closers'[c].invoice = k.invoice /\ closers'[c].ledger = entry
  BY <1>1, <1>5, PostedCloser
<1>7. /\ entry = debits'[q] /\ ((invoices[q].total > 0) <=> (debits'[q] = 1))
      /\ debits' \in [Periods -> {0, 1}]
      /\ \A p \in Periods \ {q} : debits'[p] = debits[p]
      /\ \/ debits'[q] = debits[q]
         \/ debits[q] = 0 /\ debits'[q] = 1 /\ invoices[q].total > 0
  <2>1. CASE needed
    BY <1>1, <1>2, <1>4, <2>1 DEF Entered
  <2>2. CASE ~needed
    <3>1. debits' = debits /\ entry = k.ledger
      BY <1>4, <2>2
    <3>2. debits[q] = 1 => invoices[q].total > 0
      BY <1>1 DEF Entered
    <3>3. k.ledger = debits[q]
      BY <1>2, <2>2, <3>2
    <3>4. (invoices[q].total > 0) <=> (debits[q] = 1)
      BY <1>2, <2>2, <3>2
    <3>5. QED
      BY <1>1, <3>1, <3>3, <3>4
  <2>3. QED
    BY <2>1, <2>2
<1> HIDE DEF needed, entry
<1>8. CloseType' /\ \A x \in Closers \ {c} : closers'[x] = closers[x]
  <2>1. /\ DOMAIN closers' = Closers /\ closers' = [x \in Closers |-> closers'[x]]
        /\ \A x \in Closers : IsCloser(closers'[x])
        /\ \A x \in Closers \ {c} : closers'[x] = closers[x]
    BY Zenon, <1>5, <1>6, CloserSet DEF CloseInv
  <2>2. QED
    BY <1>1, <1>7, <2>1 DEF CloseInv, CloseType
<1>9. Issued' = Issued
  BY <1>1 DEF Issued
<1>10. \A p \in Issued : BillStays(p)
  BY <1>1, <1>7, <1>9 DEF BillStays, SameBill, Issued
<1>11. Copied(closers[c])'
  BY <1>1, <1>2, <1>6, <1>7, <1>9 DEF Copied
<1>12. \A p \in Periods : Documented(p)' /\ Entered(p)'
  <2> TAKE p \in Periods
  <2>1. Documented(p)'
    BY <1>1, <1>9 DEF CloseInv, Documented
  <2>2. CASE p = q
    BY <1>1, <1>7, <1>9, <2>1, <2>2 DEF Entered
  <2>3. CASE p # q
    BY <1>1, <1>7, <1>9, <2>1, <2>3 DEF CloseInv, Entered
  <2>4. QED
    BY <2>1, <2>2, <2>3
<1>13. QED
  BY <1>8, <1>10, <1>11, <1>12, CloseStep

Linked(k, i) == [k EXCEPT !.invoice = i, !.pc = "document"]

\* A call that has recorded the settlement keeps its period and its entry.
LEMMA LinkedCloser ==
  ASSUME NEW k, IsCloser(k), NEW i
  PROVE  /\ IsCloser(Linked(k, i)) /\ Linked(k, i).pc = "document"
         /\ Linked(k, i).p = k.p /\ Linked(k, i).invoice = i /\ Linked(k, i).ledger = k.ledger
BY Zenon DEF Linked, IsCloser, CloserFields

\* RecordInvoiceSettlement links the invoice to its one debit, whichever call
\* was first.
LEMMA SettlementKeepsClose ==
  ASSUME InvoiceType, CloseInv, NEW c \in Closers, RecordInvoiceSettlement(c)
  PROVE  CloseInv'
<1> DEFINE k == closers[c]
           q == k.p
           i == invoices[q]
           link == IF i.ledger > 0 THEN i.ledger ELSE k.ledger
           j == Settled(i, i.version + 1, link)
<1>1. /\ IsCloser(k) /\ k.pc = "settle" /\ Copied(k) /\ q \in Issued /\ q \in Periods
      /\ IsInvoice(i) /\ UNCHANGED <<debits, documents>> /\ Entered(q)
  BY DEF RecordInvoiceSettlement, CloseInv, CloseType, Copied, Issued, InvoiceType
<1>2. /\ k.ledger = debits[q] /\ ((i.total > 0) <=> (debits[q] = 1))
      /\ RenderInvoice(k.invoice) = RenderInvoice(i) /\ k.ledger \in {0, 1}
  BY <1>1 DEF Copied
<1>3. link = debits[q] /\ debits[q] \in {0, 1}
  <2>1. i.ledger \in {0, 1} /\ (i.ledger = 1 => debits[q] = 1)
    BY <1>1 DEF Entered
  <2>2. QED
    BY <1>2, <2>1
<1>4. /\ IsInvoice(j) /\ j # NoInvoice /\ SameBill(j, i) /\ j.ledger = link
      /\ RenderInvoice(j) = RenderInvoice(i)
  <2> HIDE DEF link
  <2>1. IsInvoice(j) /\ j # NoInvoice /\ SameBill(j, i) /\ j.ledger = link
    BY <1>1, SettledInvoice
  <2> HIDE DEF j
  <2>2. QED
    BY <2>1 DEF SameBill, RenderInvoice
<1>5. \/ invoices' = invoices /\ closers' = [closers EXCEPT ![c] = Linked(k, k.invoice)]
      \/ /\ invoices' = [invoices EXCEPT ![q] = j]
         /\ closers' = [closers EXCEPT ![c] = Linked(k, j)]
  BY Zenon, <1>1 DEF RecordInvoiceSettlement, ThenDocument, Linked, Settled, IsCloser, CloserFields,
              IsInvoice, InvoiceFields
<1> HIDE DEF j, link
<1>6. ASSUME NEW copy, RenderInvoice(copy) = RenderInvoice(i), q \in Issued',
             SameBill(invoices'[q], i), RenderInvoice(invoices'[q]) = RenderInvoice(i),
             closers' = [closers EXCEPT ![c] = Linked(k, copy)],
             \A p \in Issued : BillStays(p),
             \A p \in Periods : Documented(p)' /\ Entered(p)'
      PROVE  CloseInv'
  <2>0. CloseType /\ IsCloser(Linked(k, copy))
    BY Zenon, <1>1, LinkedCloser DEF CloseInv
  <2>1. /\ closers'[c] = Linked(k, copy) /\ \A x \in Closers \ {c} : closers'[x] = closers[x]
        /\ DOMAIN closers' = Closers /\ closers' = [x \in Closers |-> closers'[x]]
        /\ \A x \in Closers : IsCloser(closers'[x])
    BY Zenon, <1>6, <2>0, CloserSet
  <2>2. CloseType'
    BY <1>1, <1>6, <2>0, <2>1 DEF CloseType
  <2>3. /\ closers'[c].p = q /\ closers'[c].pc = "document" /\ closers'[c].ledger = k.ledger
        /\ closers'[c].invoice = copy
    BY <1>1, <2>1, LinkedCloser
  <2>4. invoices'[q].total = i.total /\ debits'[q] = debits[q]
    BY <1>1, <1>6 DEF SameBill
  <2>5. Copied(closers[c])'
    BY <1>2, <1>6, <2>3, <2>4 DEF Copied
  <2>6. QED
    BY <1>6, <2>1, <2>2, <2>5, CloseStep
<1>7. CASE invoices' = invoices /\ closers' = [closers EXCEPT ![c] = Linked(k, k.invoice)]
  <2>1. Issued' = Issued
    BY <1>7 DEF Issued
  <2>2. \A p \in Issued : BillStays(p)
    BY <1>1, <1>7, <2>1 DEF BillStays, SameBill
  <2>3. \A p \in Periods : Documented(p)' /\ Entered(p)'
    BY <1>1, <1>7, <2>1 DEF CloseInv, Documented, Entered
  <2>4. SameBill(invoices'[q], i) /\ RenderInvoice(invoices'[q]) = RenderInvoice(i) /\ q \in Issued'
    BY <1>1, <1>7, <2>1 DEF SameBill
  <2>5. QED
    BY Zenon, <1>2, <1>6, <1>7, <2>2, <2>3, <2>4
<1>8. CASE /\ invoices' = [invoices EXCEPT ![q] = j]
           /\ closers' = [closers EXCEPT ![c] = Linked(k, j)]
  <2>1. invoices'[q] = j /\ \A p \in Periods \ {q} : invoices'[p] = invoices[p]
    BY <1>1, <1>8 DEF InvoiceType
  <2>2. Issued' = Issued
    BY <1>1, <1>4, <2>1 DEF Issued
  <2>3. ASSUME NEW p \in Issued PROVE BillStays(p)
    BY <1>1, <1>4, <2>1, <2>2 DEF BillStays, SameBill, Issued
  <2>4. \A p \in Periods : Documented(p)' /\ Entered(p)'
    <3> TAKE p \in Periods
    <3>1. CASE p = q
      <4>1. p \in Issued' /\ debits'[p] = debits[p] /\ documents'[p] = documents[p]
        BY <1>1, <2>2, <3>1
      <4>2. documents[p] # None => documents[p] = RenderInvoice(i)
        BY <1>1, <3>1 DEF CloseInv, Documented
      <4>3. RenderInvoice(invoices'[p]) = RenderInvoice(i)
        BY <1>4, <2>1, <3>1
      <4>4. Documented(p)'
        BY <4>1, <4>2, <4>3 DEF Documented
      <4>5. invoices'[p].total = i.total /\ invoices'[p].ledger = debits[p]
        BY <1>3, <1>4, <2>1, <3>1 DEF SameBill
      <4>6. Entered(p)'
        BY <1>2, <1>3, <3>1, <4>1, <4>5 DEF Entered
      <4>7. QED
        BY <4>4, <4>6
    <3>2. CASE p # q
      BY <1>1, <2>1, <2>2, <3>2 DEF CloseInv, Documented, Entered
    <3>3. QED
      BY <3>1, <3>2
  <2>5. SameBill(invoices'[q], i) /\ RenderInvoice(invoices'[q]) = RenderInvoice(i) /\ q \in Issued'
    BY <1>1, <1>4, <2>1, <2>2
  <2>6. QED
    BY Zenon, <1>4, <1>6, <1>8, <2>3, <2>4, <2>5
<1>9. QED
  BY <1>5, <1>7, <1>8

Rendering(k) == [k EXCEPT !.pc = "store", !.rendered = RenderInvoice(k.invoice)]

\* A call that has rendered the document keeps everything else.
LEMMA RenderingCloser ==
  ASSUME NEW k, IsCloser(k)
  PROVE  /\ IsCloser(Rendering(k)) /\ Rendering(k).pc = "store" /\ Rendering(k).p = k.p
         /\ Rendering(k).invoice = k.invoice /\ Rendering(k).ledger = k.ledger
         /\ Rendering(k).rendered = RenderInvoice(k.invoice)
BY Zenon DEF Rendering, IsCloser, CloserFields

\* Steps that leave the invoices and the debits alone.
LEMMA QuietStep ==
  ASSUME CloseInv, UNCHANGED <<invoices, debits>>, NEW c \in Closers, NEW k, IsCloser(k),
         closers' = [closers EXCEPT ![c] = k],
         k.pc # "idle" => Copied(closers[c])',
         DOMAIN documents' = Periods, documents' = [p \in Periods |-> documents'[p]],
         \A p \in Periods : Documented(p)'
  PROVE  CloseInv'
<1>1. Issued' = Issued
  BY DEF Issued
<1>2. closers'[c] = k /\ \A x \in Closers \ {c} : closers'[x] = closers[x]
  BY Zenon, CloserSet DEF CloseInv
<1>3. CloseType'
  BY CloserSet DEF CloseInv, CloseType
<1>4. \A p \in Issued : BillStays(p)
  BY <1>1 DEF BillStays, SameBill
<1>5. \A p \in Periods : Entered(p)'
  BY <1>1 DEF CloseInv, Entered
<1>6. QED
  BY <1>2, <1>3, <1>4, <1>5, CloseStep

\* GetInvoiceDocument, PutInvoiceDocument and an early end: what is rendered is
\* what the invoice says, and a document that is there stays.
LEMMA DocumentKeepsClose ==
  ASSUME CloseInv, NEW c \in Closers,
         GetInvoiceDocument(c) \/ PutInvoiceDocument(c) \/ Stop(c)
  PROVE  CloseInv'
<1>1. UNCHANGED <<invoices, debits>>
  BY DEF GetInvoiceDocument, PutInvoiceDocument, Stop
<1>2. Issued' = Issued
  BY <1>1 DEF Issued
<1>3. ASSUME documents' = documents
      PROVE  /\ DOMAIN documents' = Periods /\ documents' = [p \in Periods |-> documents'[p]]
             /\ \A p \in Periods : Documented(p)'
  BY <1>1, <1>2, <1>3 DEF CloseInv, CloseType, Documented
<1>4. CASE documents' = documents /\ closers' = [closers EXCEPT ![c] = Idle]
  BY Zenon, <1>1, <1>3, <1>4, IdleCloser, QuietStep
<1>5. CASE /\ closers[c].pc = "document" /\ documents' = documents
           /\ closers' = [closers EXCEPT ![c] = Rendering(closers[c])]
  <2> DEFINE k == closers[c]
  <2>1. IsCloser(k) /\ Copied(k)
    BY <1>5 DEF CloseInv, CloseType
  <2>2. closers'[c] = Rendering(k)
    BY <1>5 DEF CloseInv, CloseType
  <2>3. /\ IsCloser(Rendering(k)) /\ closers'[c].pc = "store" /\ closers'[c].p = k.p
        /\ closers'[c].invoice = k.invoice /\ closers'[c].ledger = k.ledger
        /\ closers'[c].rendered = RenderInvoice(k.invoice)
    BY <2>1, <2>2, RenderingCloser
  <2>4. Copied(closers[c])'
    <3>1. closers[c].pc # "idle"
      BY <1>5
    <3>2. QED
      BY <1>1, <1>2, <1>5, <2>1, <2>3, <3>1 DEF Copied
  <2>5. QED
    BY Zenon, <1>1, <1>3, <1>5, <2>3, <2>4, QuietStep
<1>6. CASE /\ closers[c].pc = "store" /\ closers' = [closers EXCEPT ![c] = Idle]
           /\ documents' = [documents EXCEPT ![closers[c].p] = closers[c].rendered]
  <2> DEFINE q == closers[c].p
  <2>1. q \in Issued /\ q \in Periods /\ closers[c].rendered = RenderInvoice(invoices[q])
    BY <1>6 DEF CloseInv, Copied, Issued
  <2>2. /\ DOMAIN documents' = Periods /\ documents' = [p \in Periods |-> documents'[p]]
        /\ \A p \in Periods : documents'[p] = IF p = q THEN closers[c].rendered ELSE documents[p]
    BY <1>6 DEF CloseInv, CloseType
  <2>3. ASSUME NEW p \in Periods PROVE Documented(p)'
    BY <1>1, <1>2, <2>1, <2>2 DEF CloseInv, Documented
  <2>4. QED
    BY Zenon, <1>1, <1>6, <2>2, <2>3, IdleCloser, QuietStep
<1>7. QED
  BY <1>4, <1>5, <1>6 DEF GetInvoiceDocument, PutInvoiceDocument, Stop, Rendering

\* Every step keeps the debits, the links, the documents and the copies of the
\* calls consistent.
LEMMA CloseKept == InvoiceType /\ CloseInv /\ [Next]_vars => CloseInv'
<1> SUFFICES ASSUME InvoiceType, CloseInv, [Next]_vars PROVE CloseInv'
  OBVIOUS
<1>1. CASE UNCHANGED closeVars
  BY <1>1 DEF closeVars, CloseInv, CloseType, Copied, Documented, Entered, Issued
<1>2. CASE Closing
  BY <1>2, PrepareKeepsClose, DebitKeepsClose, SettlementKeepsClose, DocumentKeepsClose
     DEF Closing, Progress
<1>3. QED
  BY <1>1, <1>2 DEF Next, Pricing, Intake, Ownership, vars
-----------------------------------------------------------------------------
(* Invoices *)

\* What was billed, by which card.
Billed ==
  \A p \in Issued :
    /\ invoices[p].pricing \in InForce(p[1])
    /\ invoices[p].refs = BillableUsageFacts(ListUsageFacts(p), CardOf(p))
    /\ invoices[p].total = TotalMinor(invoices[p].refs, CardOf(p))

Sealed ==
  \A p \in Issued : OTAEnabled(CardOf(p)) =>
    /\ UTCMonth(p[1], p[2])
    /\ p \in Months /\ seals[p].platform # None /\ seals[p].producer # None
    /\ seals[p].producer.facts = {<<u, facts[u]>> : u \in OTAFacts(p)}
    /\ \A u \in OTAFacts(p) : facts[u].product \in seals[p].platform

\* What the close verified of the facts it billed.
Verified ==
  \A p \in Issued :
    /\ ~RateMissing(invoices[p].refs)
    /\ OTAEnabled(CardOf(p)) => VerifyOTAFactGrants(invoices[p].refs)

Charged ==
  \A p \in Issued :
    LET k == invoices[p].owner
    IN /\ k \in 0..Current
       /\ k > 0 => invoices[p].writer = terms[k].owner
       /\ OTAEnabled(CardOf(p)) => k > 0 /\ terms[k].from <= p[1] /\ p[2] <= terms[k].until

-----------------------------------------------------------------------------
(* What an invoice was made from does not change *)

\* The usage of a closed period is frozen: usage_period_barrier refuses every
\* fact that overlaps it, also one that was checked before it closed, and a fact
\* that lies within a period overlaps it.
LEMMA UsageFrozen ==
  ASSUME IntakeInv, InvoiceType, [Next]_vars, NEW p \in Issued
  PROVE  /\ ListUsageFacts(p)' = ListUsageFacts(p)
         /\ \A u \in ListUsageFacts(p) : facts'[u] = facts[u]
<1>1. CASE facts' = facts
  BY <1>1 DEF ListUsageFacts, Stored
<1>2. ASSUME NEW u \in UsageIDs, NEW r \in Rows, InsertUsageFact(u, r), facts' # facts
      PROVE  /\ ListUsageFacts(p)' = ListUsageFacts(p)
             /\ \A x \in ListUsageFacts(p) : facts'[x] = facts[x]
  <2>1. facts[u] = None /\ facts' = [facts EXCEPT ![u] = r] /\ ~Locked(r)
    BY <1>2 DEF InsertUsageFact, Barrier
  <2>2. p \in Periods /\ periods[p] = "closed"
    BY DEF InvoiceType, Issued
  <2>3. ~Overlaps(r, p)
    BY <2>1, <2>2 DEF Locked
  <2>4. ~Within(r, p)
    BY <2>2, <2>3, UsageAssumption DEF Within, Overlaps
  <2>5. facts'[u] = r /\ \A x \in UsageIDs \ {u} : facts'[x] = facts[x]
    BY <2>1 DEF IntakeInv
  <2>6. u \notin ListUsageFacts(p) /\ u \notin ListUsageFacts(p)'
    BY <2>1, <2>4, <2>5 DEF ListUsageFacts, Stored
  <2>7. QED
    BY <2>5, <2>6 DEF ListUsageFacts, Stored
<1>3. facts' = facts \/ \E u \in UsageIDs, r \in Rows : InsertUsageFact(u, r)
  BY DEF Next, Pricing, Intake, Ownership, Closing, vars, intakeVars,
         PutUsageFact, PutPlatformSeal, PutProducerSeal
<1>4. QED
  BY <1>1, <1>2, <1>3

\* Seals are never replaced (PutPlatformSeal, PutProducerSeal).
LEMMA SealsFrozen ==
  ASSUME IntakeInv, [Next]_vars, NEW m \in Months
  PROVE  /\ seals[m].platform # None => seals'[m].platform = seals[m].platform
         /\ seals[m].producer # None => seals'[m].producer = seals[m].producer
<1>1. seals[m] \in Seals /\ seals \in [Months -> Seals]
  BY DEF IntakeInv
<1>2. CASE seals' = seals
  BY <1>2
<1>3. ASSUME NEW x \in Months, NEW products, PutPlatformSeal(x, products)
      PROVE  /\ seals[m].platform # None => seals'[m].platform = seals[m].platform
             /\ seals[m].producer # None => seals'[m].producer = seals[m].producer
  BY <1>1, <1>3 DEF PutPlatformSeal, Seals
<1>4. ASSUME NEW x \in Months, NEW products, NEW listed, PutProducerSeal(x, products, listed)
      PROVE  /\ seals[m].platform # None => seals'[m].platform = seals[m].platform
             /\ seals[m].producer # None => seals'[m].producer = seals[m].producer
  BY <1>1, <1>4 DEF PutProducerSeal, Seals
<1>5. QED
  BY Zenon, <1>2, <1>3, <1>4
     DEF Next, Pricing, Intake, Ownership, Closing, vars, PutUsageFact, InsertUsageFact

\* A published card never changes, and no cutover takes the version of an
\* invoice out of force at the start of its period (NotInvoiced).
LEMMA PriceFrozen ==
  ASSUME BookInv, Billed, [Next]_vars, NEW p \in Issued
  PROVE  LET v == invoices[p].pricing
         IN v \in InForce(p[1])' /\ versions'[v].card = versions[v].card
<1> DEFINE v == invoices[p].pricing
<1>1. /\ p \in Periods /\ p[1] \in Nat
      /\ v \in Published /\ v \in Versions /\ versions[v].from <= p[1] /\ p[1] < versions[v].until
  BY UsageAssumption DEF Billed, InForce, Issued, Published
<1>2. CASE versions' = versions
  BY <1>1, <1>2 DEF InForce, Published
<1>3. ASSUME NEW w \in Versions, NEW row, versions[w].status = "none",
             versions' = [versions EXCEPT ![w] = row]
      PROVE  v \in InForce(p[1])' /\ versions'[v].card = versions[v].card
  <2>1. w # v
    BY <1>1, <1>3 DEF Published
  <2>2. versions'[v] = versions[v]
    BY <1>1, <1>3, <2>1 DEF BookInv, BookType
  <2>3. QED
    BY <1>1, <2>2 DEF InForce, Published
<1>4. ASSUME NEW w \in Versions, Activates(w, Invoiced)
      PROVE  v \in InForce(p[1])' /\ versions'[v].card = versions[v].card
  <2>1. v # w /\ v \in Published' /\ SameTerms(versions'[v], versions[v])
    BY <1>1, <1>4, ActivationRows
  <2>2. p[1] < versions'[v].until
    <3>1. CASE v \notin Overlapping(w)
      BY <1>1, <1>4, <2>1, <3>1, ActivationRows
    <3>2. CASE v \in Overlapping(w)
      <4>1. [version |-> v, start |-> p[1]] \in Invoiced
        BY <1>1 DEF Invoiced, Issued
      <4>2. ~(p[1] >= versions[w].from)
        BY <1>4, <3>2, <4>1 DEF Activates, NotInvoiced
      <4>3. versions'[v].until = versions[w].from /\ versions[w].from \in Nat
        <5>1. BookType /\ w \in Versions
          BY <1>4 DEF BookInv
        <5>2. versions[w].from \in Nat
          BY <5>1, PriceBookAssumption DEF BookType, VersionRows
        <5>3. versions'[v].until = versions[w].from
          BY <1>4, <3>2, <5>1, ActivationRows
        <5>4. QED
          BY <5>2, <5>3
      <4>4. QED
        BY <1>1, <4>2, <4>3
    <3>3. QED
      BY <3>1, <3>2
  <2>3. QED
    BY <1>1, <2>1, <2>2 DEF InForce, SameTerms
<1>5. ASSUME NEW w \in Versions, NEW base, NEW from, NEW card,
             CreatePricingVersion(w, from, card) \/ CreateOTAPricingDraft(w, base, from)
      PROVE  v \in InForce(p[1])' /\ versions'[v].card = versions[v].card
  <2>1. /\ versions[w].status = "none"
        /\ \E row : versions' = [versions EXCEPT ![w] = row]
    BY <1>5 DEF CreatePricingVersion, CreateOTAPricingDraft
  <2>2. QED
    BY Zenon, <2>1, <1>3
<1>6. QED
  BY Zenon, <1>2, <1>4, <1>5
     DEF Next, Pricing, Tick, ActivatePricingVersion, PublishReviewedOTAPricingVersion,
         Intake, Ownership, Closing, vars, bookVars

\* The facts billed and their total depend on nothing but the usage of the
\* period and the card (BillableUsageFacts, BuildDraftInvoice).
LEMMA SameUsageSameBill ==
  ASSUME NEW CONSTANT p, NEW CONSTANT card, NEW CONSTANT us,
         ListUsageFacts(p)' = ListUsageFacts(p),
         \A u \in ListUsageFacts(p) : facts'[u] = facts[u],
         us \subseteq ListUsageFacts(p)
  PROVE  /\ BillableUsageFacts(ListUsageFacts(p), card)' = BillableUsageFacts(ListUsageFacts(p), card)
         /\ TotalMinor(us, card)' = TotalMinor(us, card)
         /\ OTAFacts(p)' = OTAFacts(p)
         /\ OTAFacts(p) \subseteq ListUsageFacts(p)
<1>1. /\ BillableUsageFacts(ListUsageFacts(p), card)' = BillableUsageFacts(ListUsageFacts(p), card)
      /\ OTAFacts(p)' = OTAFacts(p) /\ OTAFacts(p) \subseteq ListUsageFacts(p)
  BY DEF BillableUsageFacts, OTAFacts, IsOTA
<1>2. [u \in us |-> Price(u, card)]' = [u \in us |-> Price(u, card)]
  BY DEF Price, IsOTA
<1>3. TotalMinor(us, card)' = TotalMinor(us, card)
  BY <1>2 DEF TotalMinor
<1>4. QED
  BY <1>1, <1>3

\* An invoice keeps billing the usage of its period at the card in force when
\* it began.
LEMMA BilledKept ==
  BookInv /\ IntakeInv /\ InvoiceType /\ CloseInv /\ Billed /\ [Next]_vars => Billed'
<1> SUFFICES ASSUME BookInv, IntakeInv, InvoiceType, CloseInv, Billed, [Next]_vars,
                    NEW p \in Issued'
             PROVE  (/\ invoices[p].pricing \in InForce(p[1])
                     /\ invoices[p].refs = BillableUsageFacts(ListUsageFacts(p), CardOf(p))
                     /\ invoices[p].total = TotalMinor(invoices[p].refs, CardOf(p)))'
  BY DEF Billed
<1>1. p \in Periods /\ InvoiceStep(p)
  BY InvoiceKept DEF Issued
<1>2. CASE p \in Issued /\ SameBill(invoices'[p], invoices[p])
  <2> DEFINE v == invoices[p].pricing
             card == versions[v].card
             refs == invoices[p].refs
  <2>1. /\ invoices'[p].pricing = v /\ invoices'[p].refs = refs
        /\ invoices'[p].total = TotalMinor(refs, card)
        /\ refs = BillableUsageFacts(ListUsageFacts(p), card)
    BY <1>2 DEF SameBill, Billed, CardOf
  <2>2. v \in InForce(p[1])' /\ CardOf(p)' = card
    BY <1>2, <2>1, PriceFrozen DEF CardOf
  <2>3. refs \subseteq ListUsageFacts(p)
    BY <2>1 DEF BillableUsageFacts
  <2>4. /\ ListUsageFacts(p)' = ListUsageFacts(p)
        /\ \A u \in ListUsageFacts(p) : facts'[u] = facts[u]
    BY <1>2, UsageFrozen
  <2>5. ASSUME NEW CONSTANT c, c = card, NEW CONSTANT us, us = refs
        PROVE  /\ BillableUsageFacts(ListUsageFacts(p), c)' = BillableUsageFacts(ListUsageFacts(p), c)
               /\ TotalMinor(us, c)' = TotalMinor(us, c)
    BY <2>3, <2>4, <2>5, SameUsageSameBill
  <2>6. QED
    BY <2>1, <2>2, <2>5
<1>3. CASE Issues(p)
  <2> DEFINE v == ActivePricingVersion(p[1])
  <2>1. v \in InForce(p[1])
    BY <1>3, ActiveIsInForce DEF Issues, EvidenceComplete
  <2>2. /\ UNCHANGED <<versions, facts>>
        /\ invoices'[p] = Invoice(p, EnsureBillingProfile)
    BY <1>3 DEF Issues, bookVars, intakeVars
  <2>3. /\ invoices'[p].pricing = v
        /\ invoices'[p].refs = BillableUsageFacts(ListUsageFacts(p), versions[v].card)
        /\ invoices'[p].total = TotalMinor(invoices'[p].refs, versions[v].card)
    BY <2>2, InvoiceNames
  <2>4. CardOf(p)' = versions[v].card
    BY <2>2, <2>3 DEF CardOf
  <2> HIDE DEF v
  <2>5. QED
    BY <2>1, <2>2, <2>3, <2>4
       DEF InForce, Published, BillableUsageFacts, ListUsageFacts, Stored, IsOTA, TotalMinor, Price
<1>4. QED
  BY <1>1, <1>2, <1>3 DEF InvoiceStep

\* The month of an OTA invoice stays sealed as it was verified
\* (VerifyOTAPeriodSeals).
LEMMA SealedKept ==
  /\ BookInv /\ IntakeInv /\ InvoiceType /\ CloseInv /\ Billed /\ Sealed /\ [Next]_vars
  => Sealed'
<1> SUFFICES ASSUME BookInv, IntakeInv, InvoiceType, CloseInv, Billed, Sealed, [Next]_vars,
                    NEW p \in Issued', OTAEnabled(CardOf(p))'
             PROVE  (/\ UTCMonth(p[1], p[2])
                     /\ p \in Months /\ seals[p].platform # None /\ seals[p].producer # None
                     /\ seals[p].producer.facts = {<<u, facts[u]>> : u \in OTAFacts(p)}
                     /\ \A u \in OTAFacts(p) : facts[u].product \in seals[p].platform)'
  BY DEF Sealed
<1>1. p \in Periods /\ InvoiceStep(p)
  BY InvoiceKept DEF Issued
<1>2. CASE p \in Issued /\ SameBill(invoices'[p], invoices[p])
  <2>1. CardOf(p)' = CardOf(p)
    BY <1>2, PriceFrozen DEF CardOf, SameBill
  <2>2. /\ UTCMonth(p[1], p[2])
        /\ p \in Months /\ seals[p].platform # None /\ seals[p].producer # None
        /\ seals[p].producer.facts = {<<u, facts[u]>> : u \in OTAFacts(p)}
        /\ \A u \in OTAFacts(p) : facts[u].product \in seals[p].platform
    BY Zenon, <1>2, <2>1 DEF Sealed
  <2>3. seals'[p].platform = seals[p].platform /\ seals'[p].producer = seals[p].producer
    BY Zenon, <2>2, SealsFrozen
  <2>4. /\ ListUsageFacts(p)' = ListUsageFacts(p)
        /\ \A u \in ListUsageFacts(p) : facts'[u] = facts[u]
    BY <1>2, UsageFrozen
  <2>5. OTAFacts(p)' = OTAFacts(p) /\ OTAFacts(p) \subseteq ListUsageFacts(p)
    BY <2>4, SameUsageSameBill
  <2>6. \A u \in OTAFacts(p) : facts'[u] = facts[u]
    BY <2>4, <2>5
  <2>7. {<<u, facts'[u]>> : u \in OTAFacts(p)'} = {<<u, facts[u]>> : u \in OTAFacts(p)}
    BY <2>5, <2>6
  <2>8. QED
    BY <2>2, <2>3, <2>5, <2>6, <2>7 DEF UTCMonth
<1>3. CASE Issues(p)
  <2> DEFINE v == ActivePricingVersion(p[1])
  <2>1. /\ UNCHANGED <<versions, facts, seals>>
        /\ invoices'[p].pricing = v
    <3>1. UNCHANGED <<versions, facts, seals>>
      BY <1>3 DEF Issues, bookVars, intakeVars
    <3>2. invoices'[p] = Invoice(p, EnsureBillingProfile)
      BY <1>3 DEF Issues
    <3>3. QED
      BY <3>1, <3>2, InvoiceNames
  <2>2. OTAEnabled(versions[v].card)
    BY <2>1 DEF CardOf, OTAEnabled
  <2>3. UTCMonth(p[1], p[2]) /\ VerifyOTAPeriodSeals(p)
    BY <1>3, <2>2 DEF Issues, EvidenceComplete
  <2>4. /\ p \in Months /\ seals[p].platform # None /\ seals[p].producer # None
        /\ seals[p].producer.products \subseteq seals[p].platform
        /\ \A u \in OTAFacts(p) : facts[u].product \in seals[p].producer.products
        /\ seals[p].producer.facts = {<<u, facts[u]>> : u \in OTAFacts(p)}
    BY Zenon, <2>3 DEF VerifyOTAPeriodSeals
  <2>5. OTAFacts(p)' = OTAFacts(p)
    BY <2>1 DEF OTAFacts, ListUsageFacts, Stored
  <2>6. QED
    BY <2>1, <2>3, <2>4, <2>5 DEF UTCMonth
<1>4. QED
  BY <1>1, <1>2, <1>3 DEF InvoiceStep

\* What is verified of facts depends on nothing but the facts.
LEMMA SameFactsSameVerdict ==
  ASSUME NEW CONSTANT us, \A u \in us : facts'[u] = facts[u]
  PROVE  /\ RateMissing(us)' <=> RateMissing(us)
         /\ VerifyOTAFactGrants(us)' <=> VerifyOTAFactGrants(us)
BY DEF RateMissing, VerifyOTAFactGrants, IsOTA

\* The facts of an invoice keep the rates and grants they were billed with
\* (BuildDraftInvoice, VerifyOTAFactGrants).
LEMMA VerifiedKept ==
  BookInv /\ IntakeInv /\ InvoiceType /\ CloseInv /\ Billed /\ Verified /\ [Next]_vars => Verified'
<1> SUFFICES ASSUME BookInv, IntakeInv, InvoiceType, CloseInv, Billed, Verified, [Next]_vars,
                    NEW p \in Issued'
             PROVE  (/\ ~RateMissing(invoices[p].refs)
                     /\ OTAEnabled(CardOf(p)) => VerifyOTAFactGrants(invoices[p].refs))'
  BY DEF Verified
<1>1. p \in Periods /\ InvoiceStep(p)
  BY InvoiceKept DEF Issued
<1>2. CASE p \in Issued /\ SameBill(invoices'[p], invoices[p])
  <2>1. CardOf(p)' = CardOf(p) /\ invoices'[p].refs = invoices[p].refs
    BY <1>2, PriceFrozen DEF CardOf, SameBill
  <2>2. \A u \in invoices[p].refs : facts'[u] = facts[u]
    BY <1>2, UsageFrozen DEF Billed, BillableUsageFacts
  <2>3. ASSUME NEW CONSTANT us, us = invoices[p].refs
        PROVE  /\ RateMissing(us)' <=> RateMissing(us)
               /\ VerifyOTAFactGrants(us)' <=> VerifyOTAFactGrants(us)
    BY <2>2, <2>3, SameFactsSameVerdict
  <2>4. QED
    BY <1>2, <2>1, <2>3 DEF Verified, OTAEnabled
<1>3. CASE Issues(p)
  <2> DEFINE v == ActivePricingVersion(p[1])
             refs == BillableUsageFacts(ListUsageFacts(p), versions[v].card)
  <2>1. /\ UNCHANGED <<versions, facts>>
        /\ invoices'[p] = Invoice(p, EnsureBillingProfile)
    BY <1>3 DEF Issues, bookVars, intakeVars
  <2>2. invoices'[p].pricing = v /\ invoices'[p].refs = refs
    BY <2>1, InvoiceNames
  <2>3. OTAEnabled(versions[v].card) => VerifyOTAFactGrants(refs)
    BY Zenon, <1>3 DEF Issues, EvidenceComplete
  <2>4. ~RateMissing(refs)
    BY <1>3 DEF Issues, RateMissing, BillableUsageFacts
  <2>5. CardOf(p)' = versions[v].card
    BY <2>1, <2>2 DEF CardOf
  <2> HIDE DEF v, refs
  <2>6. QED
    BY <2>1, <2>2, <2>3, <2>4, <2>5 DEF OTAEnabled, RateMissing, VerifyOTAFactGrants, IsOTA
<1>4. QED
  BY <1>1, <1>2, <1>3 DEF InvoiceStep

\* The recipient of an invoice stays the owner it was written for, and the
\* whole month of an OTA invoice stays theirs: it is over when they hand over.
LEMMA ChargedKept ==
  /\ BookInv /\ IntakeInv /\ OwnerInv /\ InvoiceType /\ CloseInv
  /\ Billed /\ Sealed /\ Charged /\ [Next]_vars
  => Charged'
<1> SUFFICES ASSUME BookInv, IntakeInv, OwnerInv, InvoiceType, CloseInv,
                    Billed, Sealed, Charged, [Next]_vars, NEW p \in Issued'
             PROVE  (LET k == invoices[p].owner
                     IN /\ k \in 0..Current
                        /\ k > 0 => invoices[p].writer = terms[k].owner
                        /\ OTAEnabled(CardOf(p)) => k > 0 /\ terms[k].from <= p[1] /\ p[2] <= terms[k].until)'
  BY Zenon DEF Charged
<1>1. p \in Periods /\ InvoiceStep(p)
  BY InvoiceKept DEF Issued
<1>2. /\ now \in Nat /\ Current \in Nat /\ Current' \in Nat /\ TermsGrow
      /\ p[1] \in Nat /\ p[2] \in Nat
  <2>1. now \in Nat
    BY ClockAdvances
  <2>2. OwnerInv' /\ TermsGrow
    BY OwnerKept
  <2>3. Current \in Nat /\ Current' \in Nat
    BY <2>2 DEF OwnerInv, Current
  <2>4. QED
    BY <1>1, <2>1, <2>2, <2>3, UsageAssumption
<1>3. CASE p \in Issued /\ SameBill(invoices'[p], invoices[p])
  <2> DEFINE k == invoices[p].owner
  <2>1. /\ CardOf(p)' = CardOf(p) /\ invoices'[p].owner = k
        /\ invoices'[p].writer = invoices[p].writer
    BY <1>3, PriceFrozen DEF CardOf, SameBill
  <2>2. /\ k \in 0..Current
        /\ k > 0 => invoices[p].writer = terms[k].owner
        /\ OTAEnabled(CardOf(p)) => k > 0 /\ terms[k].from <= p[1] /\ p[2] <= terms[k].until
    BY <1>3 DEF Charged
  <2>3. OTAEnabled(CardOf(p)) => p[2] <= now
    BY Zenon, <1>3 DEF Sealed, IntakeInv
  <2>4. k \in 0..Current' /\ (k > 0 => k \in 1..Current)
    <3>1. k \in 0..Current
      BY Zenon, <2>2
    <3>2. Current \in Nat /\ Current' \in Nat /\ Current <= Current'
      BY Zenon, <1>2 DEF TermsGrow
    <3> HIDE DEF k
    <3>3. QED
      BY <3>1, <3>2
  <2>5. k > 0 => /\ terms'[k].owner = terms[k].owner /\ terms'[k].from = terms[k].from
                 /\ terms'[k].until = terms[k].until \/ terms'[k].until = now
    BY <1>2, <2>4 DEF TermsGrow
  <2> HIDE DEF k
  <2>6. QED
    BY <2>1, <2>2, <2>3, <2>4, <2>5
<1>4. CASE Issues(p)
  <2> DEFINE v == ActivePricingVersion(p[1])
             prof == EnsureBillingProfile
  <2>1. /\ UNCHANGED <<versions, facts, seals, terms>> /\ invoices'[p].pricing = v
        /\ invoices'[p].owner = prof.owner /\ invoices'[p].writer = prof.writer
        /\ ~prof.required
    <3>1. UNCHANGED <<versions, facts, seals, terms>> /\ ~prof.required
      BY <1>4 DEF Issues, bookVars, intakeVars, Addressed
    <3>2. invoices'[p] = Invoice(p, prof)
      BY <1>4 DEF Issues
    <3>3. QED
      BY <3>1, <3>2, InvoiceNames
  <2>2. /\ prof.owner \in 0..Current
        /\ prof.owner > 0 => prof.writer = terms[prof.owner].owner
    BY <1>2, <2>1, EnsuredProfile DEF ProfileOf
  <2>3. CardOf(p)' = versions[v].card /\ Current' = Current
    BY <2>1 DEF CardOf, Current
  <2>4. ASSUME OTAEnabled(versions[v].card)
        PROVE  prof.owner > 0 /\ terms[prof.owner].from <= p[1] /\ p[2] <= terms[prof.owner].until
    <3>1. prof.owner = Current /\ Current > 0 /\ terms[Current].from <= p[1]
      BY Zenon, <1>4, <2>4 DEF Issues, EvidenceComplete, Addressed, OwnsWholeMonth, HasOwner
    <3>2. p \in Months /\ seals[p].platform # None
      BY Zenon, <1>4, <2>4 DEF Issues, EvidenceComplete, VerifyOTAPeriodSeals
    <3>3. p[2] <= now /\ now <= MaxTime /\ terms[Current].until = MaxTime + 1 /\ MaxTime \in Nat
      BY <3>1, <3>2, PriceBookAssumption
         DEF IntakeInv, BookInv, BookType, OwnerInv, HasOwner, Forever
    <3>4. QED
      BY <1>2, <3>1, <3>3
  <2> HIDE DEF v, prof
  <2>5. QED
    BY <2>1, <2>2, <2>3, <2>4
<1>5. QED
  BY Zenon, <1>1, <1>3, <1>4 DEF InvoiceStep

-----------------------------------------------------------------------------
(* What holds of every behaviour *)

BillingInv ==
  /\ BookInv /\ IntakeInv /\ OwnerInv /\ InvoiceType /\ CloseInv
  /\ Billed /\ Sealed /\ Verified /\ Charged

\* The inductive invariant of billing: no part of it is inductive alone, since
\* what an invoice says is kept by the barrier, the book, the seals, the terms.
THEOREM BillingInvariant == Spec => []BillingInv
<1>1. Init => BillingInv
  <2>1. Init => Billed /\ Sealed /\ Verified /\ Charged
    BY Zenon DEF Init, CloseInit, Issued, Billed, Sealed, Verified, Charged
  <2>2. QED
    BY <2>1, BookInitially, IntakeInitially, OwnerInitially, InvoiceInitially, CloseInitially
       DEF BillingInv
<1>2. BillingInv /\ [Next]_vars => BillingInv'
  BY BookKept, IntakeKept, OwnerKept, InvoiceKept, CloseKept, BilledKept, SealedKept, VerifiedKept,
     ChargedKept
     DEF BillingInv
<1>3. QED
  BY <1>1, <1>2, PTL DEF Spec

\* An invoice bills exactly the billable usage of its period, and all a producer
\* was told is stored is stored as it was sent, however checks, inserts and the
\* close interleave (PutUsageFact, usage_period_barrier, PrepareInvoice).
THEOREM ClosedPeriodComplete == Spec => []ClosedPeriodBillsAllItsFacts
<1>1. BillingInv => ClosedPeriodBillsAllItsFacts
  BY Zenon DEF BillingInv, Billed, IntakeInv, ClosedPeriodBillsAllItsFacts
<1>2. QED
  BY <1>1, BillingInvariant, PTL

\* Any number of calls of ClosePeriod that race, stop and are repeated debit an
\* invoice once and link a settled one to that debit.
THEOREM DebitedOnce == Spec => []InvoiceDebitedOnce
<1>1. BillingInv => InvoiceDebitedOnce
  <2> SUFFICES ASSUME BillingInv, NEW p \in Periods
               PROVE  /\ debits[p] <= 1
                      /\ debits[p] = 1 => p \in Issued /\ invoices[p].total > 0
                      /\ (p \in Issued /\ invoices[p].state = "settled") =>
                           /\ invoices[p].ledger = debits[p]
                           /\ (invoices[p].total > 0) <=> (debits[p] = 1)
    BY DEF InvoiceDebitedOnce
  <2>1. debits[p] \in {0, 1} /\ Entered(p)
    BY DEF BillingInv, CloseInv, CloseType
  <2>2. QED
    BY <2>1 DEF Entered
<1>2. QED
  BY <1>1, BillingInvariant, PTL

\* Calls that render the same invoice render the same document, whatever was
\* settled in between (RenderInvoice, PutInvoiceDocument).
THEOREM DocumentsAgree == Spec => []RendersAgree
<1>1. BillingInv => RendersAgree
  BY DEF BillingInv, CloseInv, Copied, Documented, Issued, RendersAgree
<1>2. QED
  BY <1>1, BillingInvariant, PTL

\* The version an invoice was priced by stays the one in force at the start of
\* its period (assertPricingCutoverHasNoInvoices, ActivePricingVersion).
THEOREM PriceExplained == Spec => []InvoicePriceExplained
<1>1. BillingInv => InvoicePriceExplained
  <2> SUFFICES ASSUME BillingInv, NEW p \in Issued
               PROVE  ActivePricingVersion(p[1]) = invoices[p].pricing
    BY DEF InvoicePriceExplained
  <2>1. p[1] \in Nat /\ invoices[p].pricing \in InForce(p[1]) /\ BookInv
    BY UsageAssumption DEF BillingInv, Billed, Issued
  <2>2. QED
    BY <2>1, InForceIsActive
<1>2. QED
  BY <1>1, BillingInvariant, PTL

\* OTA usage is invoiced only as both sources sealed it, and what they sealed
\* stays what is stored (VerifyOTAPeriodSeals, usage_period_barrier).
THEOREM OTASealed == Spec => []OTAInvoiceIsSealed
<1>1. BillingInv => OTAInvoiceIsSealed
  BY DEF BillingInv, Sealed, OTAInvoiceIsSealed
<1>2. QED
  BY <1>1, BillingInvariant, PTL

\* The recipient of an OTA invoice owned the whole month, also after later
\* hand-overs (OwnsWholeMonth, FinalizeOwnershipHandoff).
THEOREM MonthOwnerCharged == Spec => []OTAInvoiceChargesMonthOwner
<1>1. BillingInv => OTAInvoiceChargesMonthOwner
  <2> SUFFICES ASSUME BillingInv, NEW p \in Issued, OTAEnabled(CardOf(p))
               PROVE  LET k == invoices[p].owner
                      IN k \in DOMAIN terms /\ terms[k].from <= p[1] /\ p[2] <= terms[k].until
    BY DEF OTAInvoiceChargesMonthOwner
  <2>1. /\ invoices[p].owner \in 0..Current /\ invoices[p].owner > 0
        /\ terms[invoices[p].owner].from <= p[1] /\ p[2] <= terms[invoices[p].owner].until
    BY DEF BillingInv, Charged
  <2>2. DOMAIN terms = 1..Current /\ Current \in Nat
    BY DEF BillingInv, OwnerInv, Current
  <2>3. \A k \in 0..Current : k > 0 => k \in DOMAIN terms
    BY <2>2
  <2>4. QED
    BY Zenon, <2>1, <2>3
<1>2. QED
  BY <1>1, BillingInvariant, PTL

\* The recipient data of an invoice were written by the owner it is for
\* (EnsureBillingProfile, PutBillingProfile, the reset at a hand-over).
THEOREM RecipientOwns == Spec => []RecipientIsOwner
<1>1. BillingInv => RecipientIsOwner
  BY DEF BillingInv, Charged, RecipientIsOwner
<1>2. QED
  BY <1>1, BillingInvariant, PTL

\* Responsibilities begin and end at instants.
LEMMA TermTimes ==
  ASSUME OwnerInv, NEW k \in DOMAIN terms
  PROVE  terms[k].from \in Nat /\ terms[k].until \in Nat
<1>1. terms \in Seq(Terms) /\ k \in 1..Len(terms)
  BY DEF OwnerInv
<1>2. terms[k] \in Terms
  BY <1>1
<1>3. QED
  BY <1>2 DEF Terms

\* A responsibility that holds the whole period holds each fact listed for it.
LEMMA ListedIsVisible ==
  ASSUME IntakeInv, OwnerInv, NEW p \in Periods, NEW u \in Users, NEW k \in DOMAIN terms,
         terms[k].owner = u, terms[k].from <= p[1], p[2] <= terms[k].until
  PROVE  ListUsageFacts(p) \subseteq UsageVisible(u)
<1> SUFFICES ASSUME NEW f \in ListUsageFacts(p) PROVE f \in UsageVisible(u)
  OBVIOUS
<1>1. f \in Stored /\ facts[f] \in Rows /\ p[1] <= facts[f].start /\ facts[f].end <= p[2]
  BY DEF ListUsageFacts, Stored, Within, IntakeInv
<1>2. /\ p[1] \in Nat /\ p[2] \in Nat /\ facts[f].start \in Nat /\ facts[f].end \in Nat
  BY <1>1, UsageAssumption
<1>3. terms[k].from \in Nat /\ terms[k].until \in Nat
  BY TermTimes
<1>4. terms[k].from <= facts[f].start /\ facts[f].end <= terms[k].until
  BY <1>1, <1>2, <1>3
<1>5. QED
  BY <1>1, <1>4 DEF UsageVisible

\* Whoever is shown an invoice may be shown every fact it bills
\* (invoiceVisibility, usageVisibility).
THEOREM VisibleIsOwn == Spec => []VisibleInvoiceIsOwn
<1>1. BillingInv => VisibleInvoiceIsOwn
  <2> SUFFICES ASSUME BillingInv, NEW p \in Issued, NEW u \in Users, InvoiceVisible(u, p)
               PROVE  invoices[p].refs \subseteq UsageVisible(u)
    BY DEF VisibleInvoiceIsOwn
  <2>1. p \in Periods /\ invoices[p].refs \subseteq ListUsageFacts(p)
    BY DEF BillingInv, Billed, BillableUsageFacts, Issued
  <2>2. ListUsageFacts(p) \subseteq UsageVisible(u)
    BY <2>1, ListedIsVisible DEF InvoiceVisible, BillingInv
  <2>3. QED
    BY <2>1, <2>2
<1>2. QED
  BY <1>1, BillingInvariant, PTL

\* Leaving out OTA usage commutes with leaving out what the card does not bill.
LEMMA RestOfBill ==
  ASSUME NEW us, NEW card
  PROVE  /\ BillableUsageFacts(WithoutOTA(us), card) = WithoutOTA(BillableUsageFacts(us, card))
         /\ WithoutOTA(WithoutOTA(us)) = WithoutOTA(us)
         /\ RateMissing(WithoutOTA(us)) => RateMissing(us)
BY DEF BillableUsageFacts, WithoutOTA, RateMissing

\* The estimate e, where refs is all the card bills of what the user is shown:
\* everything, or nothing of OTA because of an early check or of the grants.
EstimateOf(refs, card, p, eligible, confirmed, e) ==
  LET held == OTAEnabled(card) /\ (HeldForReview(p) \/ ~eligible \/ ~GrantsConfirmed(refs, confirmed))
      rest == WithoutOTA(refs)
  IN /\ held => e = Estimate("held_for_review", rest, TotalMinor(rest, card))
     /\ ~held => e = Estimate(IF OTAEnabled(card) THEN "estimated" ELSE "not_effective",
                              refs, TotalMinor(refs, card))

\* What billingUsageForPeriod answers, unless it has no prices or fails.
LEMMA EstimateCases ==
  ASSUME NEW u, NEW p, NEW eligible \in BOOLEAN, NEW confirmed \in BOOLEAN
  PROVE  LET card == versions[ActivePricingVersion(p[1])].card
             refs == BillableUsageFacts(ListUsageFacts(p) \cap UsageVisible(u), card)
         IN ActivePricingVersion(p[1]) # None /\ OTAComplete(card) /\ ~RateMissing(refs) =>
              EstimateOf(refs, card, p, eligible, confirmed, BillingUsageForPeriod(u, p, eligible, confirmed))
<1> DEFINE card == versions[ActivePricingVersion(p[1])].card
           listed == ListUsageFacts(p) \cap UsageVisible(u)
           refs == BillableUsageFacts(listed, card)
           withheld == OTAEnabled(card) /\ (HeldForReview(p) \/ ~eligible)
           refused == OTAEnabled(card) /\ ~GrantsConfirmed(refs, confirmed)
           rest == WithoutOTA(refs)
           e == BillingUsageForPeriod(u, p, eligible, confirmed)
<1> SUFFICES ASSUME ActivePricingVersion(p[1]) # None, OTAComplete(card), ~RateMissing(refs)
             PROVE  EstimateOf(refs, card, p, eligible, confirmed, e)
  OBVIOUS
<1>1. /\ BillableUsageFacts(WithoutOTA(listed), card) = rest
      /\ WithoutOTA(rest) = rest /\ ~RateMissing(rest)
  BY RestOfBill
<1>2. CASE withheld
  <2>1. e = Estimate("held_for_review", rest, TotalMinor(rest, card))
    BY Zenon, <1>1, <1>2 DEF BillingUsageForPeriod
  <2>2. QED
    BY Zenon, <1>2, <2>1 DEF EstimateOf
<1>3. CASE ~withheld /\ refused
  <2>1. e = Estimate("held_for_review", rest, TotalMinor(rest, card))
    BY Zenon, <1>1, <1>3 DEF BillingUsageForPeriod
  <2>2. QED
    BY Zenon, <1>3, <2>1 DEF EstimateOf
<1>4. CASE ~withheld /\ ~refused
  <2>1. e = Estimate(IF OTAEnabled(card) THEN "estimated" ELSE "not_effective", refs, TotalMinor(refs, card))
    BY Zenon, <1>4 DEF BillingUsageForPeriod
  <2>2. QED
    BY Zenon, <1>4, <2>1 DEF EstimateOf
<1>5. QED
  BY <1>2, <1>3, <1>4

\* The estimate of a period with an invoice is that invoice, whatever was
\* published, sealed or handed over since, or it is held for review because a
\* check fails now, and then it lacks only the OTA usage (billingUsageForPeriod,
\* BuildDraftInvoice).
THEOREM EstimateAgrees == Spec => []EstimateIsInvoiceOrHeld
<1>1. BillingInv => EstimateIsInvoiceOrHeld
  <2> SUFFICES ASSUME BillingInv, NEW p \in Issued, NEW u \in Users,
                      NEW eligible \in BOOLEAN, NEW confirmed \in BOOLEAN,
                      IsOwner(u), invoices[p].owner = Current, InvoiceVisible(u, p)
               PROVE  InvoiceOrHeld(p, BillingUsageForPeriod(u, p, eligible, confirmed), eligible /\ confirmed)
    BY DEF EstimateIsInvoiceOrHeld
  <2> DEFINE card == CardOf(p)
             refs == invoices[p].refs
             listed == ListUsageFacts(p)
             e == BillingUsageForPeriod(u, p, eligible, confirmed)
  <2>1. p \in Periods /\ p[1] \in Nat /\ p[2] \in Nat
    BY UsageAssumption DEF Issued
  <2>2. /\ ActivePricingVersion(p[1]) = invoices[p].pricing
        /\ invoices[p].pricing \in Published /\ invoices[p].pricing # None
    BY <2>1, InForceIsActive, PriceBookAssumption DEF BillingInv, Billed, InForce, Published
  <2>3. terms[Current].from <= p[1] /\ terms[Current].from \in Nat
    <3>1. PICK k \in DOMAIN terms : invoices[p].owner = k /\ terms[k].from <= p[1]
      BY DEF InvoiceVisible
    <3>2. terms[k].from \in Nat
      BY TermTimes DEF BillingInv
    <3>3. QED
      BY <3>1, <3>2
  <2>4. OTAEnabled(card) => ~HeldForReview(p)
    <3> SUFFICES ASSUME OTAEnabled(card) PROVE ~HeldForReview(p)
      OBVIOUS
    <3>1. UTCMonth(p[1], p[2])
      BY DEF BillingInv, Sealed
    <3>2. p[1] % 2 = 0
      BY <3>1 DEF UTCMonth, MonthStart
    <3>3. p[1] - (p[1] % 2) = p[1] /\ ~(terms[Current].from > p[1])
      BY <2>1, <2>3, <3>2
    <3>4. QED
      BY <3>1, <3>3 DEF HeldForReview
  <2>5. listed \cap UsageVisible(u) = listed
    BY <2>1, ListedIsVisible DEF InvoiceVisible, BillingInv
  <2>6. refs = BillableUsageFacts(listed, card) /\ invoices[p].total = TotalMinor(refs, card)
    BY DEF BillingInv, Billed
  <2>7. OTAComplete(card)
    BY <2>2 DEF BillingInv, BookInv, Extends, ReviewOTACandidateRates, OTAEnabled, OTAComplete, CardOf
  <2>8. /\ ~RateMissing(refs)
        /\ OTAEnabled(card) /\ confirmed => GrantsConfirmed(refs, confirmed)
    BY DEF BillingInv, Verified, GrantsConfirmed
  <2>9. EstimateOf(refs, card, p, eligible, confirmed, e)
    <3>1. /\ ActivePricingVersion(p[1]) # None /\ versions[ActivePricingVersion(p[1])].card = card
          /\ BillableUsageFacts(listed \cap UsageVisible(u), card) = refs
      BY Zenon, <2>2, <2>5, <2>6 DEF CardOf
    <3>2. QED
      BY Zenon, <2>7, <2>8, <3>1, EstimateCases
  <2> HIDE DEF e
  <2>10. CASE OTAEnabled(card) /\ (~eligible \/ ~GrantsConfirmed(refs, confirmed))
    <3>1. e = Estimate("held_for_review", WithoutOTA(refs), TotalMinor(WithoutOTA(refs), card))
      BY Zenon, <2>9, <2>10 DEF EstimateOf
    <3>2. ~(eligible /\ confirmed)
      BY Zenon, <2>8, <2>10
    <3>3. /\ e.status = "held_for_review" /\ e.refs = WithoutOTA(refs)
          /\ e.total = TotalMinor(WithoutOTA(refs), card)
      BY <3>1 DEF Estimate
    <3>4. QED
      BY Zenon, <2>10, <3>2, <3>3 DEF e, InvoiceOrHeld
  <2>11. CASE ~(OTAEnabled(card) /\ (~eligible \/ ~GrantsConfirmed(refs, confirmed)))
    <3>1. e = Estimate(IF OTAEnabled(card) THEN "estimated" ELSE "not_effective", refs, TotalMinor(refs, card))
      BY Zenon, <2>4, <2>9, <2>11 DEF EstimateOf
    <3>2. /\ e.status = IF OTAEnabled(card) THEN "estimated" ELSE "not_effective"
          /\ e.refs = refs /\ e.total = TotalMinor(refs, card)
      BY <3>1 DEF Estimate
    <3>3. QED
      BY Zenon, <2>6, <3>2 DEF e, InvoiceOrHeld
  <2>12. QED
    BY Zenon, <2>10, <2>11
<1>2. QED
  BY <1>1, BillingInvariant, PTL

\* What an invoice says is final, and its period stays closed.
InvoiceIsFinal ==
  \A p \in Issued : p \in Issued' /\ SameBill(invoices'[p], invoices[p]) /\ periods'[p] = "closed"

\* No step, of whatever call, producer, owner or activation, rewrites an issued
\* invoice or reopens its period: settlement changes its state, link and version.
THEOREM InvoicesFinal == Spec => [][InvoiceIsFinal]_vars
<1>1. BillingInv /\ [Next]_vars => InvoiceIsFinal
  <2> SUFFICES ASSUME BillingInv, [Next]_vars, NEW p \in Issued
               PROVE  p \in Issued' /\ SameBill(invoices'[p], invoices[p]) /\ periods'[p] = "closed"
    BY Zenon DEF InvoiceIsFinal
  <2>1. p \in Periods /\ InvoiceStep(p) /\ InvoiceType'
    BY InvoiceKept DEF BillingInv, Issued
  <2>2. p \in Issued' /\ SameBill(invoices'[p], invoices[p])
    BY <2>1 DEF InvoiceStep, Issues
  <2>3. QED
    BY <2>1, <2>2 DEF InvoiceType
<1>2. QED
  BY <1>1, BillingInvariant, PTL DEF Spec
=============================================================================
