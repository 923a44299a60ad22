--------------------------- MODULE MCInvoiceTotals ---------------------------
(* Five rates, among them a free one and one taxed in full, on three lines. *)
EXTENDS InvoiceTotals

Rate(price, divisor, rounding, taxRate) ==
  [price |-> price, divisor |-> divisor, rounding |-> rounding, taxRate |-> taxRate]

FiveRates ==
  {Rate(0, 1, "down", 0), Rate(1, 2, "half_up", 1), Rate(1, 2, "up", 2),
   Rate(1, 1, "half_up", 2), Rate(2, 1, "down", 4)}
=============================================================================
