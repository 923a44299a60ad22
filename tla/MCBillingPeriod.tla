--------------------------- MODULE MCBillingPeriod ---------------------------
(* Constants of the model-checked instances of BillingPeriod. *)
EXTENDS BillingPeriod, TLC

Row(start, end, metric, object, granted) ==
  [start |-> start, end |-> end, metric |-> metric, product |-> "p",
   object |-> object, granted |-> granted]
Metered(start, end) == Row(start, end, "metered", "none", FALSE)
NoMonths == {}

\* One period, raced for.
FirstMonth == {<<0, 2>>}
FreeAndPaid == {Card(0, "absent", "line"), Card(1, "absent", "line")}
MeteredRows == {Metered(0, 1), Row(0, 1, "unrated", "none", FALSE)}

\* A month and a window across its start, under changing prices.
MonthAndStraddler == {<<2, 4>>, <<1, 3>>}
PricedCards == {Card(1, "absent", "line"), Card(2, "absent", "line"), Card(1, "complete", "line")}
CutoverRows == {Metered(2, 3)}

\* One month of OTA usage, around hand-overs.
SecondMonth == {<<2, 4>>}
OneCard == {Card(1, "absent", "line")}
OTARows == {Metered(2, 3), Row(2, 3, "task", "none", TRUE)}

Interchangeable == Permutations(Versions) \cup Permutations(UsageIDs) \cup Permutations(Users)
=============================================================================
