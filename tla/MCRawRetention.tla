--------------------------- MODULE MCRawRetention ---------------------------
(* A store of two records, the second received later, and three plans. *)
EXTENDS RawRetention, TLC

CONSTANTS policy1, clearance1, verifier1, wide

RequiredOf == [x \in Policies |-> {verifier1}]
DaysOf == [x \in Policies |-> 1]
Received == (1 :> 0) @@ (2 :> 1)
CoverOf == [x \in Clearances |-> [policy |-> policy1, from |-> 1, through |-> 2, periods |-> Periods]]

\* Hold "wide" is of the whole store, any other of the second record.
ExtentOf == [h \in Holds |-> IF h = wide THEN [from |-> 0, through |-> 0] ELSE [from |-> 2, through |-> 2]]

Plan(from, through) == [policy |-> policy1, clearance |-> clearance1, from |-> from, through |-> through]
ThreePlans == {Plan(1, 1), Plan(2, 2), Plan(1, 2)}
=============================================================================
