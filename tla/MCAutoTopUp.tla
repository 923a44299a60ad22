---------------------------- MODULE MCAutoTopUp ----------------------------
(***************************************************************************)
(* Small instances of AutoTopUp.  A unit of money is a top-up's order of   *)
(* magnitude, a tick is half a day.                                        *)
(***************************************************************************)
EXTENDS AutoTopUp, TLC

Overdraft == -1

\* Limits that bite: two attempts, or two top-ups' worth of money, a day.
Tight == [threshold |-> 2, amount |-> 2, attempts |-> 2, daily |-> 4, cooldown |-> 1]
\* The amount limit bites before the attempt limit.
Dear == [threshold |-> 2, amount |-> 2, attempts |-> 3, daily |-> 3, cooldown |-> 1]
\* Other terms to change to: a lower threshold, a smaller amount.
Wide == [threshold |-> 1, amount |-> 1, attempts |-> 4, daily |-> 4, cooldown |-> 1]

LimitTerms == {Tight, Dear}
OwnerTerms == {Tight, Wide}

\* Outcomes only, or also the states in between.
Outcomes == {"processing", "succeeded", "failed"}
Interrupted == Outcomes \cup {"requires_action", "canceled"}

\* No method is special.
AnyMethod == Permutations(Methods)
=============================================================================
