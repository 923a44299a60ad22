------------------------------ MODULE AutoTopUp ------------------------------
(***************************************************************************)
(* The balance of one commercial account and its automatic top-up policy:  *)
(* debits and credits (internal/paymentstore/ledger.go), the policy        *)
(* (policy.go, customer.go, internal/payment/policy.go), what the outcome  *)
(* of a payment does to both (transitionIntentTx), provider reversals, and *)
(* the fence of an ownership handoff or a cloud closure.                   *)
(*                                                                         *)
(* Every operation locks the account row and commits once: one action.     *)
(* How a payment gets to its outcome is module PaymentOrchestration; here  *)
(* an intent takes any legal transition.  A request repeated under its     *)
(* idempotency key returns the stored row and changes nothing, so an       *)
(* action is the first request with its key.                               *)
(***************************************************************************)
EXTENDS IntentStates, Integers, Sequences, FiniteSets, Functions

CONSTANTS
  Terms,       \* what an owner may ask for: see TermsType
  Methods,     \* stored payment methods that allow merchant-initiated charges
  Amounts,     \* amounts of debits, credits, manual top-ups and reversals
  Opening,     \* the balance to begin with
  MinBalance, MaxBalance,  \* the int64 range, scaled down
  DayLength,   \* ticks in a day of the billing timezone
  Delay,       \* how old the clock reading of a debit may be when it commits
  Passing,     \* the states an intent may take on its way in a behaviour
  MaxClock, MaxPosts, MaxEdits, MaxIntents, MaxManual, MaxFences,  \* bounds on a behaviour
  NoPolicy, Never

TermsType == [threshold : Nat \ {0}, amount : Nat \ {0}, attempts : 1..10,
              daily : Nat \ {0}, cooldown : Nat \ {0}]

\* ValidatePolicy, on what the database does not already guarantee.
ValidatePolicy(t) == t \in TermsType /\ t.amount <= t.daily

ASSUME TopUpAssumption ==
  /\ \A t \in Terms : ValidatePolicy(t)
  /\ Amounts \subseteq Nat \ {0}
  /\ MinBalance \in Int /\ MaxBalance \in Int /\ Opening \in MinBalance..MaxBalance
  /\ DayLength \in Nat \ {0} /\ Delay \in Nat
  /\ Passing \subseteq IntentState
  /\ MaxClock \in Nat /\ MaxPosts \in Nat /\ MaxEdits \in Nat
  /\ MaxIntents \in Nat /\ MaxManual \in Nat /\ MaxFences \in Nat
  /\ Never \notin Int

VARIABLES
  now,        \* the clock
  balance,    \* commercial_accounts.available_balance_minor
  standing,   \* commercial_accounts.state
  policy,     \* the row of auto_topup_policies, or NoPolicy
  intents,    \* payment_intents of the account, in the order they committed
  method,     \* payment_methods.status, "absent" before the row exists
  fence,      \* the open handoff or closure that requireNoHandoffTx finds
  owner,      \* the ownership version of the open responsibility period
  posts, edits, fences,  \* operations so far, against their bounds
  recovered   \* history: since the last automatic top-up the balance was at
              \* the threshold, or the owner saved the policy anew

vars == <<now, balance, standing, policy, intents, method, fence, owner, posts, edits, fences,
          recovered>>

\* One intent; "terms" remembers the policy it was triggered under, "owner" is
\* its billing_payment_responsibility.
Intent == [reason : {"auto_top_up", "manual_top_up"}, generation : Nat, amount : Nat \ {0},
           state : IntentState, created : Nat, terms : Terms \cup {NoPolicy},
           reversed : Nat, owner : Nat]

\* "owner" is who put it: the binding of its method to a responsibility period.
Policy == [enabled : BOOLEAN, armed : BOOLEAN, generation : Nat \ {0}, version : Nat \ {0},
           failures : Nat, lastTriggered : Nat \cup {Never}, method : Methods, terms : Terms,
           owner : Nat]

\* No row is not a row.
ASSUME NoPolicyAssumption == NoPolicy \notin Policy

\* "commit" is a handoff past its commit authorization.
Fences == {"none", "handoff", "commit", "closure"}

TypeOK ==
  /\ now \in 0..MaxClock
  /\ balance \in MinBalance..MaxBalance
  /\ standing \in {"active", "attention_required"}
  /\ policy \in Policy \cup {NoPolicy}
  /\ intents \in Seq(Intent)
  /\ method \in [Methods -> {"absent", "active", "revoked"}]
  /\ fence \in Fences /\ owner \in Nat
  /\ posts \in 0..MaxPosts /\ edits \in 0..MaxEdits /\ fences \in 0..MaxFences
  /\ recovered \in BOOLEAN

Init ==
  /\ now = 0 /\ balance = Opening /\ standing = "active"
  /\ policy = NoPolicy /\ intents = <<>>
  /\ method \in [Methods -> {"absent", "active"}]
  /\ fence = "none" /\ owner = 1
  /\ posts = 0 /\ edits = 0 /\ fences = 0 /\ recovered = TRUE

-----------------------------------------------------------------------------
(* Reading the intents *)

Rows == 1..Len(intents)
IsOpen(i) == ~IntentStateTerminal(intents[i].state)
Automatic == {i \in Rows : intents[i].reason = "auto_top_up"}

\* DailyLimitWindow: the first instant of the day in the billing timezone.
DayStart(t) == (t \div DayLength) * DayLength

SumAmounts(S) == FoldFunctionOnSet(+, 0, [i \in Rows |-> intents[i].amount], S)

\* What evaluateAutoTopUpTx counts for a debit stamped "at".
AttemptsToday(at) == Cardinality({i \in Automatic : intents[i].created >= DayStart(at)})
AmountToday(at) == SumAmounts({i \in Automatic : /\ intents[i].created >= DayStart(at)
                                                 /\ intents[i].state \notin {"failed", "canceled"}})

\* Mutant: another open payment is not looked for.
NothingOpenBlindly == TRUE

NothingOpen == \A i \in Rows : ~IsOpen(i)

\* Mutant: no cooldown.
CooledDownAtOnce(at) == at \in Int

CooledDown(at) ==
  policy.lastTriggered = Never \/ at >= policy.lastTriggered + policy.terms.cooldown

\* Mutant: the amount limit is compared without the new top-up.
AmountAllowedSoFar(at) == AmountToday(at) <= policy.terms.daily

AmountAllowed(at) == AmountToday(at) <= policy.terms.daily - policy.terms.amount

\* EvaluateAutoTopUp: whether a debit stamped "at" that left "b" starts a top-up.
EvaluateAutoTopUp(b, at) ==
  /\ policy.enabled /\ policy.armed
  /\ b < policy.terms.threshold
  /\ NothingOpen
  /\ method[policy.method] = "active"
  /\ CooledDown(at)
  /\ AttemptsToday(at) < policy.terms.attempts
  /\ AmountAllowed(at)

-----------------------------------------------------------------------------
(* The ledger *)

\* Mutant: no commit barrier on the ledger.
CanPostUnbarred(b) == b \in MinBalance..MaxBalance

\* insertLedgerEntryTx: ApplyBalance refuses to leave the range, and the commit
\* barrier of a handoff refuses every ledger row.
CanPost(b) == b \in MinBalance..MaxBalance /\ fence # "commit"

\* The history: the balance is now b under the policy p.
Recovers(b, p) == recovered' = (recovered \/ (p # NoPolicy /\ b >= p.terms.threshold))

\* PostLedgerEntry, a debit.  "at" is in.Now, read before the account is locked.
Debit(amount, at) ==
  LET b == balance - amount IN
  /\ posts < MaxPosts /\ CanPost(b)
  /\ at \in now - Delay..now /\ at >= 0
  /\ posts' = posts + 1 /\ balance' = b
  /\ IF standing = "active" /\ fence = "none" /\ policy # NoPolicy /\ EvaluateAutoTopUp(b, at)
       THEN /\ Len(intents) < MaxIntents
            /\ intents' = Append(intents,
                 [reason |-> "auto_top_up", generation |-> policy.generation,
                  amount |-> policy.terms.amount, state |-> "created", created |-> at,
                  terms |-> policy.terms, reversed |-> 0, owner |-> owner])
            /\ policy' = [policy EXCEPT !.armed = FALSE, !.lastTriggered = at, !.version = @ + 1]
            /\ recovered' = FALSE
       ELSE Recovers(b, policy) /\ UNCHANGED <<intents, policy>>
  /\ UNCHANGED <<now, standing, method, fence, owner, edits, fences>>

Live == policy # NoPolicy /\ policy.enabled

Rearmed(p) == [p EXCEPT !.armed = TRUE, !.version = IF p.armed THEN @ ELSE @ + 1]

\* rearmPolicyAfterCreditTx
RearmPolicyAfterCredit(b) ==
  IF Live /\ b >= policy.terms.threshold
    THEN policy' = Rearmed(policy) /\ standing' = "active"
    ELSE UNCHANGED <<policy, standing>>

\* PostLedgerEntry, a credit.
Credit(amount) ==
  LET b == balance + amount IN
  /\ posts < MaxPosts /\ CanPost(b) /\ fence = "none"
  /\ posts' = posts + 1 /\ balance' = b
  /\ RearmPolicyAfterCredit(b)
  /\ Recovers(b, policy)
  /\ UNCHANGED <<now, intents, method, fence, owner, edits, fences>>

\* RecordProviderReversal (or ResolveProviderReversal), when the reversal is
\* charged to the current balance.  Every other disposition, a review or an
\* adjustment of the former owner, leaves all of this alone.
RecordProviderReversal(i, amount) ==
  LET b == balance - amount IN
  /\ posts < MaxPosts /\ CanPost(b)
  /\ intents[i].state = "succeeded" /\ intents[i].owner = owner
  /\ amount <= intents[i].amount - intents[i].reversed
  /\ posts' = posts + 1 /\ balance' = b
  /\ intents' = [intents EXCEPT ![i].reversed = @ + amount]
  /\ IF policy # NoPolicy /\ policy.armed
       THEN /\ policy' = [policy EXCEPT !.armed = FALSE, !.version = @ + 1]
            /\ standing' = "attention_required"
       ELSE UNCHANGED <<policy, standing>>
  /\ Recovers(b, policy)
  /\ UNCHANGED <<now, method, fence, owner, edits, fences>>

-----------------------------------------------------------------------------
(* Manual top-ups and the outcome of payments *)

\* CreateManualTopUp (state "created") and CreateHostedTopUp ("processing").
CreateTopUp(amount, state, at) ==
  /\ Len(intents) < MaxIntents /\ Cardinality(Rows \ Automatic) < MaxManual
  /\ fence = "none"
  /\ state = "created" => \E m \in Methods : method[m] = "active"
  /\ at \in now - Delay..now /\ at >= 0
  /\ intents' = Append(intents,
       [reason |-> "manual_top_up", generation |-> 0, amount |-> amount, state |-> state,
        created |-> at, terms |-> NoPolicy, reversed |-> 0, owner |-> owner])
  /\ UNCHANGED <<now, balance, standing, policy, method, fence, owner, posts, edits, fences, recovered>>

\* The intent is the current generation's automatic top-up.
OfCurrentPolicy(i) ==
  /\ intents[i].reason = "auto_top_up"
  /\ policy # NoPolicy /\ policy.generation = intents[i].generation

\* Mutant: a success rearms the policy whatever the balance.
SuccessArmsAlways(b) == b \in Int

SuccessArms(b) == b >= policy.terms.threshold

\* transitionIntentTx to "succeeded": the credit, and what it does to the policy.
Succeed(i) ==
  LET b == balance + intents[i].amount IN
  /\ CanPost(b)
  /\ balance' = b
  /\ IF Live
       THEN /\ policy' = [policy EXCEPT !.armed = SuccessArms(b),
                            !.failures = IF OfCurrentPolicy(i) THEN 0 ELSE @, !.version = @ + 1]
            /\ standing' = IF SuccessArms(b) THEN "active" ELSE "attention_required"
       ELSE UNCHANGED <<policy, standing>>
  /\ Recovers(b, policy)

\* Mutant: the failure at hand is not counted.
LastFailureLate == policy.failures >= 3

LastFailure == policy.failures + 1 >= 3

\* transitionIntentTx to any other state.
Proceed(i, to) ==
  LET failed == to \in {"failed", "canceled"} IN
  /\ policy' = IF OfCurrentPolicy(i) /\ failed
                 THEN [policy EXCEPT !.failures = @ + 1, !.enabled = @ /\ ~LastFailure,
                                     !.armed = FALSE, !.version = @ + 1]
                 ELSE policy
  /\ standing' = IF OfCurrentPolicy(i) /\ (to = "requires_action" \/ (failed /\ LastFailure))
                   THEN "attention_required" ELSE standing
  /\ UNCHANGED <<balance, recovered>>

TransitionIntent(i, to) ==
  /\ to \in Passing \cap Successor(intents[i].state)
  /\ \/ to = "succeeded" /\ Succeed(i)
     \/ to # "succeeded" /\ Proceed(i, to)
  /\ intents' = [intents EXCEPT ![i].state = to]
  /\ UNCHANGED <<now, method, fence, owner, posts, edits, fences>>

-----------------------------------------------------------------------------
(* The owner's settings *)

\* PutAutoTopUpPolicy, at the version the owner last saw.
PutAutoTopUpPolicy(m, t, enabled) ==
  /\ edits < MaxEdits /\ edits' = edits + 1
  /\ fence = "none" /\ method[m] = "active"
  /\ policy' = [enabled |-> enabled, armed |-> TRUE,
                generation |-> IF policy = NoPolicy THEN 1 ELSE policy.generation + 1,
                version |-> IF policy = NoPolicy THEN 1 ELSE policy.version + 1,
                failures |-> 0, lastTriggered |-> Never, method |-> m, terms |-> t,
                owner |-> owner]
  /\ recovered' = TRUE
  /\ UNCHANGED <<now, balance, standing, intents, method, fence, owner, posts, fences>>

\* What disabling does, here and when the policy's method is revoked.
Retired(p) == [p EXCEPT !.enabled = FALSE, !.armed = FALSE, !.generation = @ + 1, !.version = @ + 1]

DisableAutoTopUpPolicy ==
  /\ policy # NoPolicy /\ policy.enabled
  /\ policy' = Retired(policy)
  /\ UNCHANGED <<now, balance, standing, intents, method, fence, owner, posts, edits, fences, recovered>>

\* A method becomes usable: CreatePaymentMethod, CompletePaymentMethodSetup.
CreatePaymentMethod(m) ==
  /\ fence = "none" /\ method[m] = "absent"
  /\ method' = [method EXCEPT ![m] = "active"]
  /\ UNCHANGED <<now, balance, standing, policy, intents, fence, owner, posts, edits, fences, recovered>>

RevokePaymentMethod(m) ==
  /\ method[m] = "active"
  /\ method' = [method EXCEPT ![m] = "revoked"]
  /\ policy' = IF policy # NoPolicy /\ policy.enabled /\ policy.method = m
                 THEN Retired(policy) ELSE policy
  /\ UNCHANGED <<now, balance, standing, intents, fence, owner, posts, edits, fences, recovered>>

-----------------------------------------------------------------------------
(* Ownership handoff and cloud closure, as far as they touch this state *)

AllRevoked == [m \in Methods |-> IF method[m] = "absent" THEN "absent" ELSE "revoked"]

PrepareOwnershipHandoff ==
  /\ fences < MaxFences /\ fences' = fences + 1
  /\ fence = "none" /\ fence' = "handoff"
  /\ UNCHANGED <<now, balance, standing, policy, intents, method, owner, posts, edits, recovered>>

\* AuthorizeHandoffCommit: nothing pending and no debt.
AuthorizeHandoffCommit ==
  /\ fence = "handoff" /\ fence' = "commit"
  /\ balance >= 0 /\ NothingOpen
  /\ UNCHANGED <<now, balance, standing, policy, intents, method, owner, posts, edits, fences, recovered>>

\* Mutant: the handoff forgets the policy.
FinalizeKeepsPolicy ==
  /\ fence = "commit" /\ fence' = "none"
  /\ owner' = owner + 1
  /\ method' = AllRevoked
  /\ policy' = policy
  /\ UNCHANGED <<now, balance, standing, intents, posts, edits, fences, recovered>>

FinalizeOwnershipHandoff ==
  /\ fence = "commit" /\ fence' = "none"
  /\ owner' = owner + 1
  /\ method' = AllRevoked
  /\ policy' = IF policy = NoPolicy THEN NoPolicy ELSE Retired(policy)
  /\ UNCHANGED <<now, balance, standing, intents, posts, edits, fences, recovered>>

PrepareCloudClosure ==
  /\ fences < MaxFences /\ fences' = fences + 1
  /\ fence = "none" /\ fence' = "closure" /\ standing = "active"
  /\ method' = AllRevoked
  /\ policy' = IF policy # NoPolicy /\ (policy.enabled \/ policy.armed)
                 THEN [policy EXCEPT !.enabled = FALSE, !.armed = FALSE, !.version = @ + 1]
                 ELSE policy
  /\ UNCHANGED <<now, balance, standing, intents, owner, posts, edits, recovered>>

\* CompleteOwnershipHandoffAbort, CompleteCloudClosureCancellation
LiftFence ==
  /\ fence # "none" /\ fence' = "none"
  /\ UNCHANGED <<now, balance, standing, policy, intents, method, owner, posts, edits, fences, recovered>>

Tick ==
  /\ now < MaxClock /\ now' = now + 1
  /\ UNCHANGED <<balance, standing, policy, intents, method, fence, owner, posts, edits, fences, recovered>>

Next ==
  \/ \E amount \in Amounts, at \in 0..MaxClock : Debit(amount, at)
  \/ \E amount \in Amounts : Credit(amount)
  \/ \E i \in Rows, amount \in Amounts : RecordProviderReversal(i, amount)
  \/ \E amount \in Amounts, state \in {"created", "processing"}, at \in 0..MaxClock :
       CreateTopUp(amount, state, at)
  \/ \E i \in Rows, to \in IntentState : TransitionIntent(i, to)
  \/ \E m \in Methods, t \in Terms, enabled \in BOOLEAN : PutAutoTopUpPolicy(m, t, enabled)
  \/ DisableAutoTopUpPolicy
  \/ \E m \in Methods : CreatePaymentMethod(m) \/ RevokePaymentMethod(m)
  \/ PrepareOwnershipHandoff \/ AuthorizeHandoffCommit \/ FinalizeOwnershipHandoff
  \/ PrepareCloudClosure \/ LiftFence
  \/ Tick

Spec == Init /\ [][Next]_vars

-----------------------------------------------------------------------------
(* Properties *)

\* The account never has two automatic top-ups in flight, across generations of
\* the policy too: evaluateAutoTopUpTx looks for any open intent.  (The unique
\* index payment_intents_auto_open_unique_idx only covers one generation.)
OneTopUpInFlight == \A i, j \in Automatic : IsOpen(i) /\ IsOpen(j) => i = j

\* Every automatic top-up fits, with the earlier ones of its day, the attempt and
\* the amount limit of the terms it was triggered under, although the clock is
\* read before the account is locked and debits may commit out of clock order.
WithinDailyLimits ==
  \A i \in Automatic :
    LET day == {j \in Automatic : j <= i /\ DayStart(intents[j].created) = DayStart(intents[i].created)}
    IN /\ Cardinality(day) <= intents[i].terms.attempts
       /\ SumAmounts({j \in day : intents[j].state \notin {"failed", "canceled"}})
            <= intents[i].terms.daily

\* Two automatic top-ups of one generation are at least its cooldown apart.
CooldownKept ==
  \A i, j \in Automatic :
    j < i /\ intents[j].generation = intents[i].generation =>
      intents[i].created >= intents[j].created + intents[i].terms.cooldown

\* A policy that is enabled has not seen three conclusive failures of its
\* generation since the last success ("conclusive failure limit 3").
ThreeFailuresDisable ==
  policy # NoPolicy /\ policy.enabled =>
    LET mine == {i \in Automatic : intents[i].generation = policy.generation}
    IN Cardinality({i \in mine : /\ intents[i].state \in {"failed", "canceled"}
                                 /\ \A j \in mine : j > i => intents[j].state # "succeeded"}) < 3

\* The policy in force was put by the current owner: a handoff never leaves the
\* new owner with the charges the former owner agreed to.
NoInheritedPolicy == policy # NoPolicy /\ policy.enabled => policy.owner = owner

\* From the commit authorization of a handoff until it ends nothing is in flight
\* and there is no debt: "no new money can silently change the amount after
\* Account Manager obtains a commit authorization".
CommitIsQuiet == fence = "commit" => balance >= 0 /\ NothingOpen

\* Top-ups answer crossings: between two automatic top-ups the balance was back
\* at the threshold, or the owner saved the policy anew.
OneTopUpPerCrossing == [][Automatic' # Automatic => recovered]_vars

\* A policy that is disabled is enabled or armed again by a new generation only,
\* never by a late payment, a credit or an aborted handoff.
RetirementIsFinal ==
  [][policy # NoPolicy /\ ~policy.enabled /\ policy'.generation = policy.generation =>
       ~policy'.enabled /\ (policy'.armed => policy.armed)]_vars

\* Every change of the policy moves its version, so an owner who saves against
\* the version they saw never overwrites a change they did not see.
EveryChangeMovesVersion ==
  [][policy # NoPolicy /\ policy' # policy => policy'.version > policy.version]_vars
=============================================================================
