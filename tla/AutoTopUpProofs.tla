--------------------------- MODULE AutoTopUpProofs ---------------------------
(***************************************************************************)
(* Proofs about AutoTopUp for any terms, methods, amounts, balance range   *)
(* and clock, and any number of handoffs and closures: types, one top-up   *)
(* at a time, one per crossing of the threshold, the cooldown, no          *)
(* inherited policy, quiet commits, and what no step may do to a policy.   *)
(***************************************************************************)
EXTENDS AutoTopUp, TLAPS

\* The table of intents as a sequence: a row that is added (CreateTopUp and
\* debit insert one), a row that is read, and a row that is replaced.
LEMMA AddedRow ==
  ASSUME NEW S, NEW table \in Seq(S), NEW row \in S
  PROVE  /\ Append(table, row) \in Seq(S) /\ Len(Append(table, row)) = Len(table) + 1
         /\ \A i \in 1..Len(table) : Append(table, row)[i] = table[i]
         /\ Append(table, row)[Len(table) + 1] = row
OBVIOUS

\* A row that is read is a row of the table.
LEMMA ReadRow ==
  ASSUME NEW S, NEW table \in Seq(S), NEW i \in 1..Len(table)
  PROVE  table[i] \in S
OBVIOUS

\* A row that is replaced leaves a table.
LEMMA ReplacedRow ==
  ASSUME NEW S, NEW table \in Seq(S), NEW i \in 1..Len(table), NEW row \in S
  PROVE  [table EXCEPT ![i] = row] \in Seq(S)
OBVIOUS

\* The terms an owner may ask for.
LEMMA TermsAreValid ==
  ASSUME NEW t \in Terms
  PROVE  t \in TermsType
  BY TopUpAssumption DEF ValidatePolicy

\* The fields of a policy, and their successors.
LEMMA PolicyFields ==
  ASSUME NEW p \in Policy
  PROVE  /\ p.version \in Nat \ {0} /\ p.version + 1 \in Nat \ {0}
         /\ p.generation \in Nat \ {0} /\ p.generation + 1 \in Nat \ {0}
         /\ p.failures \in Nat /\ p.failures + 1 \in Nat
         /\ p.method \in Methods /\ p.terms \in Terms /\ p.owner \in Nat
         /\ p.lastTriggered \in Nat \cup {Never}
         /\ p.terms.amount \in Nat \ {0} /\ p.terms.threshold \in Nat
<1>1. p.terms \in Terms
  BY DEF Policy
<1> QED
  BY <1>1, TermsAreValid DEF Policy, TermsType

\* What triggering, rearming, disarming, a success, a failure, disabling and a
\* closure make of a policy is a policy.
LEMMA PolicyChanges ==
  ASSUME NEW p \in Policy, NEW armed \in BOOLEAN, NEW at \in Nat, NEW mine, NEW last \in BOOLEAN
  PROVE  /\ [p EXCEPT !.armed = FALSE, !.lastTriggered = at, !.version = @ + 1] \in Policy
         /\ Rearmed(p) \in Policy
         /\ [p EXCEPT !.armed = FALSE, !.version = @ + 1] \in Policy
         /\ [p EXCEPT !.armed = armed, !.failures = IF mine THEN 0 ELSE @, !.version = @ + 1] \in Policy
         /\ [p EXCEPT !.failures = @ + 1, !.enabled = @ /\ last, !.armed = FALSE, !.version = @ + 1] \in Policy
         /\ Retired(p) \in Policy
         /\ [p EXCEPT !.enabled = FALSE, !.armed = FALSE, !.version = @ + 1] \in Policy
<1>1. [p EXCEPT !.armed = FALSE, !.lastTriggered = at, !.version = @ + 1] \in Policy
  BY PolicyFields, Zenon DEF Policy
<1>2. Rearmed(p) \in Policy
  BY PolicyFields, Zenon DEF Policy, Rearmed
<1>3. [p EXCEPT !.armed = FALSE, !.version = @ + 1] \in Policy
  BY PolicyFields, Zenon DEF Policy
<1>4. [p EXCEPT !.armed = armed, !.failures = IF mine THEN 0 ELSE @, !.version = @ + 1] \in Policy
  BY PolicyFields, 0 \in Nat, Zenon DEF Policy
<1>5. [p EXCEPT !.failures = @ + 1, !.enabled = @ /\ last, !.armed = FALSE, !.version = @ + 1] \in Policy
  BY PolicyFields, Zenon DEF Policy
<1>6. Retired(p) \in Policy
  BY PolicyFields, Zenon DEF Policy, Retired
<1>7. [p EXCEPT !.enabled = FALSE, !.armed = FALSE, !.version = @ + 1] \in Policy
  BY PolicyFields, Zenon DEF Policy
<1> QED
  BY <1>1, <1>2, <1>3, <1>4, <1>5, <1>6, <1>7

\* A posting stays within its bounds.
LEMMA PostingTypes ==
  ASSUME TypeOK, NEW b, CanPost(b), posts < MaxPosts
  PROVE  b \in MinBalance..MaxBalance /\ posts + 1 \in 0..MaxPosts
<1>1. posts \in 0..MaxPosts /\ MaxPosts \in Nat
  BY TopUpAssumption DEF TypeOK
<1> QED
  BY <1>1 DEF CanPost

\* A debit, with or without the top-up it triggers.
LEMMA DebitTypes ==
  ASSUME TypeOK, NEW amount \in Amounts, NEW at \in 0..MaxClock, Debit(amount, at)
  PROVE  TypeOK'
<1>1. /\ CanPost(balance - amount) /\ balance' = balance - amount
      /\ posts < MaxPosts /\ posts' = posts + 1
      /\ UNCHANGED <<now, standing, method, fence, owner, edits, fences>>
  BY DEF Debit
<1>2. at \in Nat /\ posts' \in 0..MaxPosts /\ balance' \in MinBalance..MaxBalance
  BY <1>1, PostingTypes, TopUpAssumption
<1>3. CASE UNCHANGED <<intents, policy>> /\ Recovers(balance - amount, policy)
  BY <1>1, <1>2, <1>3 DEF TypeOK, Recovers
<1>4. CASE ~(UNCHANGED <<intents, policy>> /\ Recovers(balance - amount, policy))
  <2>1. policy \in Policy
    BY <1>4 DEF Debit, TypeOK
  <2> DEFINE r == [reason |-> "auto_top_up", generation |-> policy.generation,
                  amount |-> policy.terms.amount, state |-> "created", created |-> at,
                  terms |-> policy.terms, reversed |-> 0, owner |-> owner]
  <2>2. /\ intents' = Append(intents, r)
        /\ policy' = [policy EXCEPT !.armed = FALSE, !.lastTriggered = at, !.version = @ + 1]
        /\ recovered' = FALSE
    BY <1>4 DEF Debit
  <2>3. r \in Intent
    BY <1>2, <2>1, PolicyFields DEF Intent, TypeOK, IntentState
  <2>4. policy' \in Policy
    BY <1>2, <2>1, <2>2, PolicyChanges, Zenon
  <2> HIDE DEF r
  <2>5. intents' \in Seq(Intent)
    <3>1. intents \in Seq(Intent)
      BY DEF TypeOK
    <3> QED
      BY <2>2, <2>3, <3>1, AddedRow
  <2> QED
    BY Zenon, <1>1, <1>2, <2>2, <2>4, <2>5 DEF TypeOK
<1> QED
  BY <1>3, <1>4

\* A credit, and what it does to a live policy.
LEMMA CreditTypes ==
  ASSUME TypeOK, NEW amount \in Amounts, Credit(amount)
  PROVE  TypeOK'
<1>1. /\ CanPost(balance + amount) /\ balance' = balance + amount
      /\ posts < MaxPosts /\ posts' = posts + 1
      /\ UNCHANGED <<now, intents, method, fence, owner, edits, fences>>
      /\ recovered' \in BOOLEAN
  BY DEF Credit, Recovers, TypeOK
<1>2. posts' \in 0..MaxPosts /\ balance' \in MinBalance..MaxBalance
  BY <1>1, PostingTypes
<1>3. policy' \in Policy \cup {NoPolicy} /\ standing' \in {"active", "attention_required"}
  <2>1. CASE Live /\ balance + amount >= policy.terms.threshold
    <3>1. policy \in Policy /\ policy' = Rearmed(policy) /\ standing' = "active"
      BY <2>1 DEF Credit, RearmPolicyAfterCredit, Live, TypeOK
    <3> QED
      BY Zenon, <3>1, PolicyChanges
  <2>2. CASE ~(Live /\ balance + amount >= policy.terms.threshold)
    BY <2>2 DEF Credit, RearmPolicyAfterCredit, TypeOK
  <2> QED
    BY <2>1, <2>2
<1> QED
  BY <1>1, <1>2, <1>3 DEF TypeOK

\* A field of one intent changes: the rows stay rows.
LEMMA RowChanges ==
  ASSUME TypeOK, NEW i \in Rows
  PROVE  /\ intents[i] \in Intent
         /\ \A amount \in Amounts : [intents EXCEPT ![i].reversed = @ + amount] \in Seq(Intent)
         /\ \A to \in IntentState : [intents EXCEPT ![i].state = to] \in Seq(Intent)
<1>1. intents \in Seq(Intent) /\ i \in 1..Len(intents)
  BY DEF TypeOK, Rows
<1>2. intents[i] \in Intent
  BY <1>1, ReadRow
<1>3. ASSUME NEW amount \in Amounts
      PROVE  [intents EXCEPT ![i].reversed = @ + amount] \in Seq(Intent)
  <2>1. [intents[i] EXCEPT !.reversed = @ + amount] \in Intent
    BY <1>2, TopUpAssumption DEF Intent
  <2>2. [intents EXCEPT ![i] = [intents[i] EXCEPT !.reversed = @ + amount]] \in Seq(Intent)
    BY <1>1, <2>1, ReplacedRow
  <2> QED
    BY <2>2
<1>4. ASSUME NEW to \in IntentState
      PROVE  [intents EXCEPT ![i].state = to] \in Seq(Intent)
  <2>1. [intents[i] EXCEPT !.state = to] \in Intent
    BY <1>2 DEF Intent
  <2>2. [intents EXCEPT ![i] = [intents[i] EXCEPT !.state = to]] \in Seq(Intent)
    BY <1>1, <2>1, ReplacedRow
  <2> QED
    BY <2>2
<1> QED
  BY <1>2, <1>3, <1>4

\* A reversal charged to the balance.
LEMMA ReversalTypes ==
  ASSUME TypeOK, NEW i \in Rows, NEW amount \in Amounts, RecordProviderReversal(i, amount)
  PROVE  TypeOK'
<1>1. /\ CanPost(balance - amount) /\ balance' = balance - amount
      /\ posts < MaxPosts /\ posts' = posts + 1
      /\ intents' = [intents EXCEPT ![i].reversed = @ + amount]
      /\ UNCHANGED <<now, method, fence, owner, edits, fences>>
      /\ recovered' \in BOOLEAN
  BY DEF RecordProviderReversal, Recovers, TypeOK
<1>2. posts' \in 0..MaxPosts /\ balance' \in MinBalance..MaxBalance
  BY <1>1, PostingTypes
<1>3. policy' \in Policy \cup {NoPolicy} /\ standing' \in {"active", "attention_required"}
  <2>1. CASE policy # NoPolicy /\ policy.armed
    <3>1. /\ policy \in Policy /\ standing' = "attention_required"
          /\ policy' = [policy EXCEPT !.armed = FALSE, !.version = @ + 1]
      BY <2>1 DEF RecordProviderReversal, TypeOK
    <3>2. policy' \in Policy
      BY <3>1, PolicyChanges, 0 \in Nat, Zenon
    <3> QED
      BY <3>1, <3>2
  <2>2. CASE ~(policy # NoPolicy /\ policy.armed)
    BY <2>2 DEF RecordProviderReversal, TypeOK
  <2> QED
    BY <2>1, <2>2
<1>4. intents' \in Seq(Intent)
  BY <1>1, RowChanges
<1> QED
  BY <1>1, <1>2, <1>3, <1>4 DEF TypeOK

\* A manual or hosted top-up.
LEMMA CreateTopUpTypes ==
  ASSUME TypeOK, NEW amount \in Amounts, NEW state \in {"created", "processing"}, NEW at \in 0..MaxClock,
         CreateTopUp(amount, state, at)
  PROVE  TypeOK'
<1> DEFINE r == [reason |-> "manual_top_up", generation |-> 0, amount |-> amount, state |-> state,
                 created |-> at, terms |-> NoPolicy, reversed |-> 0, owner |-> owner]
<1>1. r \in Intent
  BY TopUpAssumption DEF Intent, IntentState, TypeOK
<1>2. intents' = Append(intents, r)
  BY DEF CreateTopUp
<1> HIDE DEF r
<1>3. intents' \in Seq(Intent)
  <2>1. intents \in Seq(Intent)
    BY DEF TypeOK
  <2> QED
    BY <1>1, <1>2, <2>1, AddedRow
<1> QED
  BY <1>3 DEF CreateTopUp, TypeOK

\* A payment takes another state: the credit of a success, the count of a failure.
LEMMA TransitionTypes ==
  ASSUME TypeOK, NEW i \in Rows, NEW to \in IntentState, TransitionIntent(i, to)
  PROVE  TypeOK'
<1>1. /\ intents' = [intents EXCEPT ![i].state = to]
      /\ UNCHANGED <<now, method, fence, owner, posts, edits, fences>>
  BY DEF TransitionIntent
<1>2. intents' \in Seq(Intent)
  BY <1>1, RowChanges
<1>3. CASE Succeed(i)
  <2> DEFINE b == balance + intents[i].amount
  <2>1. b \in MinBalance..MaxBalance /\ balance' = b /\ recovered' \in BOOLEAN
    BY <1>3 DEF Succeed, CanPost, Recovers, TypeOK
  <2>2. CASE Live
    <3>1. policy \in Policy
      BY <2>2 DEF Live, TypeOK
    <3>2. /\ policy' = [policy EXCEPT !.armed = SuccessArms(b),
                          !.failures = IF OfCurrentPolicy(i) THEN 0 ELSE @, !.version = @ + 1]
          /\ standing' \in {"active", "attention_required"}
      BY <1>3, <2>2 DEF Succeed
    <3>3. SuccessArms(b) \in BOOLEAN
      BY DEF SuccessArms
    <3> HIDE DEF b
    <3>4. policy' \in Policy
      BY <3>1, <3>2, <3>3, PolicyChanges, 0 \in Nat, Zenon
    <3> QED
      BY <1>1, <1>2, <2>1, <3>2, <3>4 DEF TypeOK
  <2>3. CASE ~Live
    <3>1. UNCHANGED <<policy, standing>>
      BY <1>3, <2>3 DEF Succeed
    <3> QED
      BY <1>1, <1>2, <2>1, <3>1 DEF TypeOK
  <2> QED
    BY <2>2, <2>3
<1>4. CASE Proceed(i, to)
  <2>1. UNCHANGED <<balance, recovered>> /\ standing' \in {"active", "attention_required"}
    BY <1>4 DEF Proceed, TypeOK
  <2>2. CASE OfCurrentPolicy(i) /\ to \in {"failed", "canceled"}
    <3>1. policy \in Policy
      BY <2>2 DEF OfCurrentPolicy, TypeOK
    <3>2. policy' = [policy EXCEPT !.failures = @ + 1, !.enabled = @ /\ ~LastFailure,
                                   !.armed = FALSE, !.version = @ + 1]
      BY <1>4, <2>2 DEF Proceed
    <3>3. (~LastFailure) \in BOOLEAN
      BY DEF LastFailure
    <3>4. policy' \in Policy
      BY <3>1, <3>2, <3>3, PolicyChanges, 0 \in Nat, Zenon
    <3> QED
      BY <1>1, <1>2, <2>1, <3>4 DEF TypeOK
  <2>3. CASE ~(OfCurrentPolicy(i) /\ to \in {"failed", "canceled"})
    <3>1. policy' = policy
      BY <1>4, <2>3 DEF Proceed
    <3> QED
      BY <1>1, <1>2, <2>1, <3>1 DEF TypeOK
  <2> QED
    BY <2>2, <2>3
<1> QED
  BY <1>3, <1>4 DEF TransitionIntent

\* The owner's settings, and the fence of a handoff or a closure.
LEMMA SettingTypes ==
  ASSUME TypeOK,
         \/ \E m \in Methods, t \in Terms, enabled \in BOOLEAN : PutAutoTopUpPolicy(m, t, enabled)
         \/ DisableAutoTopUpPolicy
         \/ \E m \in Methods : CreatePaymentMethod(m) \/ RevokePaymentMethod(m)
         \/ PrepareOwnershipHandoff \/ AuthorizeHandoffCommit \/ FinalizeOwnershipHandoff
         \/ PrepareCloudClosure \/ LiftFence \/ Tick
  PROVE  TypeOK'
<1>1. ASSUME NEW m \in Methods, NEW t \in Terms, NEW enabled \in BOOLEAN, PutAutoTopUpPolicy(m, t, enabled)
      PROVE  TypeOK'
  <2>1. policy = NoPolicy \/ (policy.generation + 1 \in Nat \ {0} /\ policy.version + 1 \in Nat \ {0})
    BY PolicyFields DEF TypeOK
  <2>2. 1 \in Nat \ {0} /\ 0 \in Nat /\ owner \in Nat
    BY DEF TypeOK
  <2>3. policy' \in Policy
    BY <1>1, <2>1, <2>2, Zenon DEF PutAutoTopUpPolicy, Policy
  <2>4. edits' \in 0..MaxEdits
    BY <1>1, TopUpAssumption DEF PutAutoTopUpPolicy, TypeOK
  <2> QED
    BY <1>1, <2>3, <2>4 DEF PutAutoTopUpPolicy, TypeOK
<1>2. policy # NoPolicy => policy \in Policy /\ Retired(policy) \in Policy
  BY Zenon, PolicyChanges DEF TypeOK
<1>3. CASE DisableAutoTopUpPolicy
  BY <1>2, <1>3 DEF DisableAutoTopUpPolicy, TypeOK
<1>4. ASSUME NEW m \in Methods, CreatePaymentMethod(m) \/ RevokePaymentMethod(m)
      PROVE  TypeOK'
  <2>1. policy' \in Policy \cup {NoPolicy}
    BY <1>2, <1>4 DEF CreatePaymentMethod, RevokePaymentMethod, TypeOK
  <2>2. method' \in [Methods -> {"absent", "active", "revoked"}]
    BY <1>4 DEF CreatePaymentMethod, RevokePaymentMethod, TypeOK
  <2> QED
    BY <1>4, <2>1, <2>2 DEF CreatePaymentMethod, RevokePaymentMethod, TypeOK
<1>5. AllRevoked \in [Methods -> {"absent", "active", "revoked"}]
  BY DEF AllRevoked
<1>6. fences < MaxFences => fences + 1 \in 0..MaxFences
  BY TopUpAssumption DEF TypeOK
<1>7. CASE PrepareOwnershipHandoff \/ AuthorizeHandoffCommit \/ LiftFence
  BY <1>6, <1>7 DEF PrepareOwnershipHandoff, AuthorizeHandoffCommit, LiftFence, TypeOK, Fences
<1>8. CASE FinalizeOwnershipHandoff
  BY <1>2, <1>5, <1>8 DEF FinalizeOwnershipHandoff, TypeOK, Fences
<1>9. CASE PrepareCloudClosure
  <2>1. policy' \in Policy \cup {NoPolicy}
    <3>1. CASE policy' = policy
      BY <3>1 DEF TypeOK
    <3>2. CASE policy' # policy
      <4>1. policy \in Policy /\ policy' = [policy EXCEPT !.enabled = FALSE, !.armed = FALSE, !.version = @ + 1]
        BY <1>9, <3>2 DEF PrepareCloudClosure, TypeOK
      <4> QED
        BY <4>1, PolicyChanges, 0 \in Nat, Zenon
    <3> QED
      BY <3>1, <3>2
  <2> QED
    BY <1>5, <1>6, <1>9, <2>1 DEF PrepareCloudClosure, TypeOK, Fences
<1>10. CASE Tick
  BY <1>10, TopUpAssumption DEF Tick, TypeOK
<1> QED
  BY <1>1, <1>3, <1>4, <1>7, <1>8, <1>9, <1>10

\* In every reachable state every variable has its type: the balance is in its
\* range, whatever posts, settles or is charged back.
THEOREM TypeCorrect == Spec => []TypeOK
<1>1. Init => TypeOK
  BY TopUpAssumption DEF Init, TypeOK, Fences
<1>2. TypeOK /\ [Next]_vars => TypeOK'
  <2>1. TypeOK /\ UNCHANGED vars => TypeOK'
    BY DEF vars, TypeOK
  <2> QED
    BY <2>1, DebitTypes, CreditTypes, ReversalTypes, CreateTopUpTypes, TransitionTypes, SettingTypes DEF Next
<1> QED
  BY <1>1, <1>2, PTL DEF Spec

-----------------------------------------------------------------------------
(* What no interleaving may do *)

\* A conclusive state has no successor.
LEMMA ConclusiveIsFinal ==
  ASSUME NEW s \in {"succeeded", "failed", "canceled"}
  PROVE  Successor(s) = {}
<1>1. Successor("succeeded") = {}
  BY Zenon DEF Successor
<1>2. Successor("failed") = {}
  BY Zenon DEF Successor
<1>3. Successor("canceled") = {}
  BY Zenon DEF Successor
<1> QED
  BY <1>1, <1>2, <1>3

-----------------------------------------------------------------------------
(* The rows after a step *)

\* A new row is the last one.
LEMMA AppendedRow ==
  ASSUME TypeOK, NEW r, intents' = Append(intents, r)
  PROVE  /\ Rows' = Rows \cup {Len(intents) + 1} /\ Len(intents) + 1 \notin Rows
         /\ \A i \in Rows : intents'[i] = intents[i]
         /\ intents'[Len(intents) + 1] = r
<1>1. intents \in Seq(Intent) /\ Len(intents) \in Nat
  BY DEF TypeOK
<1>2. Len(intents') = Len(intents) + 1
  BY <1>1
<1> QED
  BY <1>1, <1>2 DEF Rows

\* A payment that moves on was open, and the other rows stay.
LEMMA MovedRow ==
  ASSUME TypeOK, NEW i \in Rows, NEW to \in IntentState, TransitionIntent(i, to)
  PROVE  /\ IsOpen(i) /\ Rows' = Rows
         /\ \A j \in Rows \ {i} : intents'[j] = intents[j]
         /\ \A j \in Rows : intents'[j].reason = intents[j].reason
<1>1. intents \in Seq(Intent) /\ i \in 1..Len(intents)
  BY DEF TypeOK, Rows
<1>2. intents' = [intents EXCEPT ![i].state = to] /\ to \in Successor(intents[i].state)
  BY DEF TransitionIntent
<1>3. IsOpen(i)
  BY <1>2, ConclusiveIsFinal DEF IsOpen, IntentStateTerminal
<1>4. intents[i] \in Intent
  BY <1>1, ReadRow
<1>5. Len(intents') = Len(intents) /\ \A j \in 1..Len(intents) : j # i => intents'[j] = intents[j]
  BY <1>1, <1>2
<1>6. intents'[i].reason = intents[i].reason
  BY <1>1, <1>2, <1>4 DEF Intent
<1> QED
  BY <1>3, <1>5, <1>6 DEF Rows

\* A reversal leaves the rows, their reasons and their states.
LEMMA ReversedRow ==
  ASSUME TypeOK, NEW i \in Rows, NEW amount \in Amounts, RecordProviderReversal(i, amount)
  PROVE  /\ Rows' = Rows
         /\ \A j \in Rows : intents'[j].reason = intents[j].reason /\ intents'[j].state = intents[j].state
<1>1. intents \in Seq(Intent) /\ i \in 1..Len(intents)
  BY DEF TypeOK, Rows
<1>2. intents' = [intents EXCEPT ![i].reversed = @ + amount]
  BY DEF RecordProviderReversal
<1>3. Len(intents') = Len(intents) /\ \A j \in 1..Len(intents) : j # i => intents'[j] = intents[j]
  BY <1>1, <1>2
<1>4. intents[i] \in Intent
  BY <1>1, ReadRow
<1>5. intents'[i].reason = intents[i].reason /\ intents'[i].state = intents[i].state
  BY <1>1, <1>2, <1>4 DEF Intent
<1> QED
  BY <1>3, <1>5 DEF Rows

\* The actions that leave the payments alone.
Settings ==
  \/ \E amount \in Amounts : Credit(amount)
  \/ \E m \in Methods, t \in Terms, enabled \in BOOLEAN : PutAutoTopUpPolicy(m, t, enabled)
  \/ DisableAutoTopUpPolicy
  \/ \E m \in Methods : CreatePaymentMethod(m) \/ RevokePaymentMethod(m)
  \/ PrepareOwnershipHandoff \/ AuthorizeHandoffCommit \/ FinalizeOwnershipHandoff
  \/ PrepareCloudClosure \/ LiftFence \/ Tick \/ UNCHANGED vars

\* They do.
LEMMA SettingsKeepRows ==
  ASSUME Settings
  PROVE  intents' = intents
  BY DEF Settings, Credit, PutAutoTopUpPolicy, DisableAutoTopUpPolicy, CreatePaymentMethod,
       RevokePaymentMethod, PrepareOwnershipHandoff, AuthorizeHandoffCommit, FinalizeOwnershipHandoff,
       PrepareCloudClosure, LiftFence, Tick, vars

\* A debit triggers a top-up when nothing is open, or leaves the payments alone.
LEMMA DebitTriggersWhenQuiet ==
  ASSUME NEW amount \in Amounts, NEW at \in 0..MaxClock, Debit(amount, at)
  PROVE  \/ UNCHANGED <<intents, policy>>
         \/ /\ NothingOpen /\ fence = "none" /\ \E r : intents' = Append(intents, r)
            /\ policy # NoPolicy
            /\ policy' = [policy EXCEPT !.armed = FALSE, !.lastTriggered = at, !.version = @ + 1]
  BY DEF Debit, EvaluateAutoTopUp

-----------------------------------------------------------------------------
(* One automatic top-up at a time *)


\* Every step leaves one automatic top-up open at most.
LEMMA OneTopUpStep ==
  ASSUME TypeOK, OneTopUpInFlight, [Next]_vars
  PROVE  OneTopUpInFlight'
<1>1. CASE intents' = intents
  BY <1>1 DEF OneTopUpInFlight, Automatic, Rows, IsOpen
<1>2. ASSUME NEW amount \in Amounts, NEW at \in 0..MaxClock, Debit(amount, at), intents' # intents
      PROVE  OneTopUpInFlight'
  <2>1. NothingOpen
    BY Zenon, <1>2, DebitTriggersWhenQuiet
  <2>2. PICK r : intents' = Append(intents, r)
    BY Zenon, <1>2, DebitTriggersWhenQuiet
  <2> QED
    BY Zenon, <2>1, <2>2, AppendedRow DEF OneTopUpInFlight, Automatic, IsOpen, NothingOpen
<1>3. ASSUME NEW amount \in Amounts, NEW state \in {"created", "processing"}, NEW at \in 0..MaxClock,
             CreateTopUp(amount, state, at)
      PROVE  OneTopUpInFlight'
  <2>1. PICK r : intents' = Append(intents, r) /\ r.reason = "manual_top_up"
    BY <1>3 DEF CreateTopUp
  <2>2. /\ Rows' = Rows \cup {Len(intents) + 1} /\ \A i \in Rows : intents'[i] = intents[i]
        /\ intents'[Len(intents) + 1].reason = "manual_top_up"
    BY Zenon, <2>1, AppendedRow
  <2>3. Automatic' = Automatic /\ \A i \in Automatic : intents'[i] = intents[i]
    BY <2>2 DEF Automatic
  <2> QED
    BY <2>3 DEF OneTopUpInFlight, IsOpen
<1>4. ASSUME NEW i \in Rows, NEW to \in IntentState, TransitionIntent(i, to)
      PROVE  OneTopUpInFlight'
  <2>1. /\ IsOpen(i) /\ Rows' = Rows
        /\ \A j \in Rows \ {i} : intents'[j] = intents[j]
        /\ \A j \in Rows : intents'[j].reason = intents[j].reason
    BY <1>4, MovedRow
  <2>2. Automatic' = Automatic
    BY <2>1, Zenon DEF Automatic
  <2>3. ASSUME NEW j \in Automatic, ~IntentStateTerminal(intents'[j].state)
        PROVE  IsOpen(j)
    BY <2>1, <2>3 DEF IsOpen, Automatic
  <2> QED
    BY <2>2, <2>3 DEF OneTopUpInFlight, IsOpen
<1>5. ASSUME NEW i \in Rows, NEW amount \in Amounts, RecordProviderReversal(i, amount)
      PROVE  OneTopUpInFlight'
  BY <1>5, ReversedRow DEF OneTopUpInFlight, Automatic, IsOpen
<1>6. CASE Settings
  BY <1>1, <1>6, SettingsKeepRows
<1> QED
  BY <1>1, <1>2, <1>3, <1>4, <1>5, <1>6 DEF Next, Settings

\* The account never has two automatic top-ups in flight.
THEOREM OneTopUpAtATime == Spec => []OneTopUpInFlight
<1>1. Init => OneTopUpInFlight
  BY DEF Init, OneTopUpInFlight, Automatic, Rows
<1>2. TypeOK /\ OneTopUpInFlight /\ [Next]_vars => OneTopUpInFlight'
  BY OneTopUpStep
<1> QED
  BY <1>1, <1>2, TypeCorrect, PTL DEF Spec

-----------------------------------------------------------------------------
(* What a step may do to a policy *)

\* A change within a generation: the version moves, nothing is enabled, and only
\* an enabled policy is armed.
SameGeneration ==
  /\ policy'.version = policy.version + 1 /\ policy'.generation = policy.generation
  /\ policy'.owner = policy.owner
  /\ policy'.enabled => policy.enabled
  /\ policy.enabled \/ ~policy'.armed

\* A change of generation: saved by the owner of the day, or disabled.
NewGeneration ==
  /\ policy'.version = policy.version + 1 /\ policy'.generation = policy.generation + 1
  /\ ~policy'.enabled \/ policy'.owner = owner

\* The changes the actions make, as changes of fields.
LEMMA ChangedFields ==
  ASSUME NEW p \in Policy, NEW armed, NEW at, NEW mine, NEW last
  PROVE  /\ policy = p /\ p.enabled /\ policy' = [p EXCEPT !.armed = FALSE, !.lastTriggered = at, !.version = @ + 1]
              => SameGeneration
         /\ policy = p /\ p.enabled /\ policy' = Rearmed(p) => policy' = policy \/ SameGeneration
         /\ policy = p /\ policy' = [p EXCEPT !.armed = FALSE, !.version = @ + 1] => SameGeneration
         /\ policy = p /\ p.enabled
              /\ policy' = [p EXCEPT !.armed = armed, !.failures = IF mine THEN 0 ELSE @, !.version = @ + 1]
              => SameGeneration
         /\ policy = p
              /\ policy' = [p EXCEPT !.failures = @ + 1, !.enabled = @ /\ last, !.armed = FALSE, !.version = @ + 1]
              => SameGeneration
         /\ policy = p /\ policy' = Retired(p) => NewGeneration
         /\ policy = p /\ policy' = [p EXCEPT !.enabled = FALSE, !.armed = FALSE, !.version = @ + 1]
              => SameGeneration
<1>1. policy = p /\ p.enabled /\ policy' = [p EXCEPT !.armed = FALSE, !.lastTriggered = at, !.version = @ + 1]
        => SameGeneration
  BY Zenon DEF Policy, SameGeneration
<1>2. policy = p /\ p.enabled /\ policy' = Rearmed(p) => policy' = policy \/ SameGeneration
  <2>1. p.armed => [p EXCEPT !.armed = TRUE, !.version = p.version] = p
    BY Zenon DEF Policy
  <2> QED
    BY <2>1, Zenon DEF Policy, SameGeneration, Rearmed
<1>3. policy = p /\ policy' = [p EXCEPT !.armed = FALSE, !.version = @ + 1] => SameGeneration
  BY Zenon DEF Policy, SameGeneration
<1>4. policy = p /\ p.enabled
        /\ policy' = [p EXCEPT !.armed = armed, !.failures = IF mine THEN 0 ELSE @, !.version = @ + 1]
        => SameGeneration
  BY Zenon DEF Policy, SameGeneration
<1>5. policy = p
        /\ policy' = [p EXCEPT !.failures = @ + 1, !.enabled = @ /\ last, !.armed = FALSE, !.version = @ + 1]
        => SameGeneration
  <2> DEFINE q == [p EXCEPT !.failures = @ + 1, !.enabled = @ /\ last, !.armed = FALSE, !.version = @ + 1]
  <2>1. q.version = p.version + 1
    BY Zenon DEF Policy
  <2>2. q.generation = p.generation /\ q.owner = p.owner
    BY Zenon DEF Policy
  <2>3. q.enabled = (p.enabled /\ last)
    BY Zenon DEF Policy
  <2>4. q.armed = FALSE
    BY Zenon DEF Policy
  <2> HIDE DEF q
  <2>5. policy = p /\ policy' = q => SameGeneration
    BY <2>1, <2>2, <2>3, <2>4, Zenon DEF SameGeneration
  <2> QED
    BY <2>5, Zenon DEF q
<1>6. policy = p /\ policy' = Retired(p) => NewGeneration
  BY Zenon DEF Policy, NewGeneration, Retired
<1>7. policy = p /\ policy' = [p EXCEPT !.enabled = FALSE, !.armed = FALSE, !.version = @ + 1]
        => SameGeneration
  BY Zenon DEF Policy, SameGeneration
<1> QED
  BY <1>1, <1>2, <1>3, <1>4, <1>5, <1>6, <1>7

\* Every step changes the policy in one of these two ways, or not at all.
LEMMA PolicyStep ==
  ASSUME TypeOK, [Next]_vars, policy # NoPolicy
  PROVE  policy' = policy \/ SameGeneration \/ NewGeneration
<1>1. policy \in Policy
  BY DEF TypeOK
<1>2. ASSUME NEW amount \in Amounts, NEW at \in 0..MaxClock, Debit(amount, at)
      PROVE  policy' = policy \/ SameGeneration
  <2>1. \/ policy' = policy
        \/ /\ policy.enabled
           /\ policy' = [policy EXCEPT !.armed = FALSE, !.lastTriggered = at, !.version = @ + 1]
    BY <1>2 DEF Debit, EvaluateAutoTopUp
  <2> QED
    BY Zenon, <1>1, <2>1, ChangedFields
<1>3. ASSUME NEW amount \in Amounts, Credit(amount)
      PROVE  policy' = policy \/ SameGeneration
  <2>1. policy' = policy \/ (policy.enabled /\ policy' = Rearmed(policy))
    BY <1>3 DEF Credit, RearmPolicyAfterCredit, Live
  <2> QED
    BY Zenon, <1>1, <2>1, ChangedFields
<1>4. ASSUME NEW i \in Rows, NEW amount \in Amounts, RecordProviderReversal(i, amount)
      PROVE  policy' = policy \/ SameGeneration
  <2>1. policy' = policy \/ policy' = [policy EXCEPT !.armed = FALSE, !.version = @ + 1]
    BY <1>4 DEF RecordProviderReversal
  <2> QED
    BY Zenon, <1>1, <2>1, ChangedFields
<1>5. ASSUME NEW i \in Rows, NEW to \in IntentState, TransitionIntent(i, to)
      PROVE  policy' = policy \/ SameGeneration
  <2>1. CASE Succeed(i)
    <3>1. \/ policy' = policy
          \/ /\ policy.enabled
             /\ policy' = [policy EXCEPT !.armed = SuccessArms(balance + intents[i].amount),
                             !.failures = IF OfCurrentPolicy(i) THEN 0 ELSE @, !.version = @ + 1]
      BY <2>1, Zenon DEF Succeed, Live
    <3> QED
      BY <1>1, <3>1, ChangedFields, Zenon
  <2>2. CASE Proceed(i, to)
    <3>1. \/ policy' = policy
          \/ policy' = [policy EXCEPT !.failures = @ + 1, !.enabled = @ /\ ~LastFailure,
                                      !.armed = FALSE, !.version = @ + 1]
      BY <2>2, Zenon DEF Proceed
    <3> QED
      BY <1>1, <3>1, ChangedFields, Zenon
  <2> QED
    BY <1>5, <2>1, <2>2 DEF TransitionIntent
<1>6. ASSUME NEW m \in Methods, NEW t \in Terms, NEW enabled \in BOOLEAN, PutAutoTopUpPolicy(m, t, enabled)
      PROVE  NewGeneration
  BY <1>6, Zenon DEF PutAutoTopUpPolicy, NewGeneration
<1>7. CASE policy' = Retired(policy)
  BY Zenon, <1>1, <1>7, ChangedFields
<1>8. CASE policy' = [policy EXCEPT !.enabled = FALSE, !.armed = FALSE, !.version = @ + 1]
  BY Zenon, <1>1, <1>8, ChangedFields
<1>9. CASE PrepareCloudClosure
  BY <1>8, <1>9, Zenon DEF PrepareCloudClosure
<1>10. CASE DisableAutoTopUpPolicy \/ FinalizeOwnershipHandoff \/ \E m \in Methods : RevokePaymentMethod(m)
  BY <1>7, <1>10, Zenon DEF DisableAutoTopUpPolicy, FinalizeOwnershipHandoff, RevokePaymentMethod
<1>11. CASE \/ \E amount \in Amounts, state \in {"created", "processing"}, at \in 0..MaxClock :
                 CreateTopUp(amount, state, at)
            \/ \E m \in Methods : CreatePaymentMethod(m)
            \/ PrepareOwnershipHandoff \/ AuthorizeHandoffCommit \/ LiftFence \/ Tick \/ UNCHANGED vars
  BY Zenon, <1>11 DEF CreateTopUp, CreatePaymentMethod, PrepareOwnershipHandoff, AuthorizeHandoffCommit,
       LiftFence, Tick, vars
<1> QED
  BY <1>2, <1>3, <1>4, <1>5, <1>6, <1>9, <1>10, <1>11 DEF Next

\* EveryChangeMovesVersion for every instance: a debit, a credit, an outcome, a
\* reversal, a handoff or a closure that changes the row moves version.
THEOREM ChangesMoveVersion == Spec => EveryChangeMovesVersion
<1>1. ASSUME TypeOK, [Next]_vars
      PROVE  [policy # NoPolicy /\ policy' # policy => policy'.version > policy.version]_vars
  <2>1. policy # NoPolicy => policy.version \in Nat
    BY <1>1, PolicyFields DEF TypeOK
  <2> QED
    BY <1>1, <2>1, PolicyStep DEF SameGeneration, NewGeneration
<1> QED
  BY <1>1, TypeCorrect, PTL DEF Spec, EveryChangeMovesVersion

\* RetirementIsFinal for every instance: within its generation a disabled policy
\* is neither enabled nor armed again.
THEOREM RetiredStaysRetired == Spec => RetirementIsFinal
<1>1. ASSUME TypeOK, [Next]_vars
      PROVE  [policy # NoPolicy /\ ~policy.enabled /\ policy'.generation = policy.generation =>
                ~policy'.enabled /\ (policy'.armed => policy.armed)]_vars
  <2>1. policy # NoPolicy => policy.generation \in Nat
    BY <1>1, PolicyFields DEF TypeOK
  <2>2. policy # NoPolicy => policy.generation + 1 # policy.generation
    BY <2>1
  <2> QED
    BY <1>1, <2>2, PolicyStep, Zenon DEF SameGeneration, NewGeneration
<1> QED
  BY <1>1, TypeCorrect, PTL DEF Spec, RetirementIsFinal

-----------------------------------------------------------------------------
(* Whose policy it is *)

\* Only the finalization of a handoff changes the owner.
LEMMA OwnerStep ==
  ASSUME [Next]_vars
  PROVE  owner' = owner \/ FinalizeOwnershipHandoff
  BY Zenon DEF Next, vars, Debit, Credit, RecordProviderReversal, CreateTopUp, TransitionIntent,
       PutAutoTopUpPolicy, DisableAutoTopUpPolicy, CreatePaymentMethod, RevokePaymentMethod,
       PrepareOwnershipHandoff, AuthorizeHandoffCommit, PrepareCloudClosure, LiftFence, Tick

\* The first policy of an account is put by its owner.
LEMMA FirstPolicy ==
  ASSUME [Next]_vars, policy = NoPolicy, policy' # NoPolicy
  PROVE  policy'.owner = owner /\ owner' = owner /\ policy'.failures = 0
<1>1. \E m \in Methods, t \in Terms, enabled \in BOOLEAN : PutAutoTopUpPolicy(m, t, enabled)
  BY Zenon DEF Next, vars, Debit, Credit, RearmPolicyAfterCredit, RecordProviderReversal, CreateTopUp,
       TransitionIntent, Succeed, Proceed, Live, OfCurrentPolicy, DisableAutoTopUpPolicy,
       CreatePaymentMethod, RevokePaymentMethod, PrepareOwnershipHandoff, AuthorizeHandoffCommit,
       FinalizeOwnershipHandoff, PrepareCloudClosure, LiftFence, Tick
<1> QED
  BY <1>1 DEF PutAutoTopUpPolicy

\* NoInheritedPolicy for every instance: FinalizeOwnershipHandoff retires the
\* policy in the transaction that changes the owner, and nothing revives it.
THEOREM PolicyIsTheOwners == Spec => []NoInheritedPolicy
<1>1. Init => NoInheritedPolicy
  BY DEF Init, NoInheritedPolicy
<1>2. ASSUME TypeOK, NoInheritedPolicy, [Next]_vars
      PROVE  NoInheritedPolicy'
  <2>1. CASE FinalizeOwnershipHandoff /\ policy # NoPolicy
    <3>1. policy \in Policy /\ policy' = Retired(policy)
      BY <1>2, <2>1 DEF TypeOK, FinalizeOwnershipHandoff
    <3>2. policy'.enabled = FALSE
      BY <3>1, Zenon DEF Policy, Retired
    <3> QED
      BY <3>2 DEF NoInheritedPolicy
  <2>2. CASE FinalizeOwnershipHandoff /\ policy = NoPolicy
    BY <2>2 DEF FinalizeOwnershipHandoff, NoInheritedPolicy
  <2>3. CASE policy = NoPolicy /\ owner' = owner
    BY <1>2, <2>3, FirstPolicy DEF NoInheritedPolicy
  <2>4. CASE policy # NoPolicy /\ owner' = owner
    BY <1>2, <2>4, PolicyStep, Zenon DEF NoInheritedPolicy, SameGeneration, NewGeneration
  <2> QED
    BY <1>2, <2>1, <2>2, <2>3, <2>4, OwnerStep
<1> QED
  BY <1>1, <1>2, TypeCorrect, PTL DEF Spec

-----------------------------------------------------------------------------
(* Quiet commits *)

\* CommitIsQuiet for every instance: the barrier refuses every ledger row, a
\* fence refuses new top-ups, and a settled payment has nowhere to go.
THEOREM CommitsAreQuiet == Spec => []CommitIsQuiet
<1>1. Init => CommitIsQuiet
  BY DEF Init, CommitIsQuiet
<1>2. ASSUME TypeOK, CommitIsQuiet, [Next]_vars, fence' = "commit"
      PROVE  balance' >= 0 /\ NothingOpen'
  <2>1. CASE AuthorizeHandoffCommit
    BY <2>1 DEF AuthorizeHandoffCommit, NothingOpen, Rows, IsOpen
  <2>2. CASE fence = "commit" /\ ~AuthorizeHandoffCommit
    <3>1. balance >= 0 /\ NothingOpen
      BY <1>2, <2>2 DEF CommitIsQuiet
    <3>2. ASSUME NEW i \in Rows, NEW to \in IntentState PROVE ~TransitionIntent(i, to)
      BY <1>2, <3>1, MovedRow DEF NothingOpen
    <3>3. balance' = balance /\ intents' = intents
      BY <1>2, <2>2, <3>2 DEF Next, vars, Debit, Credit, CanPost, RecordProviderReversal, CreateTopUp,
           PutAutoTopUpPolicy, DisableAutoTopUpPolicy, CreatePaymentMethod, RevokePaymentMethod,
           PrepareOwnershipHandoff, FinalizeOwnershipHandoff, PrepareCloudClosure, LiftFence, Tick
    <3> QED
      BY <3>1, <3>3 DEF NothingOpen, Rows, IsOpen
  <2>3. fence = "commit" \/ AuthorizeHandoffCommit
    BY Zenon, <1>2 DEF Next, vars, Debit, Credit, RecordProviderReversal, CreateTopUp, TransitionIntent,
         PutAutoTopUpPolicy, DisableAutoTopUpPolicy, CreatePaymentMethod, RevokePaymentMethod,
         PrepareOwnershipHandoff, FinalizeOwnershipHandoff, PrepareCloudClosure, LiftFence, Tick
  <2> QED
    BY <2>1, <2>2, <2>3
<1>3. TypeOK /\ CommitIsQuiet /\ [Next]_vars => CommitIsQuiet'
  BY <1>2 DEF CommitIsQuiet
<1> QED
  BY <1>1, <1>3, TypeCorrect, PTL DEF Spec
-----------------------------------------------------------------------------
(* Automatic top-ups in order *)

\* What no step changes of a payment.
Keeps(i) ==
  /\ i \in Rows' /\ intents'[i].reason = intents[i].reason /\ intents'[i].generation = intents[i].generation
  /\ intents'[i].created = intents[i].created /\ intents'[i].terms = intents[i].terms

\* A debit stamped "at" triggered a top-up.
Triggers(at) ==
  LET n == Len(intents) + 1 IN
  /\ policy # NoPolicy /\ EvaluateAutoTopUp(balance', at)
  /\ policy' = [policy EXCEPT !.armed = FALSE, !.lastTriggered = at, !.version = @ + 1]
  /\ Rows' = Rows \cup {n} /\ \A i \in Rows : intents'[i] = intents[i]
  /\ intents'[n] = [reason |-> "auto_top_up", generation |-> policy.generation,
                    amount |-> policy.terms.amount, state |-> "created", created |-> at,
                    terms |-> policy.terms, reversed |-> 0, owner |-> owner]

\* A debit triggers, or leaves the policy and the payments alone.
LEMMA DebitOrTrigger ==
  ASSUME TypeOK, NEW amount \in Amounts, NEW at \in 0..MaxClock, Debit(amount, at)
  PROVE  UNCHANGED <<intents, policy>> \/ (at \in Nat /\ Triggers(at))
<1>1. CASE UNCHANGED <<intents, policy>>
  BY <1>1
<1>2. CASE ~UNCHANGED <<intents, policy>>
  <2> DEFINE r == [reason |-> "auto_top_up", generation |-> policy.generation,
                  amount |-> policy.terms.amount, state |-> "created", created |-> at,
                  terms |-> policy.terms, reversed |-> 0, owner |-> owner]
  <2>1. /\ policy # NoPolicy /\ EvaluateAutoTopUp(balance - amount, at) /\ balance' = balance - amount
        /\ intents' = Append(intents, r)
        /\ policy' = [policy EXCEPT !.armed = FALSE, !.lastTriggered = at, !.version = @ + 1]
    BY <1>2, Zenon DEF Debit
  <2>2. /\ Rows' = Rows \cup {Len(intents) + 1} /\ \A i \in Rows : intents'[i] = intents[i]
        /\ intents'[Len(intents) + 1] = r
    BY <2>1, AppendedRow, Zenon
  <2>3. EvaluateAutoTopUp(balance', at)
    BY <2>1, Zenon
  <2>4. at \in Nat
    BY TopUpAssumption
  <2> QED
    BY <2>1, <2>2, <2>3, <2>4, Zenon DEF Triggers
<1> QED
  BY <1>1, <1>2

\* The new row is an automatic top-up, after all others.
LEMMA TriggeredRow ==
  ASSUME TypeOK, NEW at, Triggers(at)
  PROVE  /\ Automatic' = Automatic \cup {Len(intents) + 1}
         /\ \A i \in Rows : i < Len(intents) + 1 /\ i # Len(intents) + 1
         /\ \A i \in Rows : Keeps(i) /\ intents'[i].state = intents[i].state
<1> DEFINE n == Len(intents) + 1
<1>1. intents'[n].reason = "auto_top_up"
  BY DEF Triggers
<1>2. Rows' = Rows \cup {n} /\ \A i \in Rows : intents'[i] = intents[i]
  BY Zenon DEF Triggers
<1>3. \A i \in Rows : i < n /\ i # n
  BY DEF TypeOK, Rows
<1> HIDE DEF n
<1>4. Automatic' = Automatic \cup {n}
  BY <1>1, <1>2 DEF Automatic
<1>5. \A i \in Rows : Keeps(i) /\ intents'[i].state = intents[i].state
  BY <1>2, Zenon DEF Keeps
<1> QED
  BY <1>3, <1>4, <1>5 DEF n

\* A payment that moves on, and one that is reversed, keep what Keeps says.
LEMMA ChangedRowKeeps ==
  ASSUME TypeOK, NEW i \in Rows, NEW x, NEW y,
         \/ intents' = [intents EXCEPT ![i].state = x]
         \/ intents' = [intents EXCEPT ![i].reversed = y]
  PROVE  \A j \in Rows : Keeps(j)
<1>1. intents \in Seq(Intent) /\ i \in 1..Len(intents)
  BY DEF TypeOK, Rows
<1>2. intents[i] \in Intent
  BY <1>1, ReadRow
<1>3. Len(intents') = Len(intents) /\ \A j \in 1..Len(intents) : j # i => intents'[j] = intents[j]
  BY <1>1
<1>4. \/ intents'[i] = [intents[i] EXCEPT !.state = x]
      \/ intents'[i] = [intents[i] EXCEPT !.reversed = y]
  BY <1>1
<1>5. /\ intents'[i].reason = intents[i].reason /\ intents'[i].generation = intents[i].generation
      /\ intents'[i].created = intents[i].created /\ intents'[i].terms = intents[i].terms
  BY <1>2, <1>4, Zenon DEF Intent
<1> QED
  BY <1>3, <1>5, Zenon DEF Rows, Keeps

\* Automatic top-ups keep what Keeps says, and only a debit that triggers adds one.
LEMMA AutomaticStep ==
  ASSUME TypeOK, [Next]_vars
  PROVE  /\ \A i \in Rows : Keeps(i)
         /\ Automatic' = Automatic \/ \E at \in Nat : Triggers(at)
<1>1. CASE intents' = intents
  BY <1>1, Zenon DEF Keeps, Rows, Automatic
<1>2. ASSUME NEW amount \in Amounts, NEW at \in 0..MaxClock, Debit(amount, at)
      PROVE  intents' = intents \/ ((\A i \in Rows : Keeps(i)) /\ \E t \in Nat : Triggers(t))
  BY <1>2, DebitOrTrigger, TriggeredRow, Zenon
<1>3. ASSUME NEW amount \in Amounts, NEW state \in {"created", "processing"}, NEW at \in 0..MaxClock,
             CreateTopUp(amount, state, at)
      PROVE  (\A i \in Rows : Keeps(i)) /\ Automatic' = Automatic
  <2>1. PICK r : intents' = Append(intents, r) /\ r.reason = "manual_top_up"
    BY <1>3 DEF CreateTopUp
  <2>2. /\ Rows' = Rows \cup {Len(intents) + 1} /\ \A i \in Rows : intents'[i] = intents[i]
        /\ intents'[Len(intents) + 1].reason = "manual_top_up"
    BY Zenon, <2>1, AppendedRow
  <2>3. Automatic' = Automatic
    BY <2>2 DEF Automatic
  <2> QED
    BY <2>2, <2>3, Zenon DEF Keeps
<1>4. ASSUME NEW i \in Rows, NEW to \in IntentState, TransitionIntent(i, to)
      PROVE  (\A j \in Rows : Keeps(j)) /\ Rows' = Rows
  <2>1. intents' = [intents EXCEPT ![i].state = to]
    BY <1>4 DEF TransitionIntent
  <2> QED
    BY <1>4, <2>1, ChangedRowKeeps, MovedRow, Zenon
<1>5. ASSUME NEW i \in Rows, NEW amount \in Amounts, RecordProviderReversal(i, amount)
      PROVE  (\A j \in Rows : Keeps(j)) /\ Rows' = Rows
  <2>1. intents' = [intents EXCEPT ![i].reversed = intents[i].reversed + amount]
    BY <1>5 DEF RecordProviderReversal, TypeOK, Rows
  <2> QED
    BY <1>5, <2>1, ChangedRowKeeps, ReversedRow, Zenon
<1>6. CASE Settings
  BY <1>1, <1>6, SettingsKeepRows
<1>7. (\A j \in Rows : Keeps(j)) /\ Rows' = Rows => Automatic' = Automatic
  BY Zenon DEF Keeps, Automatic
<1> QED
  BY <1>1, <1>2, <1>3, <1>4, <1>5, <1>6, <1>7 DEF Next, Settings

\* The policy changes generation, and starts with no failure if it is enabled.
Renews ==
  policy' # NoPolicy /\ policy'.generation = policy.generation + 1 /\ (policy'.enabled => policy'.failures = 0)

\* The policy stays in its generation, with the stamp of its last trigger.
Stays ==
  policy' # NoPolicy /\ policy'.generation = policy.generation /\ policy'.lastTriggered = policy.lastTriggered

\* It counts no failure, and is not enabled.
CountStays == policy'.enabled => policy.enabled /\ policy'.failures = policy.failures

\* A policy that is rearmed, disarmed, or disabled by a closure.
LEMMA StampsStay ==
  ASSUME policy \in Policy,
         \/ policy' = Rearmed(policy) \/ policy' = [policy EXCEPT !.armed = FALSE, !.version = @ + 1]
         \/ policy' = [policy EXCEPT !.enabled = FALSE, !.armed = FALSE, !.version = @ + 1]
  PROVE  Stays /\ CountStays
<1>1. policy' \in Policy
  BY PolicyFields, Zenon DEF Policy, Rearmed
<1>2. /\ policy'.generation = policy.generation /\ policy'.lastTriggered = policy.lastTriggered
      /\ policy'.failures = policy.failures
  BY Zenon DEF Policy, Rearmed
<1>3. policy'.enabled => policy.enabled
  BY Zenon DEF Policy, Rearmed
<1> QED
  BY <1>1, <1>2, <1>3, NoPolicyAssumption, Zenon DEF Stays, CountStays

\* A policy that is retired, by the owner or with its method or its owner.
LEMMA StampsRetire ==
  ASSUME policy \in Policy, policy' = Retired(policy)
  PROVE  Renews
<1>1. policy' \in Policy
  BY PolicyFields, Zenon DEF Policy, Retired
<1>2. policy'.generation = policy.generation + 1 /\ policy'.enabled = FALSE
  BY Zenon DEF Policy, Retired
<1> QED
  BY <1>1, <1>2, NoPolicyAssumption, Zenon DEF Renews

\* A policy that sees a success.
LEMMA StampsSuccess ==
  ASSUME policy \in Policy, NEW armed \in BOOLEAN, NEW mine,
         policy' = [policy EXCEPT !.armed = armed, !.failures = IF mine THEN 0 ELSE @, !.version = @ + 1]
  PROVE  Stays /\ policy'.enabled = policy.enabled /\ policy'.failures = IF mine THEN 0 ELSE policy.failures
<1>1. policy' \in Policy
  BY PolicyFields, 0 \in Nat, Zenon DEF Policy
<1>2. policy'.generation = policy.generation /\ policy'.lastTriggered = policy.lastTriggered
  BY Zenon DEF Policy
<1>3. policy'.enabled = policy.enabled /\ policy'.failures = IF mine THEN 0 ELSE policy.failures
  BY Zenon DEF Policy
<1> QED
  BY <1>1, <1>2, <1>3, NoPolicyAssumption, Zenon DEF Stays

\* A policy that sees a conclusive failure.
LEMMA StampsFailure ==
  ASSUME policy \in Policy, NEW last \in BOOLEAN,
         policy' = [policy EXCEPT !.failures = @ + 1, !.enabled = @ /\ last, !.armed = FALSE, !.version = @ + 1]
  PROVE  Stays /\ (policy'.enabled => policy.enabled /\ last) /\ policy'.failures = policy.failures + 1
<1>1. policy' \in Policy
  BY PolicyFields, Zenon DEF Policy
<1>2. policy'.generation = policy.generation /\ policy'.lastTriggered = policy.lastTriggered
  BY Zenon DEF Policy
<1>3. policy'.enabled = (policy.enabled /\ last)
  BY Zenon DEF Policy
<1>4. policy'.failures = policy.failures + 1
  BY Zenon DEF Policy
<1> QED
  BY <1>1, <1>2, <1>3, <1>4, NoPolicyAssumption, Zenon DEF Stays

\* A policy that triggers.
LEMMA StampsTrigger ==
  ASSUME TypeOK, NEW at \in Nat, Triggers(at)
  PROVE  /\ policy \in Policy /\ policy' # NoPolicy /\ policy'.generation = policy.generation
         /\ policy'.lastTriggered = at /\ CountStays
<1>1. policy \in Policy
  BY DEF Triggers, TypeOK
<1>2. policy' = [policy EXCEPT !.armed = FALSE, !.lastTriggered = at, !.version = @ + 1]
  BY Zenon DEF Triggers
<1>3. policy' \in Policy
  BY <1>1, <1>2, PolicyFields, Zenon DEF Policy
<1>4. policy'.generation = policy.generation /\ policy'.lastTriggered = at
  BY <1>1, <1>2, Zenon DEF Policy
<1>5. policy'.failures = policy.failures /\ policy'.enabled = policy.enabled
  BY <1>1, <1>2, Zenon DEF Policy
<1> QED
  BY <1>1, <1>3, <1>4, <1>5, NoPolicyAssumption, Zenon DEF CountStays

\* What the owner, a credit, a handoff and a closure do to the stamps.
LEMMA SettingsStamps ==
  ASSUME TypeOK, Settings, policy # NoPolicy
  PROVE  Renews \/ (Stays /\ CountStays)
<1>1. policy \in Policy
  BY DEF TypeOK
<1>2. CASE policy' = policy
  BY <1>2 DEF Stays, CountStays
<1>3. CASE policy' = Rearmed(policy)
  BY <1>1, <1>3, StampsStay
<1>4. CASE policy' = Retired(policy)
  BY <1>1, <1>4, StampsRetire
<1>5. CASE policy' = [policy EXCEPT !.enabled = FALSE, !.armed = FALSE, !.version = @ + 1]
  BY <1>1, <1>5, StampsStay
<1>6. ASSUME NEW m \in Methods, NEW t \in Terms, NEW enabled \in BOOLEAN, PutAutoTopUpPolicy(m, t, enabled)
      PROVE  Renews
  <2>1. policy' \in Policy
    <3>1. owner \in Nat /\ policy.generation + 1 \in Nat \ {0} /\ policy.version + 1 \in Nat \ {0} /\ 0 \in Nat
      BY <1>1, PolicyFields DEF TypeOK
    <3> QED
      BY <1>6, <3>1, Zenon DEF PutAutoTopUpPolicy, Policy
  <2> QED
    BY <1>6, <2>1, NoPolicyAssumption, Zenon DEF PutAutoTopUpPolicy, Renews
<1>7. \/ policy' \in {policy, Rearmed(policy), Retired(policy)}
      \/ policy' = [policy EXCEPT !.enabled = FALSE, !.armed = FALSE, !.version = @ + 1]
      \/ \E m \in Methods, t \in Terms, enabled \in BOOLEAN : PutAutoTopUpPolicy(m, t, enabled)
  BY Zenon DEF Settings, Credit, RearmPolicyAfterCredit, DisableAutoTopUpPolicy, CreatePaymentMethod,
       RevokePaymentMethod, PrepareOwnershipHandoff, AuthorizeHandoffCommit, FinalizeOwnershipHandoff,
       PrepareCloudClosure, LiftFence, Tick, vars
<1> QED
  BY <1>2, <1>3, <1>4, <1>5, <1>6, <1>7

\* What the outcome of a payment does to the stamps and to the count: a success
\* of the generation resets it, a conclusive failure adds one.
LEMMA OutcomeStamps ==
  ASSUME TypeOK, NEW i \in Rows, NEW to \in IntentState, TransitionIntent(i, to), policy # NoPolicy
  PROVE  /\ Stays
         /\ \/ CountStays /\ (OfCurrentPolicy(i) /\ policy'.enabled => to \notin {"succeeded", "failed", "canceled"})
            \/ OfCurrentPolicy(i) /\ to = "succeeded" /\ policy.enabled /\ policy'.failures = 0
            \/ /\ OfCurrentPolicy(i) /\ to \in {"failed", "canceled"} /\ policy'.failures = policy.failures + 1
               /\ policy'.enabled => policy.enabled /\ policy'.failures < 3
<1>1. policy \in Policy /\ policy.failures \in Nat
  BY PolicyFields DEF TypeOK
<1>2. CASE Succeed(i) /\ to = "succeeded" /\ Live
  <2> DEFINE armed == SuccessArms(balance + intents[i].amount)
  <2>1. policy' = [policy EXCEPT !.armed = armed, !.failures = IF OfCurrentPolicy(i) THEN 0 ELSE @,
                                 !.version = @ + 1]
    BY <1>2, Zenon DEF Succeed
  <2>3. armed \in BOOLEAN
    BY DEF SuccessArms
  <2> HIDE DEF armed
  <2>2. Stays /\ policy'.enabled = policy.enabled
        /\ policy'.failures = IF OfCurrentPolicy(i) THEN 0 ELSE policy.failures
    BY <1>1, <2>1, <2>3, StampsSuccess, Zenon
  <2> QED
    BY <1>2, <2>2 DEF CountStays, Live
<1>3. CASE Succeed(i) /\ to = "succeeded" /\ ~Live
  BY <1>3 DEF Succeed, Live, Stays, CountStays
<1>4. CASE Proceed(i, to) /\ OfCurrentPolicy(i) /\ to \in {"failed", "canceled"}
  <2>1. policy' = [policy EXCEPT !.failures = @ + 1, !.enabled = @ /\ ~LastFailure, !.armed = FALSE,
                                 !.version = @ + 1]
    BY <1>4, Zenon DEF Proceed
  <2>3. (~LastFailure) \in BOOLEAN
    BY Zenon
  <2>2. Stays /\ (policy'.enabled => policy.enabled /\ ~LastFailure) /\ policy'.failures = policy.failures + 1
    BY <1>1, <2>1, <2>3, StampsFailure, Zenon
  <2> QED
    BY <1>1, <1>4, <2>2 DEF LastFailure
<1>5. CASE Proceed(i, to) /\ to # "succeeded" /\ ~(OfCurrentPolicy(i) /\ to \in {"failed", "canceled"})
  <2>1. policy' = policy
    BY <1>5, Zenon DEF Proceed
  <2> QED
    BY <1>5, <2>1 DEF Stays, CountStays
<1> QED
  BY <1>2, <1>3, <1>4, <1>5 DEF TransitionIntent

\* What every step does to the stamps.
LEMMA StampStep ==
  ASSUME TypeOK, [Next]_vars, policy # NoPolicy
  PROVE  Renews \/ Stays \/ \E at \in Nat : Triggers(at)
<1>1. CASE policy' = policy
  BY <1>1 DEF Stays
<1>2. CASE Settings
  BY <1>2, SettingsStamps
<1>3. ASSUME NEW amount \in Amounts, NEW at \in 0..MaxClock, Debit(amount, at)
      PROVE  policy' = policy \/ \E t \in Nat : Triggers(t)
  BY <1>3, DebitOrTrigger, Zenon
<1>4. ASSUME NEW i \in Rows, NEW to \in IntentState, TransitionIntent(i, to)
      PROVE  Stays
  BY <1>4, OutcomeStamps
<1>5. ASSUME NEW i \in Rows, NEW amount \in Amounts, RecordProviderReversal(i, amount)
      PROVE  Stays
  <2>1. policy' = policy \/ policy' = [policy EXCEPT !.armed = FALSE, !.version = @ + 1]
    BY <1>5 DEF RecordProviderReversal
  <2>2. policy \in Policy
    BY DEF TypeOK
  <2>3. CASE policy' = [policy EXCEPT !.armed = FALSE, !.version = @ + 1]
    BY <2>2, <2>3, StampsStay, Zenon
  <2> QED
    BY <2>1, <2>3 DEF Stays
<1>6. ASSUME NEW amount \in Amounts, NEW state \in {"created", "processing"}, NEW at \in 0..MaxClock,
             CreateTopUp(amount, state, at)
      PROVE  policy' = policy
  BY <1>6 DEF CreateTopUp
<1> QED
  BY <1>1, <1>2, <1>3, <1>4, <1>5, <1>6 DEF Next, Settings

-----------------------------------------------------------------------------
(* The cooldown *)

\* The inductive invariant of CooldownKept: no top-up is of a generation to come,
\* and those of the current one were triggered no later than last_triggered_at.
CooldownInv ==
  /\ CooldownKept
  /\ \A i \in Automatic :
       /\ policy # NoPolicy /\ intents[i].generation <= policy.generation
       /\ intents[i].generation = policy.generation =>
            policy.lastTriggered # Never /\ intents[i].created <= policy.lastTriggered

\* The fields of a top-up.
LEMMA TopUpFields ==
  ASSUME TypeOK, NEW i \in Automatic
  PROVE  i \in Rows /\ i \in Nat /\ intents[i].generation \in Nat /\ intents[i].created \in Nat
<1>1. i \in Rows /\ i \in 1..Len(intents) /\ intents \in Seq(Intent)
  BY DEF TypeOK, Automatic, Rows
<1>2. intents[i] \in Intent
  BY <1>1, ReadRow
<1>3. intents[i].generation \in Nat
  BY <1>2 DEF Intent
<1>4. intents[i].created \in Nat
  BY <1>2 DEF Intent
<1>5. i \in Nat
  BY <1>1
<1> QED
  BY <1>1, <1>3, <1>4, <1>5

\* A debit that triggers a top-up respects the cooldown.
LEMMA TriggerCooldown ==
  ASSUME TypeOK, CooldownInv, NEW at \in Nat, Triggers(at)
  PROVE  CooldownInv'
<1> DEFINE n == Len(intents) + 1
<1>1. policy \in Policy /\ policy # NoPolicy /\ CooledDown(at)
  BY DEF Triggers, TypeOK, EvaluateAutoTopUp
<1>2. policy.generation \in Nat /\ policy.terms.cooldown \in Nat /\ policy.lastTriggered \in Nat \cup {Never}
  BY <1>1, PolicyFields, TermsAreValid DEF TermsType
<1>4. policy' # NoPolicy /\ policy'.generation = policy.generation /\ policy'.lastTriggered = at
  BY StampsTrigger
<1>5. /\ intents'[n].generation = policy.generation /\ intents'[n].created = at
      /\ intents'[n].terms = policy.terms
  BY DEF Triggers
<1>6. /\ Automatic' = Automatic \cup {n}
      /\ \A i \in Automatic : i < n /\ Keeps(i) /\ i \in Nat
  BY TriggeredRow, TopUpFields
<1>7. n \in Nat /\ at # Never
  BY TopUpAssumption DEF TypeOK
<1> HIDE DEF n
<1>8. ASSUME NEW j \in Automatic
      PROVE  /\ intents[j].generation \in Nat /\ intents[j].created \in Nat
             /\ intents[j].generation <= policy.generation
             /\ intents[j].generation = policy.generation =>
                  at >= intents[j].created + policy.terms.cooldown /\ intents[j].created <= at
  BY <1>1, <1>2, TopUpFields DEF CooldownInv, CooledDown
<1>9. ASSUME NEW i \in Automatic', NEW j \in Automatic', j < i, intents'[j].generation = intents'[i].generation
      PROVE  intents'[i].created >= intents'[j].created + intents'[i].terms.cooldown
  <2>1. CASE i \in Automatic
    <3>1. j \in Automatic
      BY <1>6, <1>7, <1>9, <2>1
    <3> QED
      BY <1>6, <1>9, <2>1, <3>1 DEF Keeps, CooldownInv, CooldownKept
  <2>2. CASE i = n
    <3>1. j \in Automatic
      BY <1>6, <1>7, <1>9, <2>2
    <3> QED
      BY <1>5, <1>6, <1>8, <1>9, <2>2, <3>1 DEF Keeps
  <2> QED
    BY <1>6, <2>1, <2>2
<1>10. ASSUME NEW i \in Automatic'
       PROVE  /\ policy' # NoPolicy /\ intents'[i].generation <= policy'.generation
              /\ intents'[i].generation = policy'.generation =>
                   policy'.lastTriggered # Never /\ intents'[i].created <= policy'.lastTriggered
  <2>1. CASE i \in Automatic
    BY <1>4, <1>6, <1>7, <1>8, <2>1 DEF Keeps
  <2>2. CASE i = n
    BY <1>2, <1>4, <1>5, <1>7, <2>2
  <2> QED
    BY <1>6, <2>1, <2>2
<1> QED
  BY <1>9, <1>10 DEF CooldownInv, CooldownKept

\* Every step keeps it.
LEMMA CooldownStep ==
  ASSUME TypeOK, CooldownInv, [Next]_vars
  PROVE  CooldownInv'
<1>1. CASE \E at \in Nat : Triggers(at)
  BY <1>1, TriggerCooldown
<1>2. CASE Automatic' = Automatic /\ Automatic = {}
  BY <1>2, Zenon DEF CooldownInv, CooldownKept
<1>3. CASE Automatic' = Automatic /\ policy # NoPolicy /\ (Renews \/ Stays)
  <2>1. policy.generation \in Nat
    BY <1>3, PolicyFields DEF TypeOK
  <2>2. \A i \in Automatic : Keeps(i) /\ intents[i].generation \in Nat
    BY AutomaticStep, TopUpFields
  <2>3. CooldownKept'
    BY <1>3, <2>2 DEF CooldownInv, CooldownKept, Keeps
  <2>4. ASSUME NEW i \in Automatic
        PROVE  /\ policy' # NoPolicy /\ intents'[i].generation <= policy'.generation
               /\ intents'[i].generation = policy'.generation =>
                    policy'.lastTriggered # Never /\ intents'[i].created <= policy'.lastTriggered
    BY <1>3, <2>1, <2>2 DEF Keeps, CooldownInv, Renews, Stays
  <2> QED
    BY <1>3, <2>3, <2>4 DEF CooldownInv
<1>4. policy = NoPolicy => Automatic = {}
  BY Zenon DEF CooldownInv
<1> QED
  BY <1>1, <1>2, <1>3, <1>4, AutomaticStep, StampStep

\* CooldownKept for every instance, whatever the order in which debits commit:
\* a generation's last_triggered_at is the stamp of its latest top-up, and the
\* next debit that triggers is stamped a cooldown later.
THEOREM CooldownHolds == Spec => []CooldownKept
<1>1. Init => CooldownInv
  BY DEF Init, CooldownInv, CooldownKept, Automatic, Rows
<1>2. TypeOK /\ CooldownInv /\ [Next]_vars => CooldownInv'
  BY CooldownStep
<1>3. CooldownInv => CooldownKept
  BY DEF CooldownInv
<1> QED
  BY <1>1, <1>2, <1>3, TypeCorrect, PTL DEF Spec

-----------------------------------------------------------------------------
(* One top-up per crossing *)

\* The inductive invariant of OneTopUpPerCrossing: an armed policy has seen the
\* balance at its threshold, or was saved, since the last automatic top-up.
ArmedRecovered == policy # NoPolicy /\ policy.armed => recovered

\* Every step keeps it.
LEMMA ArmedStep ==
  ASSUME TypeOK, ArmedRecovered, [Next]_vars
  PROVE  ArmedRecovered'
<1>1. policy # NoPolicy => policy \in Policy
  BY DEF TypeOK
<1>2. CASE policy' = policy /\ (recovered => recovered')
  BY <1>2 DEF ArmedRecovered
<1>3. ASSUME NEW amount \in Amounts, NEW at \in 0..MaxClock, Debit(amount, at)
      PROVE  ArmedRecovered'
  <2>1. CASE UNCHANGED <<intents, policy>> /\ Recovers(balance - amount, policy)
    <3>1. policy' = policy /\ (recovered => recovered')
      BY <2>1, Zenon DEF Recovers
    <3> QED
      BY <1>2, <3>1
  <2>2. CASE policy # NoPolicy /\ policy' = [policy EXCEPT !.armed = FALSE, !.lastTriggered = at, !.version = @ + 1]
    <3>1. policy'.armed = FALSE
      BY <1>1, <2>2, Zenon DEF Policy
    <3> QED
      BY <3>1, Zenon DEF ArmedRecovered
  <2> QED
    BY <1>3, <2>1, <2>2 DEF Debit
<1>4. ASSUME NEW amount \in Amounts, Credit(amount)
      PROVE  ArmedRecovered'
  <2>1. CASE Live /\ balance + amount >= policy.terms.threshold
    BY <1>4, <2>1, Zenon DEF Credit, Recovers, Live, ArmedRecovered
  <2>2. CASE ~(Live /\ balance + amount >= policy.terms.threshold)
    BY <1>4, <2>2, Zenon DEF Credit, RearmPolicyAfterCredit, Recovers, ArmedRecovered
  <2> QED
    BY <2>1, <2>2
<1>5. ASSUME NEW i \in Rows, NEW amount \in Amounts, RecordProviderReversal(i, amount)
      PROVE  ArmedRecovered'
  <2>1. CASE policy # NoPolicy /\ policy.armed
    <3>1. policy' = [policy EXCEPT !.armed = FALSE, !.version = @ + 1]
      BY <1>5, <2>1, Zenon DEF RecordProviderReversal
    <3>2. policy'.armed = FALSE
      BY <1>1, <2>1, <3>1, Zenon DEF Policy
    <3> QED
      BY <3>2, Zenon DEF ArmedRecovered
  <2>2. CASE ~(policy # NoPolicy /\ policy.armed)
    BY <1>5, <2>2, Zenon DEF RecordProviderReversal, ArmedRecovered
  <2> QED
    BY <2>1, <2>2
<1>6. ASSUME NEW i \in Rows, NEW to \in IntentState, TransitionIntent(i, to)
      PROVE  ArmedRecovered'
  <2>1. CASE Succeed(i) /\ Live
    <3> DEFINE armed == SuccessArms(balance + intents[i].amount)
    <3>1. policy' = [policy EXCEPT !.armed = armed, !.failures = IF OfCurrentPolicy(i) THEN 0 ELSE @,
                                   !.version = @ + 1]
      BY <2>1, Zenon DEF Succeed
    <3>2. armed => recovered'
      BY <2>1, Zenon DEF Succeed, SuccessArms, Recovers, Live
    <3> HIDE DEF armed
    <3>3. policy \in Policy
      BY <1>1, <2>1 DEF Live
    <3>4. policy'.armed = armed
      BY <3>1, <3>3, Zenon DEF Policy
    <3> QED
      BY <3>2, <3>4, Zenon DEF ArmedRecovered
  <2>2. CASE Succeed(i) /\ ~Live
    BY <2>2, Zenon DEF Succeed, Recovers, ArmedRecovered
  <2>3. CASE Proceed(i, to) /\ OfCurrentPolicy(i) /\ to \in {"failed", "canceled"}
    <3>1. policy' = [policy EXCEPT !.failures = @ + 1, !.enabled = @ /\ ~LastFailure, !.armed = FALSE,
                                   !.version = @ + 1]
      BY <2>3, Zenon DEF Proceed
    <3>2. policy'.armed = FALSE
      BY <1>1, <2>3, <3>1, Zenon DEF Policy, OfCurrentPolicy
    <3> QED
      BY <3>2, Zenon DEF ArmedRecovered
  <2>4. CASE Proceed(i, to) /\ ~(OfCurrentPolicy(i) /\ to \in {"failed", "canceled"})
    BY <2>4, Zenon DEF Proceed, ArmedRecovered
  <2> QED
    BY <1>6, <2>1, <2>2, <2>3, <2>4, Zenon DEF TransitionIntent
<1>7. ASSUME NEW m \in Methods, NEW t \in Terms, NEW enabled \in BOOLEAN, PutAutoTopUpPolicy(m, t, enabled)
      PROVE  ArmedRecovered'
  BY <1>7, Zenon DEF PutAutoTopUpPolicy, ArmedRecovered
<1>8. CASE policy # NoPolicy /\ policy' = Retired(policy)
  <2>1. policy'.armed = FALSE
    BY <1>1, <1>8, Zenon DEF Policy, Retired
  <2> QED
    BY <2>1, Zenon DEF ArmedRecovered
<1>9. CASE policy # NoPolicy /\ policy' = [policy EXCEPT !.enabled = FALSE, !.armed = FALSE, !.version = @ + 1]
  <2>1. policy'.armed = FALSE
    BY <1>1, <1>9, Zenon DEF Policy
  <2> QED
    BY <2>1, Zenon DEF ArmedRecovered
<1>10. CASE PrepareCloudClosure
  BY <1>2, <1>9, <1>10, Zenon DEF PrepareCloudClosure
<1>11. CASE DisableAutoTopUpPolicy \/ FinalizeOwnershipHandoff \/ \E m \in Methods : RevokePaymentMethod(m)
  BY <1>2, <1>8, <1>11, Zenon DEF DisableAutoTopUpPolicy, FinalizeOwnershipHandoff, RevokePaymentMethod
<1>12. CASE \/ \E amount \in Amounts, state \in {"created", "processing"}, at \in 0..MaxClock :
                 CreateTopUp(amount, state, at)
            \/ \E m \in Methods : CreatePaymentMethod(m)
            \/ PrepareOwnershipHandoff \/ AuthorizeHandoffCommit \/ LiftFence \/ Tick \/ UNCHANGED vars
  <2>1. policy' = policy /\ recovered' = recovered
    BY <1>12, Zenon DEF CreateTopUp, CreatePaymentMethod, PrepareOwnershipHandoff,
         AuthorizeHandoffCommit, LiftFence, Tick, vars
  <2> QED
    BY <1>2, <2>1, Zenon
<1> QED
  BY <1>3, <1>4, <1>5, <1>6, <1>7, <1>10, <1>11, <1>12, Zenon DEF Next

\* OneTopUpPerCrossing for every instance: a top-up needs an armed policy and
\* disarms it, and whatever arms it again saw the balance at the threshold.
THEOREM TopUpsAnswerCrossings == Spec => OneTopUpPerCrossing
<1>1. Init => ArmedRecovered
  BY DEF Init, ArmedRecovered
<1>2. TypeOK /\ ArmedRecovered /\ [Next]_vars => ArmedRecovered'
  BY ArmedStep
<1>3. ASSUME TypeOK, ArmedRecovered, [Next]_vars
      PROVE  [Automatic' # Automatic => recovered]_vars
  <2>1. \A at : Triggers(at) => policy # NoPolicy /\ policy.armed
    BY Zenon DEF Triggers, EvaluateAutoTopUp
  <2> QED
    BY <1>3, <2>1, AutomaticStep DEF ArmedRecovered
<1> QED
  BY <1>1, <1>2, <1>3, TypeCorrect, PTL DEF Spec, OneTopUpPerCrossing
=============================================================================
