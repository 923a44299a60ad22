--------------------------- MODULE RetentionProofs ---------------------------
(***************************************************************************)
(* Proofs about RawRetention for every store, any policies, holds, plans   *)
(* and operations, and any number of concurrent handlers: holds and        *)
(* decisions exclude each other, a denied operation is never applied, a    *)
(* decision is final, no record leaves without its evidence, and records   *)
(* leave in order.                                                         *)
(***************************************************************************)
EXTENDS RawRetention, TLAPS

-----------------------------------------------------------------------------
(* Holds and decisions *)

HoldStatus == {"absent", "ACTIVE", "PENDING_FENCED", "RELEASE_PENDING", "RELEASED"}
OperationStatus == {"absent", "ACTIVE", "ABORT_REQUESTED", "COMPLETED", "ABORTED"}
Outcomes == {"completed", "aborted"}

TypeInv ==
  /\ policies \in [Policies -> {"absent", "put", "approved", "active"}]
  /\ clearances \in [Clearances -> {"absent", "stands", "revoked"}]
  /\ holds \in [Holds -> HoldStatus]
  /\ operations \in [Operations -> OperationStatus]
  /\ plans \in [Operations -> Plans \cup {None}]
  /\ requests \in [Handlers -> [operation : Operations, plan : Plans, at : Nat] \cup {None}]
  /\ receipts \subseteq Operations \X Outcomes
  /\ closed \subseteq Periods
  /\ committed \in [Consumers -> Nat]
  /\ logger \in [Operations -> {"idle", "authorized"} \cup Outcomes]
  /\ now \in Nat

\* What Billing and Logger hold of an operation agrees, and one decision at most
\* fences the store.
Agreement ==
  /\ \A o \in Operations :
       /\ operations[o] = "absent" <=> plans[o] = None
       /\ operations[o] \in {"absent", "ABORTED"} => logger[o] \in {"idle", "aborted"}
       /\ operations[o] = "COMPLETED" => logger[o] = "completed"
       /\ \A outcome \in Outcomes : <<o, outcome>> \in receipts => logger[o] = outcome
  /\ \A o, x \in Operations : Fencing(o) /\ Fencing(x) => o = x

\* The type of the state, of the inductive invariant: every operation keeps it.
LEMMA TypeStep ==
  ASSUME TypeInv, [Next]_vars
  PROVE  TypeInv'
<1> USE DEF TypeInv, HoldStatus, OperationStatus, Outcomes
<1>1. CASE UNCHANGED vars
  BY <1>1 DEF vars, billingVars, worldVars
<1>2. ASSUME NEW p \in Policies, PutPolicy(p) \/ ApproveRecovery(p) \/ \E active \in BOOLEAN : SetActive(p, active)
      PROVE  TypeInv'
  BY <1>2 DEF PutPolicy, ApproveRecovery, SetActive, worldVars
<1>3. ASSUME NEW c \in Clearances, PutClearance(c) \/ RevokeClearance(c)
      PROVE  TypeInv'
  BY <1>3 DEF PutClearance, RevokeClearance, worldVars
<1>4. ASSUME NEW h \in Holds, PutHold(h) \/ ReleaseHold(h)
      PROVE  TypeInv'
  BY <1>4 DEF PutHold, ReleaseHold, worldVars
<1>5. ASSUME NEW k \in Handlers, RequestOperation(k)
      PROVE  TypeInv'
  BY <1>5 DEF RequestOperation, Admissible, worldVars
<1>6. ASSUME NEW k \in Handlers, NEW o \in Operations, NEW plan \in Plans, NEW at \in 0..MaxTime,
             AskConsumers(k, o, plan, at)
      PROVE  TypeInv'
  BY <1>6, RetentionAssumption DEF AskConsumers, billingVars, worldVars
<1>7. ASSUME NEW o \in Operations, NEW plan \in Plans, RequestAbortPlan(o, plan)
      PROVE  TypeInv'
  BY <1>7 DEF RequestAbortPlan, worldVars
<1>8. ASSUME NEW o \in Operations, ReadTerminal(o)
      PROVE  TypeInv'
  BY <1>8 DEF ReadTerminal, billingVars, worldVars
<1>9. ASSUME NEW o \in Operations, NEW outcome \in Outcomes, Resolve(o, outcome)
      PROVE  TypeInv'
  BY <1>9 DEF Resolve, Finalized, worldVars
<1>10. ASSUME NEW o \in Operations, LoggerAuthorizes(o) \/ LoggerApplies(o) \/ LoggerAborts(o)
       PROVE  TypeInv'
  BY <1>10 DEF LoggerAuthorizes, LoggerApplies, LoggerAborts, billingVars
<1>11. ASSUME NEW p \in Periods, ClosePeriod(p)
       PROVE  TypeInv'
  BY <1>11 DEF ClosePeriod, billingVars
<1>12. ASSUME NEW c \in Consumers, Commit(c)
       PROVE  TypeInv'
  BY <1>12 DEF Commit, billingVars
<1>13. CASE Tick
  BY <1>13 DEF Tick, billingVars
<1> QED
  BY <1>1, <1>2, <1>3, <1>4, <1>5, <1>6, <1>7, <1>8, <1>9, <1>10, <1>11, <1>12, <1>13
     DEF Next, Resolving

\* Each operation keeps Billing's and Logger's view in step: Logger begins only
\* under an active decision, and Billing ends one only on Logger's receipt.
LEMMA AgreementStep ==
  ASSUME TypeInv, Agreement, [Next]_vars
  PROVE  Agreement'
<1> USE DEF TypeInv, Agreement, Fencing, OperationStatus, Outcomes
<1>1. CASE UNCHANGED vars
  BY <1>1 DEF vars, billingVars, worldVars
<1>2. ASSUME NEW p \in Policies, PutPolicy(p) \/ ApproveRecovery(p) \/ \E active \in BOOLEAN : SetActive(p, active)
      PROVE  Agreement'
  BY <1>2 DEF PutPolicy, ApproveRecovery, SetActive, worldVars
<1>3. ASSUME NEW c \in Clearances, PutClearance(c) \/ RevokeClearance(c)
      PROVE  Agreement'
  BY <1>3 DEF PutClearance, RevokeClearance, worldVars
<1>4. ASSUME NEW h \in Holds, PutHold(h) \/ ReleaseHold(h)
      PROVE  Agreement'
  BY <1>4 DEF PutHold, ReleaseHold, worldVars
<1>5. ASSUME NEW k \in Handlers, RequestOperation(k)
      PROVE  Agreement'
  <2>1. CASE Admissible(requests[k])
    <3>1. requests[k].plan # None
      BY <1>5, RetentionAssumption DEF RequestOperation
    <3> QED
      BY <1>5, <2>1, <3>1 DEF RequestOperation, Admissible, NotDecided, NotBlocked, worldVars
  <2>2. CASE ~Admissible(requests[k])
    BY <1>5, <2>2 DEF RequestOperation, worldVars
  <2> QED
    BY <2>1, <2>2
<1>6. ASSUME NEW k \in Handlers, NEW o \in Operations, NEW plan \in Plans, NEW at \in 0..MaxTime,
             AskConsumers(k, o, plan, at)
      PROVE  Agreement'
  BY <1>6 DEF AskConsumers, billingVars, worldVars
<1>7. ASSUME NEW o \in Operations, NEW plan \in Plans, RequestAbortPlan(o, plan)
      PROVE  Agreement'
  <2>1. plan # None
    BY RetentionAssumption
  <2>2. CASE operations[o] = "absent"
    BY <1>7, <2>1, <2>2 DEF RequestAbortPlan, worldVars
  <2>3. CASE operations[o] = "ACTIVE"
    BY <1>7, <2>3 DEF RequestAbortPlan, worldVars
  <2> QED
    BY <1>7, <2>2, <2>3 DEF RequestAbortPlan
<1>8. ASSUME NEW o \in Operations, ReadTerminal(o)
      PROVE  Agreement'
  BY <1>8 DEF ReadTerminal, billingVars, worldVars
<1>9. ASSUME NEW o \in Operations, NEW outcome \in Outcomes, Resolve(o, outcome)
      PROVE  Agreement'
  BY <1>9 DEF Resolve, worldVars
<1>10. ASSUME NEW o \in Operations, LoggerAuthorizes(o) \/ LoggerApplies(o) \/ LoggerAborts(o)
       PROVE  Agreement'
  BY <1>10 DEF LoggerAuthorizes, LoggerApplies, LoggerAborts, billingVars
<1>11. ASSUME NEW p \in Periods, ClosePeriod(p)
       PROVE  Agreement'
  BY <1>11 DEF ClosePeriod, billingVars
<1>12. ASSUME NEW c \in Consumers, Commit(c)
       PROVE  Agreement'
  BY <1>12 DEF Commit, billingVars
<1>13. CASE Tick
  BY <1>13 DEF Tick, billingVars
<1> QED
  BY <1>1, <1>2, <1>3, <1>4, <1>5, <1>6, <1>7, <1>8, <1>9, <1>10, <1>11, <1>12, <1>13
     DEF Next, Resolving

\* The overlap test of the SQL finds exactly the holds and plans that share a
\* record, the hold of a whole store included.
LEMMA OverlapsIsSharing ==
  ASSUME NEW h \in Holds, NEW plan \in Plans
  PROVE  Overlaps(h, plan) <=> Held(h) \cap RangeOf(plan) # {}
<1>1. /\ plan.from \in SequenceNumbers /\ plan.through \in SequenceNumbers /\ plan.from <= plan.through
      /\ Extent[h].from \in Nat /\ Extent[h].through \in Nat /\ Extent[h].from <= Extent[h].through
      /\ MaxSequence \in Nat
  BY RetentionAssumption
<1>2. CASE Extent[h].from = 0
  <2>1. plan.from \in Held(h) \cap RangeOf(plan)
    BY <1>1, <1>2 DEF Held, RangeOf, SequenceNumbers
  <2> QED
    BY <1>2, <2>1 DEF Overlaps
<1>3. CASE Extent[h].from # 0 /\ Overlaps(h, plan)
  <2>1. CASE plan.from <= Extent[h].from
    <3>1. Extent[h].from \in Held(h) \cap RangeOf(plan)
      BY <1>1, <1>3, <2>1 DEF Overlaps, Held, RangeOf, SequenceNumbers
    <3> QED
      BY <1>3, <3>1
  <2>2. CASE ~(plan.from <= Extent[h].from)
    <3>1. plan.from \in Held(h) \cap RangeOf(plan)
      BY <1>1, <1>3, <2>2 DEF Overlaps, Held, RangeOf, SequenceNumbers
    <3> QED
      BY <1>3, <3>1
  <2> QED
    BY <2>1, <2>2
<1>4. CASE Extent[h].from # 0 /\ ~Overlaps(h, plan)
  BY <1>1, <1>4 DEF Overlaps, Held, RangeOf, SequenceNumbers
<1> QED
  BY <1>2, <1>3, <1>4

\* Hence what PutHold and ReleaseHold look for is a decision in force.
LEMMA FenceIsInForce ==
  ASSUME TypeInv, Agreement, NEW h \in Holds
  PROVE  OverlappingFence(h) <=> InForce(h)
<1>1. ASSUME NEW o \in Operations, Fencing(o)
      PROVE  plans[o] \in Plans
  BY <1>1 DEF TypeInv, Agreement, Fencing
<1> QED
  BY <1>1, OverlapsIsSharing DEF OverlappingFence, InForce

\* Each operation keeps holds and decisions apart: a hold looks for the fence, an
\* admission for holds, and the end of the only fence settles those that wait.
LEMMA HoldsStep ==
  ASSUME TypeInv, TypeInv', Agreement, Agreement', HoldsAndDecisionsExclude, [Next]_vars
  PROVE  HoldsAndDecisionsExclude'
<1> USE DEF HoldsAndDecisionsExclude
<1>1. CASE UNCHANGED <<operations, plans, holds>>
  BY <1>1 DEF InForce, Fencing
<1>2. ASSUME NEW h \in Holds, PutHold(h) \/ ReleaseHold(h)
      PROVE  HoldsAndDecisionsExclude'
  <2>1. \A g \in Holds : InForce(g)' <=> InForce(g)
    BY <1>2 DEF PutHold, ReleaseHold, InForce, Fencing
  <2>2. OverlappingFence(h) <=> InForce(h)
    BY FenceIsInForce
  <2> QED
    BY <1>2, <2>1, <2>2 DEF PutHold, ReleaseHold, TypeInv
<1>3. ASSUME NEW k \in Handlers, RequestOperation(k), Admissible(requests[k])
      PROVE  HoldsAndDecisionsExclude'
  <2> DEFINE r == requests[k]
  <2>1. r.operation \in Operations /\ r.plan \in Plans
    BY <1>3 DEF RequestOperation, TypeInv
  <2>2. \A o \in Operations : ~Fencing(o)
    BY <1>3 DEF Admissible, NotBlocked
  <2>3. \A h \in Holds : holds[h] \notin {"PENDING_FENCED", "RELEASE_PENDING"}
    BY <2>2 DEF InForce
  <2>4. ASSUME NEW h \in Holds, holds[h] = "ACTIVE"
        PROVE  ~InForce(h)'
    <3>1. Held(h) \cap RangeOf(r.plan) = {}
      BY <1>3, <2>1, <2>4, OverlapsIsSharing DEF Admissible, NotBlocked
    <3>2. \A o \in Operations : Fencing(o)' => o = r.operation
      BY <1>3, <2>1, <2>2 DEF RequestOperation, Fencing, TypeInv
    <3>3. plans'[r.operation] = r.plan
      BY <1>3, <2>1 DEF RequestOperation, TypeInv
    <3> QED
      BY <3>1, <3>2, <3>3 DEF InForce, Held, RangeOf
  <2> QED
    BY <1>3, <2>3, <2>4 DEF RequestOperation
<1>4. ASSUME NEW k \in Handlers, RequestOperation(k), ~Admissible(requests[k])
      PROVE  HoldsAndDecisionsExclude'
  BY <1>4, <1>1 DEF RequestOperation
<1>5. ASSUME NEW o \in Operations, NEW plan \in Plans, RequestAbortPlan(o, plan)
      PROVE  HoldsAndDecisionsExclude'
  <2>1. ASSUME NEW x \in Operations
        PROVE  /\ Fencing(x)' <=> Fencing(x)
               /\ Fencing(x) => plans'[x] = plans[x]
    <3>1. CASE operations[o] = "absent"
      BY <1>5, <3>1 DEF RequestAbortPlan, Fencing, TypeInv
    <3>2. CASE operations[o] = "ACTIVE"
      BY <1>5, <3>2 DEF RequestAbortPlan, Fencing, TypeInv
    <3> QED
      BY <1>5, <3>1, <3>2 DEF RequestAbortPlan
  <2>2. ASSUME NEW h \in Holds
        PROVE  InForce(h)' <=> InForce(h)
    BY <2>1 DEF InForce, Held, RangeOf
  <2> QED
    BY <1>5, <2>2 DEF RequestAbortPlan
<1>6. ASSUME NEW o \in Operations, NEW outcome \in Outcomes, Resolve(o, outcome), Fencing(o)
      PROVE  HoldsAndDecisionsExclude'
  <2>1. \A x \in Operations : ~Fencing(x)'
    BY <1>6 DEF Resolve, Fencing, TypeInv, Agreement
  <2>2. \A h \in Holds : holds'[h] \notin {"PENDING_FENCED", "RELEASE_PENDING"}
    BY <1>6 DEF Resolve, Finalized
  <2> QED
    BY <2>1, <2>2 DEF InForce
<1>7. ASSUME NEW o \in Operations, NEW outcome \in Outcomes, Resolve(o, outcome), ~Fencing(o)
      PROVE  HoldsAndDecisionsExclude'
  BY <1>7, <1>1 DEF Resolve
<1>8. CASE \/ \E p \in Policies : PutPolicy(p) \/ ApproveRecovery(p) \/ \E active \in BOOLEAN : SetActive(p, active)
           \/ \E c \in Clearances : PutClearance(c) \/ RevokeClearance(c)
           \/ \E k \in Handlers, o \in Operations, plan \in Plans, at \in 0..MaxTime : AskConsumers(k, o, plan, at)
           \/ \E o \in Operations : ReadTerminal(o) \/ LoggerAuthorizes(o) \/ LoggerApplies(o) \/ LoggerAborts(o)
           \/ \E p \in Periods : ClosePeriod(p)
           \/ \E c \in Consumers : Commit(c)
           \/ Tick \/ UNCHANGED vars
  <2>1. UNCHANGED <<operations, plans, holds>>
    BY Zenon, <1>8 DEF PutPolicy, ApproveRecovery, SetActive, PutClearance, RevokeClearance, AskConsumers,
         ReadTerminal, LoggerAuthorizes, LoggerApplies, LoggerAborts, ClosePeriod, Commit, Tick,
         vars, billingVars
  <2> QED
    BY <1>1, <2>1
<1> QED
  BY <1>2, <1>3, <1>4, <1>5, <1>6, <1>7, <1>8 DEF Next, Resolving, Outcomes

IInv == TypeInv /\ Agreement /\ HoldsAndDecisionsExclude

\* The inductive invariant holds in every reachable state.
THEOREM Invariance == Spec => []IInv
<1>1. Init => IInv
  <2>1. Init => TypeInv
    BY DEF Init, TypeInv, HoldStatus, OperationStatus, Outcomes
  <2>2. Init => Agreement
    BY DEF Init, Agreement, Fencing
  <2>3. Init => HoldsAndDecisionsExclude
    BY DEF Init, HoldsAndDecisionsExclude
  <2> QED
    BY <2>1, <2>2, <2>3 DEF IInv
<1>2. IInv /\ [Next]_vars => IInv'
  BY TypeStep, AgreementStep, HoldsStep DEF IInv
<1> QED
  BY <1>1, <1>2, PTL DEF Spec

\* An active hold and a decision in force never share a record, and holds wait
\* only for a decision in force, for every store and any set of holds.
THEOREM HoldsExclude == Spec => []HoldsAndDecisionsExclude
<1>1. IInv => HoldsAndDecisionsExclude
  BY DEF IInv
<1> QED
  BY <1>1, Invariance, PTL

\* An operation recorded as aborted was not and will not be applied by Logger.
THEOREM DeniedIsDenied == Spec => []AbortedIsNeverApplied
<1>1. IInv => AbortedIsNeverApplied
  BY DEF IInv, Agreement, AbortedIsNeverApplied
<1> QED
  BY <1>1, Invariance, PTL

\* What a step may do to the record of an operation.
Final(o) ==
  /\ plans[o] # None => plans'[o] = plans[o]
  /\ operations[o] \in {"COMPLETED", "ABORTED"} => operations'[o] = operations[o]
  /\ operations[o] = "ABORT_REQUESTED" => operations'[o] # "ACTIVE"

\* A recorded plan stays, an ended operation stays ended and a request to abort is
\* not taken back, whatever requests are under way.
THEOREM DecisionsAreFinal == Spec => DecisionIsFinal
<1>1. ASSUME IInv, [Next]_vars, NEW o \in Operations
      PROVE  Final(o)
  <2>0. /\ operations \in [Operations -> OperationStatus] /\ plans \in [Operations -> Plans \cup {None}]
        /\ \A x \in Operations : operations[x] = "absent" <=> plans[x] = None
        /\ \A k \in Handlers : requests[k] # None => requests[k].operation \in Operations
    BY <1>1 DEF IInv, TypeInv, Agreement
  <2> USE DEF Final
  <2>1. ASSUME NEW k \in Handlers, RequestOperation(k)
        PROVE  Final(o)
    <3>1. CASE Admissible(requests[k])
      BY <2>0, <2>1, <3>1 DEF RequestOperation, Admissible, NotDecided
    <3>2. CASE ~Admissible(requests[k])
      BY <2>1, <3>2 DEF RequestOperation
    <3> QED
      BY <3>1, <3>2
  <2>2. ASSUME NEW x \in Operations, NEW plan \in Plans, RequestAbortPlan(x, plan)
        PROVE  Final(o)
    <3>1. CASE operations[x] = "absent"
      BY <2>0, <2>2, <3>1 DEF RequestAbortPlan
    <3>2. CASE operations[x] = "ACTIVE"
      BY <2>0, <2>2, <3>2 DEF RequestAbortPlan
    <3> QED
      BY <2>2, <3>1, <3>2 DEF RequestAbortPlan
  <2>3. ASSUME NEW x \in Operations, NEW outcome \in Outcomes, Resolve(x, outcome)
        PROVE  Final(o)
    <3>1. CASE Fencing(x)
      BY <2>0, <2>3, <3>1 DEF Resolve, Fencing
    <3>2. CASE ~Fencing(x)
      BY <2>3, <3>2 DEF Resolve
    <3> QED
      BY <3>1, <3>2
  <2>4. CASE UNCHANGED <<operations, plans>>
    BY <2>4
  <2>5. CASE \/ \E p \in Policies : PutPolicy(p) \/ ApproveRecovery(p) \/ \E active \in BOOLEAN : SetActive(p, active)
             \/ \E c \in Clearances : PutClearance(c) \/ RevokeClearance(c)
             \/ \E h \in Holds : PutHold(h) \/ ReleaseHold(h)
             \/ \E k \in Handlers, x \in Operations, plan \in Plans, at \in 0..MaxTime : AskConsumers(k, x, plan, at)
             \/ \E x \in Operations : ReadTerminal(x) \/ LoggerAuthorizes(x) \/ LoggerApplies(x) \/ LoggerAborts(x)
             \/ \E p \in Periods : ClosePeriod(p)
             \/ \E c \in Consumers : Commit(c)
             \/ Tick \/ UNCHANGED vars
    <3>1. UNCHANGED <<operations, plans>>
      BY Zenon, <2>5 DEF PutPolicy, ApproveRecovery, SetActive, PutClearance, RevokeClearance, PutHold,
           ReleaseHold, AskConsumers, ReadTerminal, LoggerAuthorizes, LoggerApplies, LoggerAborts,
           ClosePeriod, Commit, Tick, vars, billingVars
    <3> QED
      BY <2>4, <3>1
  <2> QED
    BY Zenon, <1>1, <2>1, <2>2, <2>3, <2>5 DEF Next, Resolving, Outcomes
<1>2. IInv /\ [Next]_vars => [\A o \in Operations : Final(o)]_vars
  BY <1>1
<1> QED
  BY <1>2, Invariance, PTL DEF Spec, DecisionIsFinal, Final

-----------------------------------------------------------------------------
(* Evidence: gathered before the lock is taken, while policies, clearances and
   the clock move on, but what it says only grows *)

Committed(plan) == \A c \in Required[plan.policy] : committed[c] >= plan.through

Evidenced(plan) ==
  /\ AllAreOld(plan, now) /\ Committed(plan)
  /\ Cover[plan.clearance].periods \subseteq closed

Evidence ==
  /\ \A c \in Clearances : clearances[c] # "absent" => Cover[c].periods \subseteq closed
  /\ \A k \in Handlers : requests[k] # None => Committed(requests[k].plan)
  /\ \A o \in Operations : Accepted(o) => Evidenced(plans[o])
  /\ \A s \in retired : \E o \in Operations : logger[o] = "completed" /\ s \in RangeOf(plans[o])

\* Consumers do not go back, periods stay closed, and time passes.
LEMMA Growth ==
  ASSUME TypeInv, [Next]_vars
  PROVE  /\ \A c \in Consumers : committed'[c] >= committed[c]
         /\ closed \subseteq closed' /\ now' >= now
<1>1. CASE UNCHANGED <<committed, closed, now>>
  BY <1>1 DEF TypeInv
<1>2. ASSUME NEW c \in Consumers, Commit(c)
      PROVE  /\ \A d \in Consumers : committed'[d] >= committed[d]
             /\ closed \subseteq closed' /\ now' >= now
  BY <1>2 DEF Commit, TypeInv
<1>3. ASSUME NEW p \in Periods, ClosePeriod(p)
      PROVE  /\ \A d \in Consumers : committed'[d] >= committed[d]
             /\ closed \subseteq closed' /\ now' >= now
  BY <1>3 DEF ClosePeriod, TypeInv
<1>4. CASE Tick
  BY <1>4 DEF Tick, TypeInv
<1>5. CASE \/ \E p \in Policies : PutPolicy(p) \/ ApproveRecovery(p) \/ \E active \in BOOLEAN : SetActive(p, active)
           \/ \E c \in Clearances : PutClearance(c) \/ RevokeClearance(c)
           \/ \E h \in Holds : PutHold(h) \/ ReleaseHold(h)
           \/ \E k \in Handlers : RequestOperation(k)
           \/ \E k \in Handlers, x \in Operations, plan \in Plans, at \in 0..MaxTime : AskConsumers(k, x, plan, at)
           \/ \E x \in Operations : \/ \E plan \in Plans : RequestAbortPlan(x, plan)
                                    \/ ReadTerminal(x) \/ \E outcome \in Outcomes : Resolve(x, outcome)
                                    \/ LoggerAuthorizes(x) \/ LoggerApplies(x) \/ LoggerAborts(x)
           \/ UNCHANGED vars
  <2>1. UNCHANGED <<committed, closed, now>>
    BY Zenon, <1>5 DEF PutPolicy, ApproveRecovery, SetActive, PutClearance, RevokeClearance, PutHold,
         ReleaseHold, RequestOperation, AskConsumers, RequestAbortPlan, ReadTerminal, Resolve,
         LoggerAuthorizes, LoggerApplies, LoggerAborts, vars, worldVars
  <2> QED
    BY <1>1, <2>1
<1> QED
  BY Zenon, <1>2, <1>3, <1>4, <1>5 DEF Next, Resolving, Outcomes

\* So evidence that was there stays.
LEMMA EvidenceStays ==
  ASSUME TypeInv, TypeInv', [Next]_vars, NEW plan \in Plans
  PROVE  /\ Committed(plan) => Committed(plan)'
         /\ Evidenced(plan) => Evidenced(plan)'
<1>1. /\ \A c \in Consumers : committed'[c] >= committed[c] /\ committed[c] \in Nat /\ committed'[c] \in Nat
      /\ closed \subseteq closed' /\ now' >= now /\ now \in Nat /\ now' \in Nat
  BY Zenon, Growth DEF TypeInv
<1>2. /\ plan.policy \in Policies /\ plan.through \in Nat /\ plan.from \in Nat
      /\ \A s \in plan.from..plan.through : ReceivedAt[s] \in Nat
      /\ HotDays[plan.policy] \in Nat
  <2>1. plan.policy \in Policies /\ plan.through \in 1..MaxSequence /\ plan.from \in 1..MaxSequence /\ MaxSequence \in Nat
    BY RetentionAssumption DEF SequenceNumbers
  <2>2. \A s \in plan.from..plan.through : s \in 1..MaxSequence
    BY <2>1
  <2> QED
    BY <2>1, <2>2, RetentionAssumption DEF SequenceNumbers
<1>3. Committed(plan) => Committed(plan)'
  BY <1>1, <1>2 DEF Committed, Consumers
<1>4. AllAreOld(plan, now) => AllAreOld(plan, now)'
  BY <1>1, <1>2 DEF AllAreOld
<1> QED
  BY Zenon, <1>1, <1>3, <1>4 DEF Evidenced

\* The clearances, and the handlers between their two looks.
LEMMA EvidenceGathered ==
  ASSUME TypeInv, TypeInv', Evidence, [Next]_vars
  PROVE  /\ \A c \in Clearances : clearances'[c] # "absent" => Cover[c].periods \subseteq closed'
         /\ \A k \in Handlers : requests'[k] # None => Committed(requests[k].plan)'
<1>1. closed \subseteq closed'
  BY Growth
<1>2. ASSUME NEW c \in Clearances, clearances'[c] # "absent"
      PROVE  Cover[c].periods \subseteq closed'
  <2>1. CASE clearances[c] # "absent"
    BY <1>1, <2>1 DEF Evidence
  <2>2. CASE clearances' # clearances /\ clearances[c] = "absent"
    <3>1. PICK d \in Clearances : PutClearance(d) \/ RevokeClearance(d)
      BY Zenon, <2>2 DEF Next, Resolving, PutPolicy, ApproveRecovery, SetActive, PutHold, ReleaseHold,
           RequestOperation, AskConsumers, RequestAbortPlan, ReadTerminal, Resolve, LoggerAuthorizes,
           LoggerApplies, LoggerAborts, ClosePeriod, Commit, Tick, vars, billingVars
    <3>2. d = c /\ PutClearance(c)
      BY Zenon, <1>2, <2>2, <3>1 DEF PutClearance, RevokeClearance, TypeInv
    <3> QED
      BY <1>1, <3>2 DEF PutClearance
  <2> QED
    BY <1>2, <2>1, <2>2
<1>3. ASSUME NEW k \in Handlers, requests'[k] # None
      PROVE  Committed(requests[k].plan)'
  <2>1. requests'[k].plan \in Plans
    BY Zenon, <1>3 DEF TypeInv
  <2>2. CASE requests'[k] = requests[k]
    <3>1. Committed(requests[k].plan)
      BY Zenon, <1>3, <2>2 DEF Evidence
    <3>2. requests[k].plan \in Plans
      BY <2>1, <2>2
    <3>3. \A c \in Required[requests[k].plan.policy] : committed'[c] >= requests[k].plan.through
      BY Zenon, <3>1, <3>2, EvidenceStays DEF Committed
    <3> QED
      BY <2>2, <3>3 DEF Committed
  <2>3. CASE requests'[k] # requests[k]
    <3>0. \A j \in Handlers : ~RequestOperation(j)
      BY <1>3, <2>3 DEF RequestOperation, TypeInv
    <3>1. PICK j \in Handlers, o \in Operations, plan \in Plans, at \in 0..MaxTime :
             AskConsumers(j, o, plan, at)
      BY Zenon, <2>3, <3>0 DEF Next, Resolving, PutPolicy, ApproveRecovery, SetActive, PutClearance, RevokeClearance,
           PutHold, ReleaseHold, RequestAbortPlan, ReadTerminal, Resolve, LoggerAuthorizes,
           LoggerApplies, LoggerAborts, ClosePeriod, Commit, Tick, vars, billingVars
    <3>2. AskConsumers(k, o, plan, at)
      BY Zenon, <2>3, <3>1 DEF AskConsumers, TypeInv
    <3>3. requests'[k].plan = plan /\ Committed(plan) /\ committed' = committed
      BY <3>2 DEF AskConsumers, Committed, TypeInv, worldVars
    <3> QED
      BY <3>3 DEF Committed
  <2> QED
    BY <2>2, <2>3
<1> QED
  BY <1>2, <1>3

\* An operation is accepted by nothing but an admission (RequestOperation).
LEMMA Admission ==
  ASSUME TypeInv, [Next]_vars, NEW o \in Operations, Accepted(o)', ~(Accepted(o) /\ plans'[o] = plans[o])
  PROVE  \E k \in Handlers : /\ RequestOperation(k) /\ Admissible(requests[k])
                             /\ requests[k].operation = o /\ requests[k] # None
                             /\ requests[k].plan \in Plans /\ plans'[o] = requests[k].plan
<1>1. ASSUME NEW x \in Operations, NEW plan \in Plans, RequestAbortPlan(x, plan)
      PROVE  FALSE
  <2>1. CASE operations[x] = "absent"
    BY <1>1, <2>1 DEF RequestAbortPlan, Accepted, TypeInv
  <2>2. CASE operations[x] = "ACTIVE"
    BY <1>1, <2>2 DEF RequestAbortPlan, Accepted, TypeInv
  <2> QED
    BY <1>1, <2>1, <2>2 DEF RequestAbortPlan
<1>2. ASSUME NEW x \in Operations, NEW outcome \in Outcomes, Resolve(x, outcome)
      PROVE  FALSE
  <2>1. CASE Fencing(x)
    BY <1>2, <2>1 DEF Resolve, Accepted, Fencing, TypeInv
  <2>2. CASE ~Fencing(x)
    BY <1>2, <2>2 DEF Resolve, Accepted
  <2> QED
    BY <2>1, <2>2
<1>3. operations'[o] # operations[o] \/ plans'[o] # plans[o]
  BY DEF Accepted
<1>4. PICK k \in Handlers : RequestOperation(k)
  BY Zenon, <1>1, <1>2, <1>3 DEF Next, Resolving, Outcomes, PutPolicy, ApproveRecovery, SetActive, PutClearance,
       RevokeClearance, PutHold, ReleaseHold, AskConsumers, ReadTerminal, LoggerAuthorizes,
       LoggerApplies, LoggerAborts, ClosePeriod, Commit, Tick, vars, billingVars
<1>5. Admissible(requests[k]) /\ requests[k].operation = o /\ requests[k] # None
  BY Zenon, <1>3, <1>4 DEF RequestOperation, TypeInv
<1>6. requests[k].plan \in Plans /\ plans'[o] = requests[k].plan
  BY Zenon, <1>4, <1>5 DEF RequestOperation, TypeInv
<1> QED
  BY Zenon, <1>4, <1>5, <1>6

\* What is evidenced when a plan is admitted: its age and its clearance are
\* looked at under the lock, and what consumers committed stays committed.
LEMMA EvidenceAdmitted ==
  ASSUME TypeInv, Evidence, NEW k \in Handlers, requests[k] # None, requests[k].plan \in Plans,
         Admissible(requests[k])
  PROVE  Evidenced(requests[k].plan) /\ clearances[requests[k].plan.clearance] = "stands"
<1> DEFINE plan == requests[k].plan
<1>1. AllAreOld(plan, now) /\ clearances[plan.clearance] = "stands"
  BY Zenon DEF Admissible, Cleared
<1>2. plan.clearance \in Clearances
  BY Zenon, RetentionAssumption
<1>3. Committed(plan) /\ Cover[plan.clearance].periods \subseteq closed
  BY <1>1, <1>2 DEF Evidence
<1> QED
  BY <1>1, <1>3 DEF Evidenced

\* The plans of accepted decisions.
LEMMA EvidenceAccepted ==
  ASSUME TypeInv, TypeInv', Agreement, Agreement', Evidence, [Next]_vars, NEW o \in Operations, Accepted(o)'
  PROVE  Evidenced(plans[o])'
<1>1. plans'[o] \in Plans
  BY Zenon DEF TypeInv, Agreement, Accepted
<1>2. CASE Accepted(o) /\ plans'[o] = plans[o]
  <2>1. plans[o] \in Plans /\ Evidenced(plans[o])
    BY <1>1, <1>2 DEF Evidence
  <2>2. /\ \A s \in plans[o].from..plans[o].through : ReceivedAt[s] + HotDays[plans[o].policy] <= now'
        /\ \A c \in Required[plans[o].policy] : committed'[c] >= plans[o].through
        /\ Cover[plans[o].clearance].periods \subseteq closed'
    BY <2>1, EvidenceStays DEF Evidenced, AllAreOld, Committed
  <2> QED
    BY Zenon, <1>2, <2>2 DEF Evidenced, AllAreOld, Committed
<1>3. CASE ~(Accepted(o) /\ plans'[o] = plans[o])
  <2>1. PICK k \in Handlers : /\ RequestOperation(k) /\ Admissible(requests[k])
                              /\ requests[k].operation = o /\ requests[k] # None
                              /\ requests[k].plan \in Plans /\ plans'[o] = requests[k].plan
    BY <1>3, Admission
  <2>2. UNCHANGED <<committed, closed, now>>
    BY Zenon, <2>1 DEF RequestOperation, worldVars
  <2>3. Evidenced(requests[k].plan)
    BY <2>1, EvidenceAdmitted
  <2> QED
    BY <2>1, <2>2, <2>3 DEF Evidenced, AllAreOld, Committed
<1> QED
  BY <1>2, <1>3

\* The records that are gone.
LEMMA EvidenceRetired ==
  ASSUME TypeInv, Agreement, Evidence, [Next]_vars, NEW s \in retired'
  PROVE  \E o \in Operations : logger'[o] = "completed" /\ s \in RangeOf(plans'[o])
<1>1. ASSUME NEW o \in Operations, logger[o] = "completed"
      PROVE  logger'[o] = "completed" /\ plans'[o] = plans[o]
  <2>1. operations[o] \notin {"absent", "ABORTED"}
    BY <1>1 DEF Agreement
  <2>2. logger'[o] = "completed"
    <3>1. CASE logger' = logger
      BY <1>1, <3>1
    <3>2. ASSUME NEW x \in Operations, LoggerAuthorizes(x) \/ LoggerApplies(x) \/ LoggerAborts(x)
          PROVE  logger'[o] = "completed"
      BY Zenon, <1>1, <3>2 DEF LoggerAuthorizes, LoggerApplies, LoggerAborts, TypeInv
    <3> QED
      BY Zenon, <3>1, <3>2 DEF Next, Resolving, PutPolicy, ApproveRecovery, SetActive, PutClearance, RevokeClearance,
           PutHold, ReleaseHold, RequestOperation, AskConsumers, RequestAbortPlan, ReadTerminal, Resolve,
           ClosePeriod, Commit, Tick, vars, worldVars
  <2>3. plans'[o] = plans[o]
    <3>1. CASE plans' = plans
      BY <3>1
    <3>2. ASSUME NEW k \in Handlers, RequestOperation(k)
          PROVE  plans'[o] = plans[o]
      BY Zenon, <2>1, <3>2 DEF RequestOperation, Admissible, NotDecided, TypeInv
    <3>3. ASSUME NEW x \in Operations, NEW plan \in Plans, RequestAbortPlan(x, plan)
          PROVE  plans'[o] = plans[o]
      BY <2>1, <3>3 DEF RequestAbortPlan, TypeInv
    <3> QED
      BY Zenon, <3>1, <3>2, <3>3 DEF Next, Resolving, PutPolicy, ApproveRecovery, SetActive, PutClearance,
           RevokeClearance, PutHold, ReleaseHold, AskConsumers, ReadTerminal, Resolve, LoggerAuthorizes,
           LoggerApplies, LoggerAborts, ClosePeriod, Commit, Tick, vars, billingVars
  <2> QED
    BY <2>2, <2>3
<1>2. CASE s \in retired
  <2>1. PICK o \in Operations : logger[o] = "completed" /\ s \in RangeOf(plans[o])
    BY <1>2 DEF Evidence
  <2> QED
    BY <1>1, <2>1
<1>3. CASE s \notin retired
  <2>1. PICK o \in Operations : LoggerApplies(o)
    BY Zenon, <1>3 DEF Next, Resolving, PutPolicy, ApproveRecovery, SetActive, PutClearance, RevokeClearance,
         PutHold, ReleaseHold, RequestOperation, AskConsumers, RequestAbortPlan, ReadTerminal, Resolve,
         LoggerAuthorizes, LoggerAborts, ClosePeriod, Commit, Tick, vars, worldVars
  <2>2. logger'[o] = "completed" /\ plans' = plans /\ s \in RangeOf(plans[o])
    BY Zenon, <1>3, <2>1 DEF LoggerApplies, TypeInv, billingVars, RangeOf
  <2> QED
    BY <2>2
<1> QED
  BY <1>2, <1>3

\* Evidence is an invariant: what it says is looked at or only grows.
THEOREM EvidenceInvariance == Spec => []Evidence
<1>1. Init => Evidence
  BY DEF Init, Evidence, Accepted
<1>2. IInv /\ IInv' /\ Evidence /\ [Next]_vars => Evidence'
  <2> SUFFICES ASSUME IInv, IInv', Evidence, [Next]_vars PROVE Evidence'
    OBVIOUS
  <2>1. TypeInv /\ TypeInv' /\ Agreement /\ Agreement'
    BY DEF IInv
  <2>2. /\ \A c \in Clearances : clearances'[c] # "absent" => Cover[c].periods \subseteq closed'
        /\ \A k \in Handlers : requests'[k] # None => Committed(requests[k].plan)'
    BY <2>1, EvidenceGathered
  <2>3. \A o \in Operations : Accepted(o)' => Evidenced(plans[o])'
    BY <2>1, EvidenceAccepted
  <2>4. \A s \in retired' : \E o \in Operations : logger'[o] = "completed" /\ s \in RangeOf(plans'[o])
    BY <2>1, EvidenceRetired
  <2> QED
    BY <2>2, <2>3, <2>4 DEF Evidence, RangeOf
<1> QED
  BY <1>1, <1>2, Invariance, PTL DEF Spec

\* A record that is gone was old enough for the policy of its decision, committed
\* by every consumer the policy names, and of closed periods only.
THEOREM EvidencedRetirement == Spec => []RetiredIsEvidenced
<1>1. IInv /\ Evidence => RetiredIsEvidenced
  <2> SUFFICES ASSUME IInv, Evidence, NEW s \in retired
               PROVE  \E o \in Operations :
                        /\ logger[o] = "completed" /\ s \in RangeOf(plans[o])
                        /\ ReceivedAt[s] + HotDays[plans[o].policy] <= now
                        /\ \A c \in Required[plans[o].policy] : committed[c] >= s
                        /\ Cover[plans[o].clearance].periods \subseteq closed
    BY DEF RetiredIsEvidenced
  <2>1. PICK o \in Operations : logger[o] = "completed" /\ s \in RangeOf(plans[o])
    BY DEF Evidence
  <2>2. Accepted(o)
    BY <2>1 DEF IInv, Agreement, TypeInv, OperationStatus, Accepted
  <2>3. Evidenced(plans[o]) /\ plans[o] \in Plans
    BY <2>2 DEF Evidence, IInv, Agreement, TypeInv, Accepted
  <2>4. s <= plans[o].through /\ s \in Int /\ plans[o].through \in Nat /\ plans[o].policy \in Policies
    BY <2>1, <2>3, RetentionAssumption DEF RangeOf, SequenceNumbers
  <2>5. \A c \in Required[plans[o].policy] : committed[c] >= s
    <3>1. \A c \in Required[plans[o].policy] : committed[c] \in Nat
      BY <2>4 DEF IInv, TypeInv, Consumers
    <3> QED
      BY <2>3, <2>4, <3>1 DEF Evidenced, Committed
  <2> QED
    BY <2>1, <2>3, <2>5 DEF Evidenced, AllAreOld, RangeOf
<1> QED
  BY <1>1, EvidenceInvariance, Invariance, PTL

-----------------------------------------------------------------------------
(* Order *)

\* A decision whose range Logger has removed, and Billing does not yet know.
Applied == {x \in Operations : Fencing(x) /\ logger[x] = "completed"}

\* n is the frontier: completed operations reach up to it, the open one begins
\* after it, and what is gone is what they cover.
AtFrontier(n) ==
  /\ n \in Frontier \cup {0} /\ \A s \in Frontier : s <= n
  /\ \A o \in Operations : Fencing(o) => plans[o].from = n + 1
  /\ retired = 1..n \cup UNION {RangeOf(plans[o]) : o \in Applied}

Disjoint ==
  \A o, x \in Operations :
    o # x /\ Accepted(o) /\ Accepted(x) => RangeOf(plans[o]) \cap RangeOf(plans[x]) = {}

Order == Disjoint /\ \E n \in Nat : AtFrontier(n)

\* A plan is a range of sequence numbers.
LEMMA PlanBounds ==
  ASSUME NEW plan \in Plans
  PROVE  plan.from \in Nat \ {0} /\ plan.through \in Nat /\ plan.from <= plan.through
BY RetentionAssumption DEF SequenceNumbers

\* The plan of an accepted operation, with the bounds of a range.
LEMMA AcceptedPlan ==
  ASSUME TypeInv, Agreement, NEW o \in Operations, Accepted(o)
  PROVE  /\ plans[o] \in Plans
         /\ plans[o].from \in Nat \ {0} /\ plans[o].through \in Nat /\ plans[o].from <= plans[o].through
<1>1. plans[o] \in Plans
  BY DEF TypeInv, Agreement, Accepted
<1> QED
  BY <1>1, PlanBounds

\* Nothing but a request, a cancellation, a resolution or Logger at work changes
\* what the order of the records depends on.
LEMMA OrderStutters ==
  ASSUME Order, UNCHANGED <<operations, plans, retired>>, Applied' = Applied
  PROVE  Order'
<1>1. PICK n \in Nat : AtFrontier(n)
  BY DEF Order
<1>2. Frontier' = Frontier
  BY DEF Frontier
<1>3. AtFrontier(n)'
  BY <1>1, <1>2 DEF AtFrontier, Fencing, RangeOf
<1>4. Disjoint'
  BY DEF Order, Disjoint, Accepted, RangeOf
<1> QED
  BY <1>3, <1>4 DEF Order

\* An admission: no decision is open, and the plan begins right after the frontier.
LEMMA OrderAdmits ==
  ASSUME TypeInv, Agreement, Order, NEW k \in Handlers, RequestOperation(k), Admissible(requests[k])
  PROVE  Order'
<1> DEFINE o == requests[k].operation
           plan == requests[k].plan
<1>1. PICK n \in Nat : AtFrontier(n)
  BY DEF Order
<1>2. /\ o \in Operations /\ plan \in Plans /\ operations[o] = "absent"
      /\ operations' = [operations EXCEPT ![o] = "ACTIVE"] /\ plans' = [plans EXCEPT ![o] = plan]
      /\ retired' = retired /\ logger' = logger
  BY DEF RequestOperation, Admissible, NotDecided, TypeInv, worldVars
<1>bounds. plan.from \in Nat \ {0} /\ plan.through \in Nat
  BY <1>2, PlanBounds
<1>3. /\ operations'[o] = "ACTIVE" /\ plans'[o] = plan
      /\ \A x \in Operations \ {o} : operations'[x] = operations[x] /\ plans'[x] = plans[x]
  BY Zenon, <1>2 DEF TypeInv
<1>4. \A x \in Operations : ~Fencing(x)
  BY DEF Admissible, NotBlocked
<1>5. Frontier' = Frontier
  BY <1>2, <1>3 DEF Frontier
<1>6. plan.from = n + 1
  <2>1. plan.from - 1 \in Frontier \cup {0} /\ \A s \in Frontier : s < plan.from
    BY DEF Admissible, FollowsFrontier
  <2>2. n \in Frontier \cup {0} /\ \A s \in Frontier : s <= n
    BY <1>1 DEF AtFrontier
  <2>3. plan.from - 1 <= n
    BY <1>bounds, <2>1, <2>2
  <2>4. n < plan.from
    BY <1>bounds, <2>1, <2>2
  <2> QED
    BY <1>bounds, <2>3, <2>4
<1>7. Applied = {} /\ Applied' = {}
  <2>1. logger[o] # "completed"
    BY <1>2 DEF Agreement
  <2> QED
    BY <1>2, <1>3, <1>4, <2>1 DEF Applied, Fencing
<1>8. AtFrontier(n)'
  BY <1>1, <1>2, <1>3, <1>4, <1>5, <1>6, <1>7 DEF AtFrontier, Fencing
<1>9. ASSUME NEW x \in Operations \ {o}, Accepted(x)
      PROVE  RangeOf(plan) \cap RangeOf(plans[x]) = {}
  <2>1. plans[x].through \in Frontier
    BY <1>4, <1>9 DEF Accepted, Fencing, Frontier
  <2>2. plans[x].through <= n
    BY Zenon, <1>1, <2>1 DEF AtFrontier
  <2>3. plans[x].from \in Nat /\ plans[x].through \in Nat
    BY <1>9, AcceptedPlan
  <2> QED
    BY <1>bounds, <1>6, <2>2, <2>3 DEF RangeOf
<1>10. Disjoint'
  <2>1. \A x \in Operations \ {o} : Accepted(x)' => Accepted(x) /\ RangeOf(plans'[x]) = RangeOf(plans[x])
    BY <1>3 DEF Accepted
  <2> HIDE DEF o, plan
  <2> QED
    BY Zenon, <1>3, <1>9, <2>1 DEF Order, Disjoint
<1> QED
  BY <1>8, <1>10 DEF Order

\* A cancellation leaves what is accepted, and what is open, as it is.
LEMMA OrderCancels ==
  ASSUME TypeInv, Agreement, Order, NEW o \in Operations, NEW plan \in Plans, RequestAbortPlan(o, plan)
  PROVE  Order'
<1>1. PICK n \in Nat : AtFrontier(n)
  BY DEF Order
<1> DEFINE Open == {"ACTIVE", "ABORT_REQUESTED"}
<1>2. \A x \in Operations :
        /\ operations'[x] \in Open <=> operations[x] \in Open
        /\ operations'[x] = "COMPLETED" <=> operations[x] = "COMPLETED"
        /\ operations[x] \in Open \cup {"COMPLETED"} => plans'[x] = plans[x]
  <2>1. CASE operations[o] = "absent"
    BY Zenon, <2>1 DEF RequestAbortPlan, TypeInv
  <2>2. CASE operations[o] = "ACTIVE"
    BY <2>2 DEF RequestAbortPlan, TypeInv
  <2> QED
    BY <2>1, <2>2 DEF RequestAbortPlan
<1>3. retired' = retired /\ logger' = logger
  BY DEF RequestAbortPlan, worldVars
<1>4. Frontier' = Frontier
  BY <1>2 DEF Frontier
<1>5. Applied' = Applied
  BY <1>2, <1>3 DEF Applied, Fencing
<1>6. {RangeOf(plans'[x]) : x \in Applied} = {RangeOf(plans[x]) : x \in Applied}
  BY <1>2 DEF Applied, Fencing
<1>7. \A x \in Operations : operations'[x] \in Open => plans'[x].from = n + 1
  BY <1>1, <1>2 DEF AtFrontier, Fencing
<1>8. AtFrontier(n)'
  BY Zenon, <1>1, <1>3, <1>4, <1>5, <1>6, <1>7 DEF AtFrontier, Fencing, RangeOf
<1>9. Disjoint'
  BY <1>2 DEF Order, Disjoint, Accepted, RangeOf
<1> QED
  BY <1>8, <1>9 DEF Order

\* A resolution: the frontier moves over a range that is gone, or stays.
LEMMA OrderResolves ==
  ASSUME TypeInv, Agreement, Order,
         NEW o \in Operations, NEW outcome \in Outcomes, Resolve(o, outcome), Fencing(o)
  PROVE  Order'
<1>1. PICK n \in Nat : AtFrontier(n)
  BY DEF Order
<1>2. /\ operations' = [operations EXCEPT ![o] = IF outcome = "aborted" THEN "ABORTED" ELSE "COMPLETED"]
      /\ plans' = plans /\ retired' = retired /\ logger' = logger /\ logger[o] = outcome
  BY Zenon DEF Resolve, worldVars, Agreement, Outcomes
<1>3. \A x \in Operations : (Fencing(x) => x = o) /\ ~Fencing(x)'
  BY <1>2 DEF Agreement, Fencing, TypeInv
<1>4. Applied' = {}
  BY <1>3 DEF Applied
<1>5. Accepted(o) /\ \A x \in Operations : Accepted(x)' => Accepted(x)
  BY <1>2 DEF Accepted, Fencing, TypeInv
<1>6. Disjoint'
  BY Zenon, <1>2, <1>5 DEF Order, Disjoint, RangeOf
<1>7. CASE outcome = "aborted"
  <2>1. Applied = {}
    BY <1>2, <1>3, <1>7 DEF Applied
  <2>2. Frontier' = Frontier
    BY Zenon, <1>2, <1>7 DEF Frontier, Fencing, TypeInv
  <2>3. AtFrontier(n)'
    BY Zenon, <1>1, <1>2, <1>3, <1>4, <2>1, <2>2 DEF AtFrontier
  <2> QED
    BY <1>6, <2>3 DEF Order
<1>8. CASE outcome = "completed"
  <2> DEFINE m == plans[o].through
  <2>0. plans[o].from \in Nat /\ m \in Nat /\ plans[o].from <= m
    BY <1>5, AcceptedPlan
  <2>start. plans[o].from = n + 1
    BY Zenon, <1>1 DEF AtFrontier
  <2>1. plans[o].from = n + 1 /\ m \in Nat /\ n < m
    BY <2>0, <2>start
  <2>2. Frontier' = Frontier \cup {m}
    BY Zenon, <1>2, <1>8 DEF Frontier, Fencing, TypeInv
  <2>3. m \in Frontier' \cup {0} /\ \A s \in Frontier' : s <= m
    <3>1. \A s \in Frontier : s <= n /\ s \in Nat
      <4>1. \A x \in Operations : operations[x] = "COMPLETED" => plans[x].through \in Nat
        BY AcceptedPlan DEF Accepted
      <4> QED
        BY <1>1, <4>1 DEF AtFrontier, Frontier
    <3> HIDE DEF m
    <3> QED
      BY <2>1, <2>2, <3>1
  <2>4. Applied = {o}
    BY <1>2, <1>3, <1>8 DEF Applied
  <2>5. UNION {RangeOf(plans[x]) : x \in Applied} = RangeOf(plans[o])
    BY <2>4
  <2>6. 1..n \cup RangeOf(plans[o]) = 1..m
    BY <2>1 DEF RangeOf
  <2>7. retired' = 1..m
    BY <1>1, <1>2, <2>5, <2>6 DEF AtFrontier
  <2>8. AtFrontier(m)'
    BY <1>2, <1>3, <1>4, <2>3, <2>7 DEF AtFrontier
  <2> QED
    BY Zenon, <1>6, <2>1, <2>8, <1>2 DEF Order
<1> QED
  BY <1>7, <1>8 DEF Outcomes

\* Logger removes the range of the open decision, which begins at the frontier.
LEMMA OrderApplies ==
  ASSUME TypeInv, Agreement, Order, NEW o \in Operations, LoggerApplies(o)
  PROVE  Order'
<1>1. PICK n \in Nat : AtFrontier(n)
  BY DEF Order
<1>2. /\ logger' = [logger EXCEPT ![o] = "completed"] /\ retired' = retired \cup RangeOf(plans[o])
      /\ operations' = operations /\ plans' = plans /\ logger[o] = "authorized"
  BY DEF LoggerApplies, billingVars, RangeOf
<1>3. Fencing(o)
  BY <1>2 DEF Agreement, TypeInv, OperationStatus, Fencing
<1>4. Applied = {} /\ Applied' = {o}
  BY <1>2, <1>3 DEF Applied, Agreement, Fencing, TypeInv
<1>5. UNION {RangeOf(plans[x]) : x \in {o}} = RangeOf(plans[o])
  OBVIOUS
<1>6. Frontier' = Frontier /\ \A x \in Operations : Fencing(x)' <=> Fencing(x)
  BY <1>2 DEF Frontier, Fencing
<1>7. AtFrontier(n)'
  BY <1>1, <1>2, <1>4, <1>5, <1>6 DEF AtFrontier, RangeOf
<1>8. Disjoint'
  BY Zenon, <1>2 DEF Order, Disjoint, Accepted, RangeOf
<1> QED
  BY <1>7, <1>8 DEF Order

\* Every step keeps the order.
LEMMA OrderStep ==
  ASSUME TypeInv, Agreement, Order, [Next]_vars
  PROVE  Order'
<1>1. ASSUME NEW k \in Handlers, RequestOperation(k)
      PROVE  Order'
  <2>1. CASE ~Admissible(requests[k])
    <3>1. UNCHANGED <<operations, plans, retired, logger>>
      BY <1>1, <2>1 DEF RequestOperation, worldVars
    <3> QED
      BY <3>1, OrderStutters DEF Applied, Fencing
  <2> QED
    BY <1>1, <2>1, OrderAdmits
<1>2. ASSUME NEW o \in Operations, NEW outcome \in Outcomes, Resolve(o, outcome)
      PROVE  Order'
  <2>1. CASE ~Fencing(o)
    <3>1. UNCHANGED <<operations, plans, retired, logger>>
      BY <1>2, <2>1 DEF Resolve, worldVars
    <3> QED
      BY <3>1, OrderStutters DEF Applied, Fencing
  <2> QED
    BY <1>2, <2>1, OrderResolves
<1>3. ASSUME NEW o \in Operations, LoggerAuthorizes(o) \/ LoggerAborts(o)
      PROVE  Order'
  <2>1. UNCHANGED <<operations, plans, retired>>
    BY <1>3 DEF LoggerAuthorizes, LoggerAborts, billingVars
  <2>2. \A x \in Operations : logger'[x] = "completed" <=> logger[x] = "completed"
    BY <1>3 DEF LoggerAuthorizes, LoggerAborts, TypeInv
  <2>3. Applied' = Applied
    BY <2>1, <2>2 DEF Applied, Fencing
  <2> QED
    BY <2>1, <2>3, OrderStutters
<1>4. CASE \/ \E p \in Policies : PutPolicy(p) \/ ApproveRecovery(p) \/ \E active \in BOOLEAN : SetActive(p, active)
           \/ \E c \in Clearances : PutClearance(c) \/ RevokeClearance(c)
           \/ \E h \in Holds : PutHold(h) \/ ReleaseHold(h)
           \/ \E k \in Handlers, x \in Operations, plan \in Plans, at \in 0..MaxTime : AskConsumers(k, x, plan, at)
           \/ \E x \in Operations : ReadTerminal(x)
           \/ \E p \in Periods : ClosePeriod(p)
           \/ \E c \in Consumers : Commit(c)
           \/ Tick \/ UNCHANGED vars
  <2>1. UNCHANGED <<operations, plans, retired, logger>>
    BY Zenon, <1>4 DEF PutPolicy, ApproveRecovery, SetActive, PutClearance, RevokeClearance, PutHold,
         ReleaseHold, AskConsumers, ReadTerminal, ClosePeriod, Commit, Tick, vars, billingVars, worldVars
  <2> QED
    BY <2>1, OrderStutters DEF Applied, Fencing
<1> QED
  BY <1>1, <1>2, <1>3, <1>4, OrderCancels, OrderApplies DEF Next, Resolving, Outcomes

\* The order gives what is asked: a prefix is gone, and decisions share nothing.
LEMMA OrderIsPrefix ==
  ASSUME TypeInv, Agreement, Order
  PROVE  RetiredIsPrefix
<1>1. PICK n \in Nat : AtFrontier(n)
  BY DEF Order
<1>2. \E m \in Nat : retired = 1..m
  <2>1. CASE Applied = {}
    <3>1. retired = 1..n
      BY <1>1, <2>1 DEF AtFrontier
    <3> QED
      BY <3>1
  <2>2. CASE Applied # {}
    <3>1. PICK o \in Operations : Applied = {o}
      BY <2>2 DEF Applied, Agreement
    <3>2. Fencing(o) /\ Accepted(o)
      BY <3>1 DEF Applied, Fencing, Accepted
    <3>3. plans[o].from = n + 1 /\ plans[o].through \in Nat /\ plans[o].from <= plans[o].through
      BY <1>1, <3>2, AcceptedPlan DEF AtFrontier
    <3>4. retired = 1..n \cup RangeOf(plans[o])
      BY <1>1, <3>1 DEF AtFrontier
    <3>5. retired = 1..plans[o].through
      BY <3>3, <3>4 DEF RangeOf
    <3> QED
      BY <3>3, <3>5
  <2> QED
    BY <2>1, <2>2
<1>3. PICK m \in Nat : retired = 1..m
  BY <1>2
<1>4. \E k \in {0} \cup retired : retired = 1..k
  BY <1>3
<1> QED
  BY Zenon, <1>4 DEF RetiredIsPrefix, Order, Disjoint, Agreement

\* The order is an invariant: a plan begins after the frontier, and ends it.
THEOREM OrderInvariance == Spec => []Order
<1>1. Init => Order
  <2> SUFFICES ASSUME Init PROVE Order
    OBVIOUS
  <2>1. Frontier = {} /\ Applied = {}
    BY DEF Init, Frontier, Applied, Fencing
  <2>2. AtFrontier(0)
    BY <2>1 DEF Init, AtFrontier, Fencing
  <2> QED
    BY <2>2 DEF Init, Order, Disjoint, Accepted
<1>2. IInv /\ Order /\ [Next]_vars => Order'
  BY OrderStep DEF IInv
<1> QED
  BY <1>1, <1>2, Invariance, PTL DEF Spec

\* Records leave in order, without gap and once, and one decision at most is open.
THEOREM RecordsLeaveInOrder == Spec => []RetiredIsPrefix
<1>1. IInv /\ Order => RetiredIsPrefix
  BY OrderIsPrefix DEF IInv
<1> QED
  BY <1>1, Invariance, OrderInvariance, PTL

-----------------------------------------------------------------------------
(* Decisions *)

OneActive == \A p, q \in Policies : policies[p] = "active" /\ policies[q] = "active" => p = q

\* At most one policy is active at a time (SetActive).
THEOREM OnePolicyActive == Spec => []OneActive
<1>1. Init => OneActive
  BY DEF Init, OneActive
<1>2. ASSUME TypeInv, OneActive, [Next]_vars
      PROVE  OneActive'
  <2>1. CASE policies' = policies
    BY <1>2, <2>1 DEF OneActive
  <2>2. ASSUME NEW p \in Policies, PutPolicy(p) \/ ApproveRecovery(p)
        PROVE  OneActive'
    BY <1>2, <2>2 DEF OneActive, PutPolicy, ApproveRecovery, TypeInv
  <2>3. ASSUME NEW p \in Policies, NEW active \in BOOLEAN, SetActive(p, active)
        PROVE  OneActive'
    <3>1. CASE active
      BY <2>3, <3>1 DEF OneActive, SetActive
    <3>2. CASE ~active
      BY <1>2, <2>3, <3>2 DEF OneActive, SetActive
    <3> QED
      BY <3>1, <3>2
  <2> QED
    BY Zenon, <1>2, <2>1, <2>2, <2>3 DEF Next, Resolving, PutClearance, RevokeClearance, PutHold, ReleaseHold,
         RequestOperation, AskConsumers, RequestAbortPlan, ReadTerminal, Resolve, LoggerAuthorizes,
         LoggerApplies, LoggerAborts, ClosePeriod, Commit, Tick, vars, billingVars
<1>3. IInv /\ OneActive /\ [Next]_vars => OneActive'
  BY <1>2 DEF IInv
<1> QED
  BY <1>1, <1>3, Invariance, PTL DEF Spec

\* An admitted plan begins after all that is gone.
LEMMA AdmittedIsThere ==
  ASSUME TypeInv, Agreement, Order, NEW r, r.plan \in Plans, Admissible(r)
  PROVE  RangeOf(r.plan) \cap retired = {}
<1>1. PICK n \in Nat : AtFrontier(n)
  BY DEF Order
<1>2. Applied = {}
  BY DEF Admissible, NotBlocked, Applied
<1>3. retired = 1..n
  BY <1>1, <1>2 DEF AtFrontier
<1>4. r.plan.from \in Nat \ {0} /\ r.plan.through \in Nat
  BY PlanBounds
<1>5. n < r.plan.from
  BY <1>1, <1>4 DEF AtFrontier, Admissible, FollowsFrontier
<1> QED
  BY <1>3, <1>4, <1>5 DEF RangeOf

\* What has to be true of a plan when it is decided on.
Decided(plan) ==
  /\ {p \in Policies : policies[p] = "active"} = {plan.policy}
  /\ clearances[plan.clearance] = "stands" /\ Cover[plan.clearance].periods \subseteq closed
  /\ \A s \in RangeOf(plan) :
       /\ ReceivedAt[s] + HotDays[plan.policy] <= now
       /\ \A c \in Required[plan.policy] : committed[c] >= s
       /\ s \notin retired
       /\ \A h \in Holds : s \in Held(h) => holds[h] \in {"absent", "RELEASED"}

\* A decision is made on what is true when it is recorded, although its evidence
\* was gathered before, for any policies, clearances, holds and handlers.
THEOREM DecisionsAreCurrent == Spec => DecidedOnCurrentEvidence
<1>1. ASSUME IInv, Evidence, Order, OneActive, [Next]_vars, NEW o \in Operations, Accepted(o)', ~Accepted(o)
      PROVE  Decided(plans'[o])
  <2>1. TypeInv /\ Agreement
    BY <1>1 DEF IInv
  <2>2. PICK k \in Handlers : /\ RequestOperation(k) /\ Admissible(requests[k])
                              /\ requests[k].operation = o /\ requests[k] # None
                              /\ requests[k].plan \in Plans /\ plans'[o] = requests[k].plan
    BY Zenon, <1>1, <2>1, Admission
  <2> DEFINE plan == requests[k].plan
  <2>3. Evidenced(plan) /\ clearances[plan.clearance] = "stands"
    BY Zenon, <1>1, <2>1, <2>2, EvidenceAdmitted
  <2>4. {p \in Policies : policies[p] = "active"} = {plan.policy}
    <3>1. plan.policy \in Policies /\ policies[plan.policy] = "active"
      BY Zenon, <2>2, RetentionAssumption DEF Admissible
    <3> QED
      BY <1>1, <3>1 DEF OneActive
  <2>5. RangeOf(plan) \cap retired = {}
    BY Zenon, <1>1, <2>1, <2>2, AdmittedIsThere
  <2>6. ASSUME NEW h \in Holds, NEW s \in RangeOf(plan), s \in Held(h)
        PROVE  holds[h] \in {"absent", "RELEASED"}
    BY Zenon, <2>2, <2>6, OverlapsIsSharing DEF Admissible, NotBlocked
  <2>7. ASSUME NEW s \in RangeOf(plan), NEW c \in Required[plan.policy]
        PROVE  committed[c] >= s
    <3>1. s <= plan.through /\ s \in Int /\ plan.through \in Nat
      BY <2>2, <2>7, PlanBounds DEF RangeOf
    <3>2. committed[c] >= plan.through /\ committed[c] \in Nat
      BY <2>1, <2>3, <2>4, <2>7 DEF Evidenced, Committed, TypeInv, Consumers
    <3> QED
      BY <3>1, <3>2
  <2>8. \A s \in RangeOf(plan) : ReceivedAt[s] + HotDays[plan.policy] <= now
    BY Zenon, <2>3 DEF Evidenced, AllAreOld, RangeOf
  <2> QED
    BY Zenon, <2>2, <2>3, <2>4, <2>5, <2>6, <2>7, <2>8 DEF Decided, Evidenced
<1>2. IInv /\ Evidence /\ Order /\ OneActive /\ [Next]_vars
      => [\A o \in Operations : Accepted(o)' /\ ~Accepted(o) => Decided(plans'[o])]_vars
  BY <1>1
<1> QED
  BY <1>2, Invariance, EvidenceInvariance, OrderInvariance, OnePolicyActive, PTL
     DEF Spec, DecidedOnCurrentEvidence, Decided
=============================================================================
