---------------------------- MODULE RawRetention ----------------------------
(***************************************************************************)
(* The authority that lets Logger remove raw billing records of one store: *)
(* policies, clearances, holds and retirement operations                   *)
(* (internal/rawretention), with the consumers and Logger it asks.         *)
(*                                                                         *)
(* Every change is made under the advisory lock of the store, so it is one *)
(* action.  RequestOperation and Resolve ask others before they take the   *)
(* lock: two actions each, with an answer in between that may age.         *)
(***************************************************************************)
EXTENDS Integers, FiniteSets

CONSTANTS
  Policies,    \* policy versions
  Required,    \* consumers each policy names
  Registered,  \* consumers the service is configured to ask
  HotDays,     \* days a record stays, by policy
  Clearances, Cover,   \* each clears a range under a policy, for periods
  Holds, Extent,       \* each covers a range; 0 to 0 is the whole store
  Operations, Plans,   \* a plan is a range under a policy and a clearance
  Handlers,    \* concurrent requests for an operation
  Periods,
  MaxSequence, ReceivedAt,   \* records of the store and when Logger received them
  Freshness,   \* how long a range proof and a consumer proof are good
  MaxTime, None

SequenceNumbers == 1..MaxSequence
Consumers == UNION {Required[p] : p \in Policies}

ASSUME RetentionAssumption ==
  /\ MaxSequence \in Nat /\ MaxTime \in Nat /\ Freshness \in Nat \ {0}
  /\ HotDays \in [Policies -> Nat] /\ ReceivedAt \in [SequenceNumbers -> Nat]
  /\ Cover \in [Clearances -> [policy : Policies, from : SequenceNumbers, through : SequenceNumbers, periods : SUBSET Periods]]
  /\ Extent \in [Holds -> [from : Nat, through : Nat]]
  /\ \A h \in Holds : Extent[h].from <= Extent[h].through
  /\ Plans \subseteq [policy : Policies, clearance : Clearances, from : SequenceNumbers, through : SequenceNumbers]
  /\ \A p \in Plans : p.from <= p.through
  /\ None \notin Plans

VARIABLES
  policies,    \* rows of billing_raw_retention_policies
  clearances, holds, operations,
  plans,       \* the plan an operation was first recorded with
  requests,    \* a handler between its two looks at the database
  receipts,    \* Logger's answers on their way to Resolve
  closed,      \* billing periods in state 'closed'
  committed,   \* what each consumer has committed
  logger,      \* an operation in Logger's own database
  retired,     \* records removed from hot storage
  now

billingVars == <<policies, clearances, holds, operations, plans>>
worldVars == <<closed, committed, logger, retired, now>>
vars == <<billingVars, requests, receipts, worldVars>>

Init ==
  /\ policies = [p \in Policies |-> "absent"]
  /\ clearances = [c \in Clearances |-> "absent"]
  /\ holds = [h \in Holds |-> "absent"]
  /\ operations = [o \in Operations |-> "absent"] /\ plans = [o \in Operations |-> None]
  /\ requests = [k \in Handlers |-> None] /\ receipts = {}
  /\ closed = {} /\ committed = [c \in Consumers |-> 0]
  /\ logger = [o \in Operations |-> "idle"] /\ retired = {} /\ now = 0

-----------------------------------------------------------------------------
(* Policies and clearances *)

PutPolicy(p) ==
  /\ Required[p] \subseteq Registered
  /\ policies[p] = "absent"
  /\ policies' = [policies EXCEPT ![p] = "put"]
  /\ UNCHANGED <<clearances, holds, operations, plans, requests, receipts, worldVars>>

ApproveRecovery(p) ==
  /\ policies[p] = "put"
  /\ policies' = [policies EXCEPT ![p] = "approved"]
  /\ UNCHANGED <<clearances, holds, operations, plans, requests, receipts, worldVars>>

\* At most one policy is active; the one before it stays approved.
SetActive(p, active) ==
  /\ policies[p] = IF active THEN "approved" ELSE "active"
  /\ policies' = [q \in Policies |-> IF q = p THEN IF active THEN "active" ELSE "approved"
                                     ELSE IF active /\ policies[q] = "active" THEN "approved"
                                     ELSE policies[q]]
  /\ UNCHANGED <<clearances, holds, operations, plans, requests, receipts, worldVars>>

PutClearance(c) ==
  /\ policies[Cover[c].policy] # "absent"
  /\ clearances[c] = "absent" /\ Cover[c].periods \subseteq closed
  /\ clearances' = [clearances EXCEPT ![c] = "stands"]
  /\ UNCHANGED <<policies, holds, operations, plans, requests, receipts, worldVars>>

RevokeClearance(c) ==
  /\ clearances[c] # "absent"
  /\ clearances' = [clearances EXCEPT ![c] = "revoked"]
  /\ UNCHANGED <<policies, holds, operations, plans, requests, receipts, worldVars>>

-----------------------------------------------------------------------------
(* Holds *)

Fencing(o) == operations[o] \in {"ACTIVE", "ABORT_REQUESTED"}

Overlaps(h, plan) ==
  Extent[h].from = 0 \/ (plan.from <= Extent[h].through /\ plan.through >= Extent[h].from)

OverlappingFence(h) == \E o \in Operations : Fencing(o) /\ Overlaps(h, plans[o])

PutHold(h) ==
  /\ holds[h] = "absent"
  /\ holds' = [holds EXCEPT ![h] = IF OverlappingFence(h) THEN "PENDING_FENCED" ELSE "ACTIVE"]
  /\ UNCHANGED <<policies, clearances, operations, plans, requests, receipts, worldVars>>

ReleaseHold(h) ==
  /\ holds[h] \notin {"absent", "RELEASED"}
  /\ holds' = [holds EXCEPT ![h] = IF OverlappingFence(h) THEN "RELEASE_PENDING" ELSE "RELEASED"]
  /\ UNCHANGED <<policies, clearances, operations, plans, requests, receipts, worldVars>>

-----------------------------------------------------------------------------
(* Operations *)

\* verifyArchive: the newest record of the range is old enough.
AllAreOld(plan, at) ==
  \A s \in plan.from..plan.through : ReceivedAt[s] + HotDays[plan.policy] <= at

Fresh(at) == at <= now /\ now < at + Freshness

\* The first look, without the lock: evidence is gathered if there is no such
\* operation yet and the policy is active.  A proof is as old as it may be.
AskConsumers(k, o, plan, at) ==
  /\ requests[k] = None /\ operations[o] = "absent"
  /\ policies[plan.policy] = "active"
  /\ AllAreOld(plan, now) /\ Fresh(at)
  /\ Required[plan.policy] \subseteq Registered
  /\ \A c \in Required[plan.policy] : committed[c] >= plan.through
  /\ requests' = [requests EXCEPT ![k] = [operation |-> o, plan |-> plan, at |-> at]]
  /\ UNCHANGED <<billingVars, receipts, worldVars>>

Cleared(plan) ==
  LET c == plan.clearance
  IN /\ clearances[c] = "stands" /\ Cover[c].policy = plan.policy
     /\ Cover[c].from <= plan.from /\ Cover[c].through >= plan.through

Frontier == {plans[o].through : o \in {x \in Operations : operations[x] = "COMPLETED"}}

\* Mutant: the range begins after some completed one.
FollowsSome(plan) == plan.from - 1 \in Frontier \cup {0}

FollowsFrontier(plan) == /\ plan.from - 1 \in Frontier \cup {0}
                         /\ \A s \in Frontier : s < plan.from

\* Mutant: holds were looked at before the consumers were asked.
NoHoldRemembered(plan) == \A o \in Operations : ~Fencing(o)

NotBlocked(plan) ==
  /\ \A h \in Holds : holds[h] \notin {"absent", "RELEASED"} => ~Overlaps(h, plan)
  /\ \A o \in Operations : ~Fencing(o)

NotDecided(o) == operations[o] = "absent"

\* Mutant: the policy is the one that was active when the consumers were asked.
AdmissibleUnderOldPolicy(r) ==
  /\ NotDecided(r.operation)
  /\ AllAreOld(r.plan, now) /\ Fresh(r.at)
  /\ Cleared(r.plan) /\ NotBlocked(r.plan) /\ FollowsFrontier(r.plan)

\* The second look, under the lock.
Admissible(r) ==
  /\ NotDecided(r.operation)
  /\ policies[r.plan.policy] = "active"
  /\ AllAreOld(r.plan, now) /\ Fresh(r.at)
  /\ Cleared(r.plan) /\ NotBlocked(r.plan) /\ FollowsFrontier(r.plan)

RequestOperation(k) ==
  /\ requests[k] # None
  /\ LET r == requests[k] IN
       IF Admissible(r)
       THEN /\ operations' = [operations EXCEPT ![r.operation] = "ACTIVE"]
            /\ plans' = [plans EXCEPT ![r.operation] = r.plan]
       ELSE UNCHANGED <<operations, plans>>
  /\ requests' = [requests EXCEPT ![k] = None]
  /\ UNCHANGED <<policies, clearances, holds, receipts, worldVars>>

\* What the end of an operation does to the holds that waited for it.
Finalized ==
  [h \in Holds |-> IF holds[h] = "PENDING_FENCED" THEN "ACTIVE"
                   ELSE IF holds[h] = "RELEASE_PENDING" THEN "RELEASED" ELSE holds[h]]

\* Mutant: the decision is withdrawn without Logger.
AbortAtOnce(o, plan) ==
  /\ operations[o] \in {"absent", "ACTIVE"} /\ plans[o] \in {None, plan}
  /\ operations' = [operations EXCEPT ![o] = "ABORTED"]
  /\ plans' = [plans EXCEPT ![o] = plan]
  /\ holds' = IF operations[o] = "ACTIVE" THEN Finalized ELSE holds
  /\ UNCHANGED <<policies, clearances, requests, receipts, worldVars>>

\* A plan Billing never accepted is canceled for good; a decision is only
\* marked, and goes on fencing.
RequestAbortPlan(o, plan) ==
  /\ \/ /\ operations[o] = "absent"
        /\ operations' = [operations EXCEPT ![o] = "ABORTED"]
        /\ plans' = [plans EXCEPT ![o] = plan]
     \/ /\ operations[o] = "ACTIVE" /\ plans[o] = plan
        /\ operations' = [operations EXCEPT ![o] = "ABORT_REQUESTED"]
        /\ UNCHANGED plans
  /\ UNCHANGED <<policies, clearances, holds, requests, receipts, worldVars>>

\* Mutant: an operation that was asked to abort is not asked about.
ReadTerminalOfActive(o) ==
  /\ operations[o] = "ACTIVE" /\ logger[o] \in {"completed", "aborted"}
  /\ <<o, logger[o]>> \notin receipts
  /\ receipts' = receipts \cup {<<o, logger[o]>>}
  /\ UNCHANGED <<billingVars, requests, worldVars>>

\* EvidenceClient.Terminal.
ReadTerminal(o) ==
  /\ Fencing(o) /\ logger[o] \in {"completed", "aborted"}
  /\ <<o, logger[o]>> \notin receipts
  /\ receipts' = receipts \cup {<<o, logger[o]>>}
  /\ UNCHANGED <<billingVars, requests, worldVars>>

\* An operation another Resolve ended has its receipt: nothing is written.
Resolve(o, outcome) ==
  /\ <<o, outcome>> \in receipts
  /\ receipts' = receipts \ {<<o, outcome>>}
  /\ IF Fencing(o)
     THEN /\ operations' = [operations EXCEPT ![o] = IF outcome = "aborted" THEN "ABORTED" ELSE "COMPLETED"]
          /\ holds' = Finalized
     ELSE UNCHANGED <<operations, holds>>
  /\ UNCHANGED <<policies, clearances, plans, requests, worldVars>>

\* The Resolve of the code, over and over.
Resolving(o) == ReadTerminal(o) \/ \E outcome \in {"completed", "aborted"} : Resolve(o, outcome)

-----------------------------------------------------------------------------
(* The world around *)

ClosePeriod(p) ==
  /\ p \notin closed /\ closed' = closed \cup {p}
  /\ UNCHANGED <<billingVars, requests, receipts, committed, logger, retired, now>>

Commit(c) ==
  /\ committed[c] < MaxSequence
  /\ committed' = [committed EXCEPT ![c] = @ + 1]
  /\ UNCHANGED <<billingVars, requests, receipts, closed, logger, retired, now>>

\* Logger reads the decision, and applies it later unless it was aborted there.
LoggerAuthorizes(o) ==
  /\ logger[o] = "idle" /\ operations[o] = "ACTIVE"
  /\ logger' = [logger EXCEPT ![o] = "authorized"]
  /\ UNCHANGED <<billingVars, requests, receipts, closed, committed, retired, now>>

LoggerApplies(o) ==
  /\ logger[o] = "authorized"
  /\ logger' = [logger EXCEPT ![o] = "completed"]
  /\ retired' = retired \cup plans[o].from..plans[o].through
  /\ UNCHANGED <<billingVars, requests, receipts, closed, committed, now>>

LoggerAborts(o) ==
  /\ logger[o] \in {"idle", "authorized"}
  /\ logger' = [logger EXCEPT ![o] = "aborted"]
  /\ UNCHANGED <<billingVars, requests, receipts, closed, committed, retired, now>>

Tick ==
  /\ now < MaxTime /\ now' = now + 1
  /\ UNCHANGED <<billingVars, requests, receipts, closed, committed, logger, retired>>

Next ==
  \/ \E p \in Policies : PutPolicy(p) \/ ApproveRecovery(p) \/ \E active \in BOOLEAN : SetActive(p, active)
  \/ \E c \in Clearances : PutClearance(c) \/ RevokeClearance(c)
  \/ \E h \in Holds : PutHold(h) \/ ReleaseHold(h)
  \/ \E k \in Handlers : \/ RequestOperation(k)
                         \/ \E o \in Operations, plan \in Plans, at \in 0..MaxTime : AskConsumers(k, o, plan, at)
  \/ \E o \in Operations :
       \/ \E plan \in Plans : RequestAbortPlan(o, plan)
       \/ Resolving(o)
       \/ LoggerAuthorizes(o) \/ LoggerApplies(o) \/ LoggerAborts(o)
  \/ (\E p \in Periods : ClosePeriod(p)) \/ (\E c \in Consumers : Commit(c)) \/ Tick

Spec == Init /\ [][Next]_vars

\* The controller repeats its request to resolve until it is answered.
FairSpec == Spec /\ \A o \in Operations : WF_vars(Resolving(o))

-----------------------------------------------------------------------------
(* Properties *)

RangeOf(plan) == plan.from..plan.through
Held(h) == IF Extent[h].from = 0 THEN SequenceNumbers ELSE Extent[h].from..Extent[h].through
InForce(h) == \E o \in Operations : Fencing(o) /\ Held(h) \cap RangeOf(plans[o]) # {}

\* The hold protocol has no gap: an active hold covers no record that a decision
\* in force may still remove, whichever came first, and a hold or a release is
\* kept waiting only while such a decision is open
\* (store.go:282-386, :529-536 and :657-661).
HoldsAndDecisionsExclude ==
  \A h \in Holds :
    /\ holds[h] = "ACTIVE" => ~InForce(h)
    /\ holds[h] \in {"PENDING_FENCED", "RELEASE_PENDING"} => InForce(h)

Accepted(o) == operations[o] \in {"ACTIVE", "ABORT_REQUESTED", "COMPLETED"}

\* Records leave in order, without gap and once: what Logger removed is a prefix
\* of the store, no two accepted decisions share a record, and at most one is
\* open (store.go:529-544).
RetiredIsPrefix ==
  /\ \E n \in {0} \cup retired : retired = 1..n
  /\ \A o, x \in Operations :
       o # x /\ Accepted(o) /\ Accepted(x) => /\ RangeOf(plans[o]) \cap RangeOf(plans[x]) = {}
                                             /\ ~(Fencing(o) /\ Fencing(x))

\* Denied means denied: once Billing records an operation as aborted, by a
\* receipt or because it never accepted it, Logger neither removed its range
\* nor holds a permission to (store.go:564-614).
AbortedIsNeverApplied ==
  \A o \in Operations : operations[o] = "ABORTED" => logger[o] \in {"idle", "aborted"}

\* A decision is made on what is true when it is recorded, however much changed
\* since its evidence was gathered without the lock: its policy is the one that
\* is active, its clearance stands and is for closed periods, and each record of
\* its range is old enough, with every required consumer, still there and free
\* of holds (store.go:477-544).
DecidedOnCurrentEvidence ==
  [][\A o \in Operations : Accepted(o)' /\ ~Accepted(o) =>
       LET plan == plans'[o]
       IN /\ {p \in Policies : policies[p] = "active"} = {plan.policy}
          /\ clearances[plan.clearance] = "stands" /\ Cover[plan.clearance].periods \subseteq closed
          /\ \A s \in RangeOf(plan) :
               /\ ReceivedAt[s] + HotDays[plan.policy] <= now
               /\ \A c \in Required[plan.policy] : committed[c] >= s
               /\ s \notin retired
               /\ \A h \in Holds : s \in Held(h) => holds[h] \in {"absent", "RELEASED"}]_vars

\* Whatever changed while evidence was on its way, a removed record was old
\* enough for the policy of its decision, every required consumer has it, and
\* the periods of the clearance are closed (store.go:465-528).
RetiredIsEvidenced ==
  \A s \in retired :
    \E o \in Operations :
      /\ logger[o] = "completed" /\ s \in RangeOf(plans[o])
      /\ ReceivedAt[s] + HotDays[plans[o].policy] <= now
      /\ \A c \in Required[plans[o].policy] : committed[c] >= s
      /\ Cover[plans[o].clearance].periods \subseteq closed

\* A decision is never revised: a recorded plan stays, an ended operation is
\* not revived by a request that was under way, and a request to abort is not
\* taken back (guard_raw_retention_operation; store.go:489-498 and :600-605).
DecisionIsFinal ==
  [][\A o \in Operations :
       /\ plans[o] # None => plans'[o] = plans[o]
       /\ operations[o] \in {"COMPLETED", "ABORTED"} => operations'[o] = operations[o]
       /\ operations[o] = "ABORT_REQUESTED" => operations'[o] # "ACTIVE"]_vars

\* A hold or a release that had to wait is settled once Logger has ended the
\* operation it waits for (store.go:657-661).
QueuedHoldsSettle ==
  \A h \in Holds :
    (/\ holds[h] \in {"PENDING_FENCED", "RELEASE_PENDING"}
     /\ \E o \in Operations : Fencing(o) /\ logger[o] \in {"completed", "aborted"})
    ~> holds[h] \in {"ACTIVE", "RELEASED"}
=============================================================================
