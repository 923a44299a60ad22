----------------------------- MODULE UsageIntake -----------------------------
(***************************************************************************)
(* Usage facts and OTA period seals, as producers deliver them.            *)
(*                                                                         *)
(* PutUsageFact is two transactions: a check, then an insert behind the    *)
(* trigger usage_period_barrier, which takes the account lock and looks at *)
(* the periods again.  Others run between the two.  A request may be sent  *)
(* again, by a producer that saw no answer, and may differ from the first. *)
(***************************************************************************)
EXTENDS PriceBook

CONSTANTS
  UsageIDs,
  Rows,        \* contents of a fact: window, metric, product, object, granted
  Products,
  Periods,     \* the windows callers close, <<start, end>>; they may overlap
  Months,      \* the windows sources seal
  MaxPosts     \* bound on calls between the check and the insert

ASSUME UsageAssumption ==
  /\ MaxPosts \in Nat /\ None \notin Rows
  /\ \A w \in Periods \cup Months : w[1] \in Nat /\ w[2] \in Nat /\ w[1] < w[2]
  /\ \A r \in Rows : /\ r.start \in Nat /\ r.end \in Nat /\ r.start < r.end
                     /\ r.metric \in {"metered", "unrated", "task", "storage"}

VARIABLES
  facts,       \* billing_usage_facts, by usage_id
  posts,       \* PutUsageFact calls between the check and the insert
  accepted,    \* what producers were told is stored
  periods,     \* billing_periods.state, by window
  seals        \* ota_period_seals, by month and issuer

intakeVars == <<facts, posts, accepted>>

IntakeInit ==
  /\ facts = [u \in UsageIDs |-> None]
  /\ posts = {} /\ accepted = {}
  /\ periods = [p \in Periods |-> "none"]
  /\ seals = [m \in Months |-> [platform |-> None, producer |-> None]]

-----------------------------------------------------------------------------
IsOTA(r) == r.metric \in {"task", "storage"}

Within(r, w) == w[1] <= r.start /\ r.end <= w[2]
Overlaps(r, w) == r.start < w[2] /\ w[1] < r.end

\* ValidOTAUsageFact: a task is a moment, storage is a whole UTC month.
ValidOTAUsageFact(r) ==
  /\ r.metric = "task" => r.end = r.start + 1
  /\ r.metric = "storage" => UTCMonth(r.start, r.end)

Stored == {u \in UsageIDs : facts[u] # None}

\* ListUsageFacts: a fact belongs to a period that holds its whole window.
ListUsageFacts(w) == {u \in Stored : Within(facts[u], w)}

\* A period that is closing or closed takes no more usage.
Locked(r) == \E p \in Periods : periods[p] \in {"closing", "closed"} /\ Overlaps(r, p)

\* Mutant: the insert relies on the check that went before it.
NoBarrier(r) == FALSE

\* usage_period_barrier, at the insert.
Barrier(r) == Locked(r)

SameUsageFact(u, r) == facts[u] = r

\* The call up to the check: validation, replay of a stored fact, locked period.
PutUsageFact(u, r) ==
  /\ ValidOTAUsageFact(r)
  /\ \/ /\ facts[u] = r
        /\ accepted' = accepted \cup {<<u, r>>}
        /\ UNCHANGED posts
     \/ /\ facts[u] = None /\ ~Locked(r) /\ Cardinality(posts) < MaxPosts
        /\ posts' = posts \cup {<<u, r>>}
        /\ UNCHANGED accepted
  /\ UNCHANGED <<facts, periods, seals>>

\* The insert: refused by the barrier, or done unless the identifier is taken,
\* and answered by comparing the stored fact with the request.
InsertUsageFact(u, r) ==
  /\ <<u, r>> \in posts
  /\ posts' = posts \ {<<u, r>>}
  /\ IF Barrier(r) THEN UNCHANGED <<facts, accepted>>
     ELSE /\ facts' = IF facts[u] = None THEN [facts EXCEPT ![u] = r] ELSE facts
          /\ accepted' = IF facts[u] = None \/ SameUsageFact(u, r)
                         THEN accepted \cup {<<u, r>>} ELSE accepted
  /\ UNCHANGED <<periods, seals>>

-----------------------------------------------------------------------------
(* Seals: one per month and issuer, never replaced.  The digest of a set of *)
(* facts is the set; the counts by metric follow from it.                  *)

OTAFacts(m) == {u \in ListUsageFacts(m) : IsOTA(facts[u])}

\* Facts the producer may list: stored, or still on their way here.
Deliverable(m) ==
  {x \in posts \cup {<<u, facts[u]>> : u \in Stored} : IsOTA(x[2]) /\ Within(x[2], m)}

\* The sources seal a month that is over.  The code checks the time they
\* claim, sealed_at, and not the clock.
Sealable(m) == UTCMonth(m[1], m[2]) /\ now >= m[2]

PutPlatformSeal(m, products) ==
  /\ Sealable(m)
  /\ seals[m].platform = None
  /\ seals' = [seals EXCEPT ![m].platform = products]
  /\ UNCHANGED <<facts, posts, accepted, periods>>

PutProducerSeal(m, products, listed) ==
  /\ Sealable(m)
  /\ seals[m].producer = None
  /\ seals' = [seals EXCEPT ![m].producer = [products |-> products, facts |-> listed]]
  /\ UNCHANGED <<facts, posts, accepted, periods>>

\* Mutant: the seals are there, so the month is complete.
SealsPresent(m) == seals[m].platform # None /\ seals[m].producer # None

\* verifyOTAPeriodSeals, in the closing transaction.
VerifyOTAPeriodSeals(m) ==
  LET platform == seals[m].platform
      producer == seals[m].producer
  IN /\ m \in Months /\ platform # None /\ producer # None
     /\ producer.products \subseteq platform
     /\ ~\E u \in Stored : IsOTA(facts[u]) /\ Overlaps(facts[u], m) /\ ~Within(facts[u], m)
     /\ \A u \in OTAFacts(m) : facts[u].product \in producer.products /\ ValidOTAUsageFact(facts[u])
     /\ producer.facts = {<<u, facts[u]>> : u \in OTAFacts(m)}

\* VerifyOTAFactGrants: each fact has a grant the Account Manager confirms, and
\* a stored object is charged once.
VerifyOTAFactGrants(us) ==
  /\ \A u \in us : IsOTA(facts[u]) => facts[u].granted
  /\ \A u, v \in us : (/\ facts[u].metric = "storage" /\ facts[v].metric = "storage"
                       /\ facts[u].start = facts[v].start
                       /\ facts[u].object = facts[v].object) => u = v
=============================================================================
