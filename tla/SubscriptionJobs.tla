--------------------------- MODULE SubscriptionJobs ---------------------------
(***************************************************************************)
(* From client_request.jobs to the two batches of sub-jobs: the expansion  *)
(* by quantity (_extract_subscription_jobs), the split into LLM and        *)
(* passthrough jobs, and the second envelope with the LLM jobs only, which *)
(* normalize expands again.                                                *)
(*                                                                         *)
(* An item of the request has a key, its action_key, "" for a missing one  *)
(* and "junk" for an item that is no object at all, and a quantity;        *)
(* quantities are in halves, to have fractions, NoNumber stands for any    *)
(* JSON value that is not a number and Infinite for 1e400 and NaN.         *)
(***************************************************************************)
EXTENDS Ranking

CONSTANTS
  NoNumber, Infinite,
  MaxQuantity \* MAX_QUANTITY_PER_JOB

ASSUME JobsAssumption == MaxQuantity \in Nat \ {0}

LlmKeys == {"create_post", "edit_post"}                \* _LLM_ACTION_KEYS

\* int() raises OverflowError, or ValueError for NaN.
Overflows(request) ==
  \E i \in DOMAIN request : request[i].key # "junk" /\ request[i].quantity = Infinite

\* int() cuts towards zero.
Truncate(h) == IF h >= 0 THEN h \div 2 ELSE -((-h) \div 2)

Quantity(q) ==
  IF q = NoNumber THEN 1 ELSE Min({MaxQuantity, Max({1, Truncate(q)})})

\* A missing action_key is the default one.
ActionKey(k) == IF k = "" THEN "create_prod_line" ELSE k

\* How many sub-jobs an item makes.
Copies(item) == IF item.key = "junk" THEN 0 ELSE Quantity(item.quantity)

\* The sub-jobs as <<item, copy>>, one item after the other.
Expanded(items) == UNION {{i} \X (1..Copies(items[i])) : i \in DOMAIN items}
ItemByItem(pairs) ==
  {p \in pairs \X pairs :
     \/ p[1][1] < p[2][1]
     \/ p[1][1] = p[2][1] /\ p[1][2] < p[2][2]}

\* _extract_subscription_jobs: from is the item a sub-job comes from, seq_index (index)
\* counts the sub-jobs.
Extract(items) ==
  LET at == InOrder(Expanded(items), ItemByItem(Expanded(items)))
  IN  [p \in DOMAIN at |-> LET item == items[at[p][1]]
                           IN  [key |-> ActionKey(item.key), from |-> item.from, index |-> p - 1]]

\* The request, each item knowing its place.
Items(request) ==
  [i \in DOMAIN request |->
     [key |-> request[i].key, quantity |-> request[i].quantity, from |-> i]]

AllJobs(request) == Extract(Items(request))

IsLlm(job) == job.key \in LlmKeys
FirstLlmJobs(request) ==
  LET all == AllJobs(request) IN Picked(all, {p \in DOMAIN all : IsLlm(all[p])})

\* Mutant: the second filter forgets edit_post.
PassthroughTest(job) == job.key # "create_post"

IsPassthrough(job) == job.key \notin LlmKeys
PassthroughJobs(request) ==
  LET all == AllJobs(request) IN Picked(all, {p \in DOMAIN all : IsPassthrough(all[p])})

\* Mutant: the copies keep their quantity in the second envelope.
EnvelopeTwice(jobs) ==
  [p \in DOMAIN jobs |-> [key |-> jobs[p].key, quantity |-> 4, from |-> jobs[p].from]]

\* llm_cr["jobs"], with quantity 1.
LlmEnvelope(jobs) ==
  [p \in DOMAIN jobs |-> [key |-> jobs[p].key, quantity |-> 2, from |-> jobs[p].from]]

=============================================================================
