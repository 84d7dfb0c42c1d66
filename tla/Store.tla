------------------------------- MODULE Store -------------------------------
(***************************************************************************)
(* The Postgres tables of marketer and the transactions the service runs   *)
(* on them: db/repositories.py, db/engine.py (session_scope) and the       *)
(* constraints of alembic/versions.  A run is one execution of the         *)
(* background task of POST /tasks; it uses one session at a time, so the   *)
(* open transaction is a field of the run.                                 *)
(*                                                                         *)
(* Isolation is READ COMMITTED: a SELECT sees committed rows only, and an  *)
(* INSERT into a unique index waits for the uncommitted insert of another  *)
(* transaction with the same key.  Statements whose effect nobody can see  *)
(* before the commit (the jobs rows, the raw_briefs UPDATE) are part of    *)
(* the commit step.                                                        *)
(***************************************************************************)
EXTENDS Naturals, FiniteSets

CONSTANTS
  Run,        \* executions of the background task
  Task,       \* router_task_id values; a retry of the ROUTER is another run
  User,       \* account_uuid values
  JobKey,     \* names the jobs rows one run may create
  TaskOf,     \* the task of a run
  UserOf,     \* the account of a task
  NoRow       \* "no strategies row"

Seed == {"llm", "empty"}       \* brand_intelligence: an enrichment's, or {}
BriefStatus == {"received", "done", "failed"}
DispatchStatus == {"null", "pending", "ok", "failed"}

StrategyRow == [user : User, by : Run, bi : Seed]
JobRow == [by : Run, key : JobKey, status : {"done", "failed"},
           dispatch : DispatchStatus, strategy : StrategyRow]

ASSUME StoreAssumption ==
  /\ TaskOf \in [Run -> Task]
  /\ UserOf \in [Task -> User]
  /\ NoRow \notin StrategyRow

VARIABLES
  users,         \* ids of the users table
  strategies,    \* committed rows; version is 1 and is_active TRUE in all
  raw_briefs,    \* status of the row of each task, or "absent"
  user_profile,  \* tasks whose raw_briefs.user_profile is set
  jobs,          \* committed rows
  txn,           \* the run's session: "idle", "open", or "inserted" once it
                 \* holds an uncommitted strategies row
  held           \* the strategy the transaction works with

tables == <<users, strategies, raw_briefs, user_profile, jobs>>
storeVars == <<users, strategies, raw_briefs, user_profile, jobs, txn, held>>

Owner(r) == UserOf[TaskOf[r]]
Brief(r) == raw_briefs[TaskOf[r]]
ActiveRow(u) == IF \E s \in strategies : s.user = u
                THEN CHOOSE s \in strategies : s.user = u
                ELSE NoRow

StoreInit ==
  /\ users = {} /\ strategies = {} /\ jobs = {} /\ user_profile = {}
  /\ raw_briefs = [t \in Task |-> "absent"]
  /\ txn = [r \in Run |-> "idle"]
  /\ held = [r \in Run |-> NoRow]

-----------------------------------------------------------------------------
(* Single-statement transactions, each in a session of its own.            *)

\* Both are ON CONFLICT DO NOTHING.
UpsertUser(r) == users' = users \union {Owner(r)}

InsertRawBrief(r) ==
  raw_briefs' = [raw_briefs EXCEPT ![TaskOf[r]] = IF @ = "absent" THEN "received" ELSE @]

PersistOnIngest(r) ==
  /\ UpsertUser(r) /\ InsertRawBrief(r)
  /\ UNCHANGED <<strategies, user_profile, jobs, txn, held>>

UpdateUserProfile(r) ==
  /\ Brief(r) # "absent"
  /\ user_profile' = user_profile \union {TaskOf[r]}
  /\ UNCHANGED <<users, strategies, raw_briefs, jobs, txn, held>>

MarkRawBrief(r, status) ==
  /\ Brief(r) # "absent"
  /\ raw_briefs' = [raw_briefs EXCEPT ![TaskOf[r]] = status]
  /\ UNCHANGED <<users, strategies, user_profile, jobs, txn, held>>

\* An UPDATE by primary key: no row with that key, no effect.
UpdateDispatchStatus(r, k, status) ==
  /\ jobs' = {IF j.by = r /\ j.key = k THEN [j EXCEPT !.dispatch = status] ELSE j :
                j \in jobs}
  /\ UNCHANGED <<users, strategies, raw_briefs, user_profile, txn, held>>

-----------------------------------------------------------------------------
(* The transaction that pins jobs to the user's strategy.                  *)

EndTxn(r) ==
  /\ txn' = [txn EXCEPT ![r] = "idle"]
  /\ held' = [held EXCEPT ![r] = NoRow]

GetActiveStrategy(r) ==
  /\ txn[r] \in {"idle", "open"}
  /\ Brief(r) # "absent"
  /\ txn' = [txn EXCEPT ![r] = "open"]
  /\ held' = [held EXCEPT ![r] = ActiveRow(Owner(r))]
  /\ UNCHANGED tables

\* Mutants of the two index checks: an INSERT that does not wait for the
\* uncommitted row of another transaction, and a table without the index.
NeverBlocked(r) == FALSE
IndexHitDropped(r) == FALSE

InsertBlocked(r) ==
  \E q \in Run \ {r} : txn[q] = "inserted" /\ Owner(q) = Owner(r)

IndexHit(r) == \E s \in strategies : s.user = Owner(r)

\* ensure_strategy found no row: INSERT version 1, active, and flush.
CreateStrategy(r, bi) ==
  /\ txn[r] = "open" /\ held[r] = NoRow
  /\ ~InsertBlocked(r) /\ ~IndexHit(r)
  /\ txn' = [txn EXCEPT ![r] = "inserted"]
  /\ held' = [held EXCEPT ![r] = [user |-> Owner(r), by |-> r, bi |-> bi]]
  /\ UNCHANGED tables

\* The same INSERT when another run committed its row after our SELECT:
\* IntegrityError, and session_scope rolls the transaction back.
UniqueViolation(r) ==
  /\ txn[r] = "open" /\ held[r] = NoRow
  /\ ~InsertBlocked(r) /\ IndexHit(r)
  /\ EndTxn(r)
  /\ UNCHANGED tables

\* Mutant: the session is dropped without a rollback, its transaction still open.
RollbackForgotten(r) == txn[r] # "idle" /\ UNCHANGED storeVars

\* Any other exception inside session_scope.
Rollback(r) ==
  /\ txn[r] # "idle"
  /\ EndTxn(r)
  /\ UNCHANGED tables

\* The process dies and Postgres ends the transaction it finds open.
Disconnect(r) == EndTxn(r) /\ UNCHANGED tables

NewJob(r, k, shape) == [by |-> r, key |-> k, status |-> shape[1],
                        dispatch |-> shape[2], strategy |-> held[r]]

\* status and dispatch_status of the rows create_job is called with.
JobShape == {<<"done", "null">>, <<"failed", "null">>,
             <<"done", "pending">>, <<"failed", "failed">>}

\* The sets of rows a transaction of r may insert, at most one for each key.
RowSets(r) ==
  {{NewJob(r, k, f[k]) : k \in DOMAIN f} :
      f \in UNION {[K -> JobShape] : K \in SUBSET JobKey}}

\* Mutant: the strategies row is not part of the transaction of its jobs.
PublishedForgotten(r) == strategies

Published(r) ==
  IF txn[r] = "inserted" THEN strategies \union {held[r]} ELSE strategies

\* create_job for each row, mark_raw_brief unless status is "keep", COMMIT.
CommitJobs(r, rows, status) ==
  /\ txn[r] # "idle" /\ Brief(r) # "absent"
  /\ rows # {} => held[r] # NoRow
  /\ \A j \in jobs : j.by = r => \A n \in rows : n.key # j.key
  /\ strategies' = Published(r)
  /\ jobs' = jobs \union rows
  /\ raw_briefs' = IF status = "keep" THEN raw_briefs
                   ELSE [raw_briefs EXCEPT ![TaskOf[r]] = status]
  /\ EndTxn(r)
  /\ UNCHANGED <<users, user_profile>>

StoreNext ==
  \E r \in Run :
       \/ PersistOnIngest(r) \/ UpdateUserProfile(r)
       \/ \E st \in {"done", "failed"} : MarkRawBrief(r, st)
       \/ \E k \in JobKey, st \in {"ok", "failed"} : UpdateDispatchStatus(r, k, st)
       \/ GetActiveStrategy(r) \/ UniqueViolation(r)
       \/ Rollback(r) \/ Disconnect(r)
       \/ \E bi \in Seed : CreateStrategy(r, bi)
       \/ \E rows \in RowSets(r), st \in {"done", "failed", "keep"} :
            CommitJobs(r, rows, st)

StoreSpec == StoreInit /\ [][StoreNext]_storeVars

-----------------------------------------------------------------------------
(* Properties.                                                             *)

\* The tables hold rows of the shapes the migrations declare, and a session
\* is in one of the phases session_scope goes through.
StoreTypeOK ==
  /\ users \subseteq User
  /\ strategies \subseteq StrategyRow
  /\ raw_briefs \in [Task -> BriefStatus \union {"absent"}]
  /\ user_profile \subseteq Task
  /\ jobs \subseteq JobRow
  /\ txn \in [Run -> {"idle", "open", "inserted"}]
  /\ held \in [Run -> StrategyRow \union {NoRow}]

\* Whatever the interleaving of the check-then-insert of ensure_strategy in
\* concurrent runs, a user has at most one active strategy, so that
\* scalar_one_or_none in get_active_strategy never raises.
OneActiveStrategy ==
  \A s1, s2 \in strategies : s1.user = s2.user => s1 = s2

\* A strategy read, or inserted, early in a transaction is still the user's
\* only strategy when create_job pins the job to it: every committed job
\* points to a committed strategy of its own user.
JobsPinned ==
  \A j \in jobs : j.strategy \in strategies /\ j.strategy.user = Owner(j.by)

\* No job or strategy exists without the durable log of the envelope that
\* led to it: its task has a raw_briefs row and its account a users row.
ChildrenLogged ==
  /\ \A t \in Task : raw_briefs[t] # "absent" => UserOf[t] \in users
  /\ \A j \in jobs : Brief(j.by) # "absent"
  /\ \A s \in strategies : Brief(s.by) # "absent"

\* The concurrent transactions implement a register that is written at most
\* once for each user.
Register == INSTANCE StrategyRegister WITH
              Row <- StrategyRow,
              published <- [u \in User |-> {s \in strategies : s.user = u}]
RegisterSpec == Register!Spec
=============================================================================
