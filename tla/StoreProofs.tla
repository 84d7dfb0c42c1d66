---------------------------- MODULE StoreProofs ----------------------------
(***************************************************************************)
(* Theorems about Store, for every set of runs, tasks, users and job keys. *)
(*                                                                         *)
(* OneActiveStrategy is not inductive: a state with two uncommitted        *)
(* strategies rows of one user satisfies it and one commit later it does   *)
(* not.  StoreInv adds what the unique index keeps true of the rows still  *)
(* in flight (Insertions) and what a transaction that read its strategy    *)
(* relies on until it commits (Reads).                                     *)
(***************************************************************************)
EXTENDS Store, TLAPS

\* An uncommitted row belongs to its run and is the only row of its user,
\* committed or not.
Insertions ==
  \A r \in Run : txn[r] = "inserted" =>
    /\ held[r] \in StrategyRow /\ held[r].user = Owner(r) /\ held[r].by = r
    /\ \A s \in strategies : s.user # Owner(r)
    /\ \A q \in Run : txn[q] = "inserted" /\ Owner(q) = Owner(r) => q = r

\* A strategy that an open transaction read is committed and its user's.
Reads ==
  \A r \in Run : txn[r] = "open" /\ held[r] # NoRow =>
    held[r] \in strategies /\ held[r].user = Owner(r)

\* A run with an idle session holds nothing.
IdleHolds == \A r \in Run : txn[r] = "idle" => held[r] = NoRow

\* A session is opened only for a run whose envelope is logged.
SessionsLogged == \A r \in Run : txn[r] # "idle" => Brief(r) # "absent"

StoreInv ==
  /\ StoreTypeOK /\ OneActiveStrategy /\ JobsPinned /\ ChildrenLogged
  /\ Insertions /\ Reads /\ IdleHolds /\ SessionsLogged

-----------------------------------------------------------------------------
\* The owner of a run is one of the users.
LEMMA OwnerType == \A r \in Run : Owner(r) \in User
  BY StoreAssumption DEF Owner

\* get_active_strategy returns NoRow exactly when the user has no row, and
\* otherwise one of the user's rows.
LEMMA ActiveRowFacts ==
  ASSUME NEW u \in User
  PROVE  /\ ActiveRow(u) # NoRow /\ strategies \subseteq StrategyRow =>
              ActiveRow(u) \in strategies /\ ActiveRow(u).user = u
         /\ ActiveRow(u) \in strategies \union {NoRow}
  BY DEF ActiveRow

\* What create_job is called with is a jobs row of the run, pinned to the
\* strategy the transaction holds.
LEMMA RowSetFacts ==
  ASSUME NEW r \in Run, NEW rows \in RowSets(r), NEW n \in rows,
         held[r] \in StrategyRow
  PROVE  n \in JobRow /\ n.by = r /\ n.strategy = held[r]
<1>1. PICK K \in SUBSET JobKey :
        \E f \in [K -> JobShape] : rows = {NewJob(r, k, f[k]) : k \in DOMAIN f}
  BY DEF RowSets
<1>2. PICK f \in [K -> JobShape] : rows = {NewJob(r, k, f[k]) : k \in DOMAIN f}
  BY <1>1
<1>3. PICK k \in K : n = NewJob(r, k, f[k])
  BY <1>2
<1>4. f[k] \in JobShape /\ k \in JobKey
  BY <1>2
<1> QED
  BY <1>3, <1>4 DEF NewJob, JobShape, JobRow, DispatchStatus

\* A family of rows, one for each of some keys, may be inserted.
LEMMA RowFamily ==
  ASSUME NEW r \in Run, NEW K \in SUBSET JobKey, NEW f \in [K -> JobShape]
  PROVE  {NewJob(r, k, f[k]) : k \in K} \in RowSets(r)
<1>1. f \in UNION {[L -> JobShape] : L \in SUBSET JobKey} /\ DOMAIN f = K
  OBVIOUS
<1>2. {NewJob(r, k, f[k]) : k \in DOMAIN f} \in RowSets(r)
  BY <1>1 DEF RowSets
<1> QED
  BY <1>1, <1>2

\* The actions that leave strategies, jobs and every transaction alone.
LEMMA QuietSteps ==
  ASSUME StoreInv, NEW r \in Run,
         \/ PersistOnIngest(r)
         \/ UpdateUserProfile(r)
         \/ \E st \in {"done", "failed"} : MarkRawBrief(r, st)
  PROVE  StoreInv'
<1> USE DEF StoreInv
<1>1. UNCHANGED <<strategies, jobs, txn, held>>
  BY DEF PersistOnIngest, UpsertUser, InsertRawBrief, UpdateUserProfile, MarkRawBrief
<1>2. /\ StoreTypeOK'
      /\ \A t \in Task : raw_briefs[t] # "absent" => raw_briefs'[t] # "absent"
      /\ \A t \in Task : raw_briefs'[t] # "absent" => UserOf[t] \in users'
  BY StoreAssumption, OwnerType
  DEF StoreTypeOK, ChildrenLogged, PersistOnIngest, UpsertUser, InsertRawBrief,
      UpdateUserProfile, MarkRawBrief,
      Owner, Brief, BriefStatus
<1>3. ChildrenLogged' /\ SessionsLogged'
  BY <1>1, <1>2, StoreAssumption
  DEF ChildrenLogged, SessionsLogged, StoreTypeOK, Brief, JobRow, StrategyRow
<1> QED
  BY <1>1, <1>2, <1>3
  DEF OneActiveStrategy, JobsPinned, Insertions, Reads, IdleHolds, Owner

\* update_dispatch_status rewrites one field of rows that exist.
LEMMA DispatchStep ==
  ASSUME StoreInv, NEW r \in Run, NEW k \in JobKey, NEW st \in {"ok", "failed"},
         UpdateDispatchStatus(r, k, st)
  PROVE  StoreInv'
<1>1. UNCHANGED <<users, strategies, raw_briefs, user_profile, txn, held>>
  BY DEF UpdateDispatchStatus
<1>2. \A n \in jobs' : /\ n \in JobRow
                       /\ \E j \in jobs : n.by = j.by /\ n.strategy = j.strategy
  <2> SUFFICES ASSUME NEW n \in jobs'
               PROVE  /\ n \in JobRow
                      /\ \E j \in jobs : n.by = j.by /\ n.strategy = j.strategy
    OBVIOUS
  <2>1. PICK j \in jobs :
          n = IF j.by = r /\ j.key = k THEN [j EXCEPT !.dispatch = st] ELSE j
    BY DEF UpdateDispatchStatus
  <2>2. j \in JobRow
    BY DEF StoreInv, StoreTypeOK
  <2> QED
    BY <2>1, <2>2 DEF JobRow, DispatchStatus
<1>3. StoreTypeOK' /\ JobsPinned' /\ ChildrenLogged'
  BY <1>1, <1>2 DEF StoreInv, StoreTypeOK, JobsPinned, ChildrenLogged, Owner, Brief
<1> QED
  BY <1>1, <1>3
  DEF StoreInv, OneActiveStrategy, Insertions, Reads, IdleHolds, SessionsLogged, Owner, Brief

\* Ending a transaction without a commit.
LEMMA AbortSteps ==
  ASSUME StoreInv, NEW r \in Run,
         UniqueViolation(r) \/ Rollback(r) \/ Disconnect(r)
  PROVE  StoreInv'
<1>1. UNCHANGED tables
  BY DEF UniqueViolation, Rollback, Disconnect
<1>2. /\ txn' \in [Run -> {"idle", "open", "inserted"}]
      /\ held' \in [Run -> StrategyRow \union {NoRow}]
      /\ \A q \in Run : \/ txn'[q] = txn[q] /\ held'[q] = held[q]
                        \/ txn'[q] = "idle" /\ held'[q] = NoRow
  BY DEF StoreInv, StoreTypeOK, UniqueViolation, Rollback, Disconnect, EndTxn
<1>3. StoreTypeOK' /\ OneActiveStrategy' /\ JobsPinned' /\ ChildrenLogged'
  BY <1>1, <1>2
  DEF StoreInv, StoreTypeOK, OneActiveStrategy, JobsPinned, ChildrenLogged, Owner, Brief, tables
<1>4. Insertions'
  BY <1>1, <1>2 DEF StoreInv, Insertions, Owner, tables
<1>5. Reads' /\ IdleHolds' /\ SessionsLogged'
  BY <1>1, <1>2 DEF StoreInv, Reads, IdleHolds, SessionsLogged, Owner, Brief, tables
<1> QED
  BY <1>3, <1>4, <1>5 DEF StoreInv

\* The SELECT of get_active_strategy.
LEMMA ReadStep ==
  ASSUME StoreInv, NEW r \in Run, GetActiveStrategy(r)
  PROVE  StoreInv'
<1>1. UNCHANGED tables
  BY DEF GetActiveStrategy
<1>2. /\ ActiveRow(Owner(r)) \in StrategyRow \union {NoRow}
      /\ ActiveRow(Owner(r)) # NoRow =>
           ActiveRow(Owner(r)) \in strategies /\ ActiveRow(Owner(r)).user = Owner(r)
  BY OwnerType, ActiveRowFacts DEF StoreInv, StoreTypeOK
<1>3. /\ txn' = [txn EXCEPT ![r] = "open"]
      /\ held' = [held EXCEPT ![r] = ActiveRow(Owner(r))]
  BY DEF GetActiveStrategy
<1>4. StoreTypeOK' /\ OneActiveStrategy' /\ JobsPinned' /\ ChildrenLogged'
  BY <1>1, <1>2, <1>3
  DEF StoreInv, StoreTypeOK, OneActiveStrategy, JobsPinned, ChildrenLogged, Owner, Brief, tables
<1>5. Insertions'
  BY <1>1, <1>3 DEF StoreInv, StoreTypeOK, Insertions, Owner, tables
<1>6. Reads' /\ IdleHolds'
  BY <1>1, <1>2, <1>3 DEF StoreInv, StoreTypeOK, Reads, IdleHolds, Owner, tables
<1>7. SessionsLogged'
  BY <1>1, <1>3 DEF StoreInv, StoreTypeOK, SessionsLogged, GetActiveStrategy, Brief, tables
<1> QED
  BY <1>4, <1>5, <1>6, <1>7 DEF StoreInv

\* The INSERT of create_strategy: the two index checks are what makes the new
\* row the only one of its user, committed or in flight.
LEMMA CreateStep ==
  ASSUME StoreInv, NEW r \in Run, NEW bi \in Seed, CreateStrategy(r, bi)
  PROVE  StoreInv'
<1>1. UNCHANGED tables
  BY DEF CreateStrategy
<1> DEFINE row == [user |-> Owner(r), by |-> r, bi |-> bi]
<1>2. row \in StrategyRow
  BY OwnerType DEF StrategyRow
<1>3. /\ txn' = [txn EXCEPT ![r] = "inserted"]
      /\ held' = [held EXCEPT ![r] = row]
  BY DEF CreateStrategy
<1>4. /\ \A s \in strategies : s.user # Owner(r)
      /\ \A q \in Run : txn[q] = "inserted" /\ Owner(q) = Owner(r) => q = r
  BY DEF CreateStrategy, InsertBlocked, IndexHit
<1>5. StoreTypeOK' /\ OneActiveStrategy' /\ JobsPinned' /\ ChildrenLogged'
  BY <1>1, <1>2, <1>3
  DEF StoreInv, StoreTypeOK, OneActiveStrategy, JobsPinned, ChildrenLogged, Owner, Brief, tables
<1>6. Insertions'
  BY <1>1, <1>2, <1>3, <1>4 DEF StoreInv, StoreTypeOK, Insertions, Owner, tables
<1>7. Reads' /\ IdleHolds'
  BY <1>1, <1>3 DEF StoreInv, StoreTypeOK, Reads, IdleHolds, Owner, tables
<1>8. SessionsLogged'
  BY <1>1, <1>3 DEF StoreInv, StoreTypeOK, SessionsLogged, CreateStrategy, Brief, tables
<1> QED
  BY <1>5, <1>6, <1>7, <1>8 DEF StoreInv

\* COMMIT: an inserted row becomes the user's committed strategy, and the jobs
\* inserted with it are pinned to a committed row.
LEMMA CommitStep ==
  ASSUME StoreInv, NEW r \in Run, NEW rows \in RowSets(r),
         NEW st \in {"done", "failed", "keep"}, CommitJobs(r, rows, st)
  PROVE  StoreInv'
<1>1. /\ txn' = [txn EXCEPT ![r] = "idle"]
      /\ held' = [held EXCEPT ![r] = NoRow]
      /\ strategies' = IF txn[r] = "inserted" THEN strategies \union {held[r]}
                       ELSE strategies
      /\ jobs' = jobs \union rows
      /\ users' = users /\ user_profile' = user_profile
  BY DEF CommitJobs, EndTxn, Published
<1>2. /\ raw_briefs' \in [Task -> BriefStatus \union {"absent"}]
      /\ \A t \in Task : raw_briefs'[t] # "absent" <=> raw_briefs[t] # "absent"
  BY StoreAssumption
  DEF StoreInv, StoreTypeOK, CommitJobs, BriefStatus, Brief
<1>3. /\ txn[r] # "idle" /\ Brief(r) # "absent"
      /\ rows # {} => held[r] \in StrategyRow
  BY DEF CommitJobs, StoreInv, StoreTypeOK
<1>4. /\ \A s \in strategies' : s \in strategies \/ (txn[r] = "inserted" /\ s = held[r])
      /\ strategies \subseteq strategies'
      /\ strategies' \subseteq StrategyRow
  BY <1>1 DEF StoreInv, StoreTypeOK, Insertions
<1>5. \A n \in rows : /\ n \in JobRow /\ n.by = r
                      /\ n.strategy \in strategies' /\ n.strategy.user = Owner(r)
  <2> SUFFICES ASSUME NEW n \in rows
               PROVE  /\ n \in JobRow /\ n.by = r
                      /\ n.strategy \in strategies' /\ n.strategy.user = Owner(r)
    OBVIOUS
  <2>1. n \in JobRow /\ n.by = r /\ n.strategy = held[r]
    BY <1>3, RowSetFacts
  <2>2. held[r] \in strategies' /\ held[r].user = Owner(r)
    BY <1>1, <1>3, StoreAssumption
    DEF StoreInv, StoreTypeOK, Insertions, Reads
  <2> QED
    BY <2>1, <2>2
<1>6. StoreTypeOK'
  BY <1>1, <1>2, <1>4, <1>5 DEF StoreInv, StoreTypeOK
<1>7. OneActiveStrategy'
  BY <1>1, <1>4 DEF StoreInv, OneActiveStrategy, Insertions
<1>8. JobsPinned'
  BY <1>1, <1>4, <1>5 DEF StoreInv, JobsPinned, Owner
<1>9. ChildrenLogged'
  <2>1. \A t \in Task : raw_briefs'[t] # "absent" => UserOf[t] \in users'
    BY <1>1, <1>2 DEF StoreInv, ChildrenLogged
  <2>2. \A q \in Run : Brief(q)' # "absent" <=> Brief(q) # "absent"
    BY <1>2, StoreAssumption DEF Brief
  <2>3. \A j \in jobs' : Brief(j.by)' # "absent"
    BY <1>1, <1>3, <1>5, <2>2 DEF StoreInv, StoreTypeOK, ChildrenLogged, JobRow
  <2>4. \A s \in strategies' : Brief(s.by)' # "absent"
    BY <1>3, <1>4, <2>2
    DEF StoreInv, StoreTypeOK, ChildrenLogged, Insertions, StrategyRow
  <2> QED
    BY <2>1, <2>3, <2>4 DEF ChildrenLogged
<1>10. Insertions'
  BY <1>1, <1>4 DEF StoreInv, StoreTypeOK, Insertions, Owner
<1>11. Reads' /\ IdleHolds'
  BY <1>1, <1>4 DEF StoreInv, StoreTypeOK, Reads, IdleHolds, Owner
<1>12. SessionsLogged'
  BY <1>1, <1>2, StoreAssumption DEF StoreInv, StoreTypeOK, SessionsLogged, Brief
<1> QED
  BY <1>6, <1>7, <1>8, <1>9, <1>10, <1>11, <1>12 DEF StoreInv

-----------------------------------------------------------------------------
\* The inductive invariant holds in every reachable state of the tables.
THEOREM StoreInvariant == StoreSpec => []StoreInv
<1>1. StoreInit => StoreInv
  BY DEF StoreInit, StoreInv, StoreTypeOK, OneActiveStrategy, JobsPinned, ChildrenLogged,
         Insertions, Reads, IdleHolds, SessionsLogged, BriefStatus
<1>2. StoreInv /\ [StoreNext]_storeVars => StoreInv'
  <2> SUFFICES ASSUME StoreInv, [StoreNext]_storeVars PROVE StoreInv'
    OBVIOUS
  <2>1. CASE UNCHANGED storeVars
    BY <2>1
    DEF storeVars, StoreInv, StoreTypeOK, OneActiveStrategy, JobsPinned, ChildrenLogged,
        Insertions, Reads, IdleHolds, SessionsLogged, Owner, Brief
  <2>2. CASE StoreNext
    <3>1. ASSUME NEW r \in Run, PersistOnIngest(r) PROVE StoreInv'
      BY <3>1, QuietSteps
    <3>2. ASSUME NEW r \in Run, UpdateUserProfile(r) PROVE StoreInv'
      BY <3>2, QuietSteps
    <3>3. ASSUME NEW r \in Run, NEW st \in {"done", "failed"}, MarkRawBrief(r, st)
          PROVE StoreInv'
      BY <3>3, QuietSteps
    <3>4. ASSUME NEW r \in Run, NEW k \in JobKey, NEW st \in {"ok", "failed"},
                 UpdateDispatchStatus(r, k, st)
          PROVE StoreInv'
      BY <3>4, DispatchStep
    <3>5. ASSUME NEW r \in Run, GetActiveStrategy(r) PROVE StoreInv'
      BY <3>5, ReadStep
    <3>6. ASSUME NEW r \in Run, UniqueViolation(r) \/ Rollback(r) \/ Disconnect(r)
          PROVE StoreInv'
      BY <3>6, AbortSteps
    <3>7. ASSUME NEW r \in Run, NEW bi \in Seed, CreateStrategy(r, bi) PROVE StoreInv'
      BY <3>7, CreateStep
    <3>8. ASSUME NEW r \in Run, NEW rows \in RowSets(r),
                 NEW st \in {"done", "failed", "keep"}, CommitJobs(r, rows, st)
          PROVE StoreInv'
      BY <3>8, CommitStep
    <3> QED
      BY <2>2, <3>1, <3>2, <3>3, <3>4, <3>5, <3>6, <3>7, <3>8 DEF StoreNext
  <2> QED
    BY <2>1, <2>2
<1> QED
  BY <1>1, <1>2, PTL DEF StoreSpec

\* The tables keep their declared shapes.
THEOREM StoreTypeCorrect == StoreSpec => []StoreTypeOK
  BY StoreInvariant, PTL DEF StoreInv

\* No interleaving of ensure_strategy gives a user two active strategies.
THEOREM StrategyUnique == StoreSpec => []OneActiveStrategy
  BY StoreInvariant, PTL DEF StoreInv

\* Every committed job is pinned to a committed strategy of its own user.
THEOREM JobsStayPinned == StoreSpec => []JobsPinned
  BY StoreInvariant, PTL DEF StoreInv

\* Every job and strategy descends from a logged envelope.
THEOREM ChildrenStayLogged == StoreSpec => []ChildrenLogged
  BY StoreInvariant, PTL DEF StoreInv

\* The strategies table implements the write-once register: a step of the store
\* is a publication for one user that had none, or leaves the register alone.
THEOREM StoreImplementsRegister == StoreSpec => RegisterSpec
<1> DEFINE reg == [u \in User |-> {s \in strategies : s.user = u}]
<1>1. StoreInit => Register!Init
  BY DEF StoreInit, Register!Init
<1>2. ASSUME StoreInv, [StoreNext]_storeVars
      PROVE  [Register!Next]_reg
  <2>1. \/ UNCHANGED strategies
        \/ \E r \in Run : txn[r] = "inserted" /\ strategies' = strategies \union {held[r]}
    BY <1>2 DEF StoreNext, storeVars, tables, PersistOnIngest, UpsertUser, InsertRawBrief,
                UpdateUserProfile,
       MarkRawBrief, UpdateDispatchStatus, GetActiveStrategy, UniqueViolation, Rollback,
       Disconnect, CreateStrategy, CommitJobs, Published
  <2>2. CASE UNCHANGED strategies
    BY <2>2
  <2>3. ASSUME NEW r \in Run, txn[r] = "inserted",
               strategies' = strategies \union {held[r]}
        PROVE  Register!Next
    <3>1. held[r].user = Owner(r) /\ \A s \in strategies : s.user # Owner(r)
      BY <1>2, <2>3 DEF StoreInv, Insertions
    <3>2. reg[Owner(r)] = {}
      BY <3>1, OwnerType
    <3>3. reg' = [reg EXCEPT ![Owner(r)] = {held[r]}]
      BY <2>3, <3>1, OwnerType
    <3>4. Owner(r) \in User /\ held[r] \in StrategyRow
      BY <1>2, <2>3, OwnerType DEF StoreInv, Insertions
    <3> QED
      BY <3>2, <3>3, <3>4 DEF Register!Next, Register!Publish
  <2> QED
    BY <2>1, <2>2, <2>3
<1> QED
  BY <1>1, <1>2, StoreInvariant, PTL DEF StoreSpec, RegisterSpec, Register!Spec
=============================================================================
