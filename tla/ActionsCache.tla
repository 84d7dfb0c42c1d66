----------------------------- MODULE ActionsCache -----------------------------
(***************************************************************************)
(* db/actions_cache.py: the in-memory copy of the action_types catalog     *)
(* that POST /tasks consults before it accepts a task, and the warm-up of  *)
(* it in lifespan.  Coroutines interleave at their awaits: the lock, the   *)
(* SELECT, the COMMIT.  The catalog is changed in the database by          *)
(* operators (external); a version stands for its whole contents.          *)
(***************************************************************************)
EXTENDS Naturals, Sequences

CONSTANTS
  Caller,      \* coroutines that call the cache; one of them is lifespan
  Boot,        \* lifespan
  Ttl,         \* TTL_SECONDS
  MaxLoad,     \* bound on the time from the SELECT to the end of its COMMIT
  Aligned,     \* versions whose enabled actions all have an OVERLAYS entry
  Empty,       \* versions without a row
  MaxVersion,  \* bound on the changes of the catalog
  MaxTime,     \* bound on the clock
  MaxDrops     \* bound on the calls of invalidate that are not outrun

Version == 1..MaxVersion
Snapshot == [ver : Version, gen : 0..MaxDrops]   \* gen: value of drops at the SELECT
NoSnap == [ver |-> 0, gen |-> 0]                 \* _cache = {}

ASSUME CacheAssumption ==
  /\ Boot \in Caller
  /\ Ttl \in Nat \ {0} /\ MaxLoad \in Nat /\ MaxTime \in Nat /\ MaxDrops \in Nat
  /\ MaxVersion \in Nat \ {0} /\ Aligned \subseteq Version /\ Empty \subseteq Aligned

VARIABLES
  now,        \* time.monotonic()
  catalog,    \* the version in the database
  since,      \* when each version came to the database
  drops,      \* calls of invalidate so far that no load outran
  _cache,
  _expires_at,
  lock,       \* holder of _lock, then its waiters: asyncio.Lock is first come,
              \* first served
  pc,         \* "idle", "asking", "locking", "selecting", "read", "committing"
  snap,       \* the rows a caller's SELECT returned
  readAt,     \* and when it did
  asked,      \* value of drops when the call began
  served,     \* the last answer: its version (the one before it if the cache was
              \* empty), for how long that had been replaced, and was it read
              \* before an invalidate before the call?
  up          \* "down", "warmed" after refresh, then "up", or "refused" by the
              \* check of lifespan

vars == <<now, catalog, since, drops, _cache, _expires_at, lock, pc, snap, readAt, asked, served, up>>

Init ==
  /\ now = 0 /\ catalog = 1 /\ since = [v \in Version |-> 0] /\ drops = 0
  /\ _cache = NoSnap /\ _expires_at = 0
  /\ lock = <<>>
  /\ pc = [c \in Caller |-> "idle"]
  /\ snap = [c \in Caller |-> NoSnap]
  /\ readAt = [c \in Caller |-> 0]
  /\ asked = [c \in Caller |-> 0]
  /\ served = [ver |-> 0, lag |-> 0, old |-> FALSE]
  /\ up = "down"

Goto(c, from, to) == pc[c] = from /\ pc' = [pc EXCEPT ![c] = to]

-----------------------------------------------------------------------------
(* The world.                                                              *)

ChangeCatalog ==
  /\ catalog < MaxVersion
  /\ catalog' = catalog + 1
  /\ since' = [since EXCEPT ![catalog + 1] = now]
  /\ UNCHANGED <<now, drops, _cache, _expires_at, lock, pc, snap, readAt, asked, served, up>>

\* The database answers within MaxLoad.
Tick ==
  /\ now < MaxTime
  /\ \A c \in Caller : pc[c] \in {"read", "committing"} => now < readAt[c] + MaxLoad
  /\ now' = now + 1
  /\ UNCHANGED <<catalog, since, drops, _cache, _expires_at, lock, pc, snap, readAt, asked, served, up>>

\* Mutant: without its "global" line the assignments are local.
invalidateLocally ==
  /\ drops < MaxDrops
  /\ drops' = IF \E c \in Caller : pc[c] = "read" THEN drops ELSE drops + 1
  /\ UNCHANGED <<now, catalog, since, _cache, _expires_at, lock, pc, snap, readAt, asked, served, up>>

\* Rows that are already on their way will be installed all the same: such an
\* invalidate is outrun, and not counted.
invalidate ==
  /\ drops < MaxDrops
  /\ drops' = IF \E c \in Caller : pc[c] = "read" THEN drops ELSE drops + 1
  /\ _cache' = NoSnap /\ _expires_at' = 0
  /\ UNCHANGED <<now, catalog, since, lock, pc, snap, readAt, asked, served, up>>

-----------------------------------------------------------------------------
(* One call.                                                               *)

\* Mutant: a snapshot is good for as long as there is one.
FreshForever == _cache # NoSnap

\* A copy without rows counts as none.
Fresh == _cache # NoSnap /\ _cache.ver \notin Empty /\ now < _expires_at

\* How long ago the snapshot was replaced in the database.
Lag(s) == IF s = NoSnap \/ s.ver = catalog THEN 0 ELSE now - since[s.ver + 1]

\* lifespan calls refresh, then enabled_codes.
Refreshes(c) == c = Boot /\ up = "down"

Return(c) ==
  /\ pc' = [pc EXCEPT ![c] = "idle"]
  /\ snap' = [snap EXCEPT ![c] = NoSnap]
  /\ readAt' = [readAt EXCEPT ![c] = 0] /\ asked' = [asked EXCEPT ![c] = 0]

\* get or enabled_codes return what the cache holds at this moment.  lifespan
\* refuses to start on a version that is not aligned; serving begins after it.
Answer(c) ==
  /\ Return(c)
  /\ IF Refreshes(c) THEN up' = "warmed" /\ UNCHANGED served
     ELSE /\ served' = [ver |-> IF _cache = NoSnap THEN served.ver ELSE _cache.ver,
                        lag |-> Lag(_cache),
                        old |-> _cache # NoSnap /\ _cache.gen < asked[c]]
          /\ up' = IF c # Boot THEN up
                   ELSE IF _cache = NoSnap \/ _cache.ver \in Aligned THEN "up"
                   ELSE "refused"

\* An exception: POST /tasks answers 500, lifespan goes on without the cache.
Fail(c) ==
  /\ Return(c)
  /\ up' = IF c = Boot THEN "up" ELSE up
  /\ UNCHANGED served

\* get and enabled_codes begin in _ensure_fresh, refresh with the lock.
Call(c) ==
  /\ IF c = Boot THEN up \in {"down", "warmed"} ELSE up = "up"
  /\ Goto(c, "idle", IF Refreshes(c) THEN "locking" ELSE "asking")
  /\ lock' = IF Refreshes(c) THEN Append(lock, c) ELSE lock
  /\ asked' = [asked EXCEPT ![c] = drops]
  /\ UNCHANGED <<now, catalog, since, drops, _cache, _expires_at, snap, readAt, served, up>>

\* The unlocked check of _ensure_fresh.
EnsureFresh(c) ==
  /\ pc[c] = "asking"
  /\ \/ Fresh /\ Answer(c) /\ UNCHANGED lock
     \/ /\ ~Fresh
        /\ lock' = Append(lock, c)
        /\ Goto(c, "asking", "locking")
        /\ UNCHANGED <<snap, readAt, asked, served, up>>
  /\ UNCHANGED <<now, catalog, since, drops, _cache, _expires_at>>

\* Mutant: no lock.
HoldsNoLock(c) == TRUE

Holds(c) == lock # <<>> /\ Head(lock) = c

\* The second check of _ensure_fresh; refresh has none.
Rechecked(c) == ~Refreshes(c) /\ Fresh

\* Mutant: the lock is kept when the load raised.
KeepsLock(c) == UNCHANGED lock

Releases(c) == lock' = Tail(lock)

Acquire(c) ==
  /\ pc[c] = "locking" /\ Holds(c)
  /\ \/ Rechecked(c) /\ Answer(c) /\ lock' = Tail(lock)
     \/ ~Rechecked(c) /\ Goto(c, "locking", "selecting") /\ UNCHANGED <<lock, snap, readAt, asked, served, up>>
  /\ UNCHANGED <<now, catalog, since, drops, _cache, _expires_at>>

\* Postgres evaluates the SELECT of _refresh_locked.
Select(c) ==
  /\ Goto(c, "selecting", "read")
  /\ snap' = [snap EXCEPT ![c] = [ver |-> catalog, gen |-> drops]]
  /\ readAt' = [readAt EXCEPT ![c] = now]
  /\ UNCHANGED <<now, catalog, since, drops, _cache, _expires_at, lock, asked, served, up>>

\* Its rows reach the coroutine: the globals change before the COMMIT.
Install(c) ==
  /\ Goto(c, "read", "committing")
  /\ _cache' = snap[c] /\ _expires_at' = now + Ttl
  /\ UNCHANGED <<now, catalog, since, drops, lock, snap, readAt, asked, served, up>>

\* The lock is released and the cache read in one step.
Committed(c) ==
  /\ pc[c] = "committing"
  /\ Answer(c)
  /\ lock' = Tail(lock)
  /\ UNCHANGED <<now, catalog, since, drops, _cache, _expires_at>>

\* The SELECT or the COMMIT raises; a cache installed stays installed.
LoadFails(c) ==
  /\ pc[c] \in {"selecting", "read", "committing"}
  /\ Fail(c)
  /\ Releases(c)
  /\ UNCHANGED <<now, catalog, since, drops, _cache, _expires_at>>

Work(c) ==
  EnsureFresh(c) \/ Acquire(c) \/ Select(c) \/ Install(c) \/ Committed(c) \/ LoadFails(c)

Next ==
  \/ ChangeCatalog \/ Tick \/ invalidate
  \/ \E c \in Caller : Call(c) \/ Work(c)

Spec == Init /\ [][Next]_vars

\* The event loop resumes each coroutine whose await is over.
FairSpec == Spec /\ \A c \in Caller : WF_vars(Work(c))

-----------------------------------------------------------------------------
(* Properties.                                                             *)

CacheTypeOK ==
  /\ now \in 0..MaxTime /\ catalog \in Version /\ since \in [Version -> 0..now]
  /\ drops \in 0..MaxDrops
  /\ _cache \in Snapshot \union {NoSnap} /\ _expires_at \in 0..now + Ttl
  /\ lock \in Seq(Caller)
  /\ pc \in [Caller -> {"idle", "asking", "locking", "selecting", "read", "committing"}]
  /\ snap \in [Caller -> Snapshot \union {NoSnap}]
  /\ readAt \in [Caller -> 0..now]
  /\ asked \in [Caller -> 0..drops]
  /\ served \in [ver : {0} \union Version, lag : 0..now, old : BOOLEAN]
  /\ up \in {"down", "warmed", "up", "refused"}

\* Loads never overtake each other: once a request was judged by a version of
\* the catalog, no later request is judged by an older one, so that an action
\* that was seen switched off does not come back by itself.
NeverBackwards ==
  [][served'.ver >= served.ver]_served

\* _refresh_locked says "Caller MUST hold `_lock`": whoever reads the table or
\* sets the globals holds it, so there is one loader at a time.
LoaderHoldsLock ==
  \A c \in Caller : pc[c] \in {"selecting", "read", "committing"} =>
    lock # <<>> /\ c = Head(lock)

\* A change of the catalog takes effect within TTL_SECONDS and the time of one
\* load, for callers that waited for another one's load, too.
StaleAtMostTtl == served.lag <= Ttl + MaxLoad

\* Every call comes to an end, also those queued behind a load that raises.
CallsReturn == \A c \in Caller : pc[c] # "idle" ~> pc[c] = "idle"

\* "Drop the cache so the next get/enabled_codes triggers a fresh DB read"
\* (invalidate): who asks afterwards sees rows read afterwards, whoever loads
\* them, if no load had its rows under way.
InvalidateForcesRead == ~served.old
=============================================================================
