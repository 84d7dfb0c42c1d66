-------------------------- MODULE ActionsCacheProofs --------------------------
(***************************************************************************)
(* Theorems about ActionsCache for any number of callers, any TTL, any     *)
(* database latency and any number of changes and invalidations.           *)
(*                                                                         *)
(* NeverBackwards rests on the lock: a load that has read its rows is the  *)
(* only load, so nothing newer can be installed, or served, before it is   *)
(* installed itself.  Ordered says so for the versions.                    *)
(***************************************************************************)
EXTENDS ActionsCache, TLAPS

Loading == {"selecting", "read", "committing"}
Phase == Loading \union {"idle", "asking", "locking"}

Typed ==
  /\ catalog \in Version
  /\ drops \in 0..MaxDrops
  /\ _cache \in Snapshot \union {NoSnap}
  /\ lock \in Seq(Caller)
  /\ pc \in [Caller -> Phase]
  /\ snap \in [Caller -> Snapshot \union {NoSnap}]
  /\ served.ver \in Version \union {0}

\* Nothing is newer than the database, nothing served is newer than the cache,
\* and what a load has read is at least as new as both.
Ordered ==
  /\ _cache.ver <= catalog /\ served.ver <= catalog
  /\ _cache # NoSnap => served.ver <= _cache.ver
  /\ \A c \in Caller : pc[c] = "read" =>
       /\ snap[c] # NoSnap
       /\ snap[c].ver <= catalog
       /\ _cache.ver <= snap[c].ver /\ served.ver <= snap[c].ver

CacheInv == Typed /\ LoaderHoldsLock /\ Ordered

\* What the type of a snapshot gives the arithmetic.
LEMMA SnapshotFacts ==
  ASSUME NEW s \in Snapshot \union {NoSnap}
  PROVE  /\ s.ver \in Nat /\ s.ver \in Version \union {0}
         /\ s # NoSnap => s.ver \in Version
         /\ NoSnap.ver = 0
BY CacheAssumption DEF Snapshot, NoSnap, Version

\* A step that answers from the cache keeps the order, and serves nothing older
\* than what was served before.
LEMMA AnswerStep ==
  ASSUME CacheInv, NEW c \in Caller, Answer(c), UNCHANGED <<catalog, drops, _cache>>,
         \/ lock' = lock
         \/ lock # <<>> /\ c = Head(lock) /\ lock' = Tail(lock)
  PROVE  CacheInv' /\ served'.ver >= served.ver
<1>1. /\ pc' = [pc EXCEPT ![c] = "idle"]
      /\ snap' = [snap EXCEPT ![c] = NoSnap]
  BY DEF Answer, Return
<1>2. served'.ver \in {served.ver, _cache.ver} /\ (_cache = NoSnap => served'.ver = served.ver)
  BY DEF Answer
<1>3. /\ catalog \in Nat /\ _cache.ver \in Nat /\ served.ver \in Nat
      /\ _cache.ver \in Version \union {0}
  BY SnapshotFacts, CacheAssumption DEF CacheInv, Typed, Version
<1>4. Typed'
  <2>1. lock' \in Seq(Caller)
    BY DEF CacheInv, Typed
  <2>2. NoSnap \in Snapshot \union {NoSnap}
    OBVIOUS
  <2> QED
    BY <1>1, <1>2, <1>3, <2>1, <2>2 DEF CacheInv, Typed, Phase
<1>5. LoaderHoldsLock'
  BY <1>1 DEF CacheInv, Typed, LoaderHoldsLock
<1>6. served'.ver >= served.ver
  BY <1>2, <1>3 DEF CacheInv, Ordered
<1>7. Ordered'
  <2>1. \A d \in Caller : pc'[d] = "read" => pc[d] = "read" /\ snap'[d] = snap[d]
    BY <1>1 DEF CacheInv, Typed
  <2>2. \A d \in Caller : snap[d].ver \in Nat
    BY SnapshotFacts DEF CacheInv, Typed
  <2> QED
    BY <1>2, <1>3, <2>1, <2>2 DEF CacheInv, Ordered
<1> QED
  BY <1>4, <1>5, <1>6, <1>7 DEF CacheInv

\* The same for a step that raises.
LEMMA FailStep ==
  ASSUME CacheInv, NEW c \in Caller, Fail(c), UNCHANGED <<catalog, drops, _cache>>,
         lock # <<>>, c = Head(lock), lock' = Tail(lock)
  PROVE  CacheInv'
<1>1. /\ pc' = [pc EXCEPT ![c] = "idle"]
      /\ snap' = [snap EXCEPT ![c] = NoSnap] /\ served' = served
  BY DEF Fail, Return
<1>2. Typed'
  BY <1>1 DEF CacheInv, Typed, Phase
<1>3. LoaderHoldsLock'
  BY <1>1 DEF CacheInv, Typed, LoaderHoldsLock
<1>4. Ordered'
  BY <1>1 DEF CacheInv, Typed, Ordered
<1> QED
  BY <1>2, <1>3, <1>4 DEF CacheInv

\* Appending a waiter does not change the holder.
LEMMA WaiterStep ==
  ASSUME CacheInv, NEW c \in Caller, pc[c] \in {"idle", "asking"},
         \/ pc' = [pc EXCEPT ![c] = "locking"] /\ lock' = Append(lock, c)
         \/ pc' = [pc EXCEPT ![c] = "asking"] /\ lock' = lock,
         UNCHANGED <<catalog, drops, _cache, snap, served>>
  PROVE  CacheInv'
<1>1. Typed'
  <2>1. lock' \in Seq(Caller)
    <3>1. Append(lock, c) \in Seq(Caller)
      BY DEF CacheInv, Typed
    <3> QED
      BY <3>1 DEF CacheInv, Typed
  <2>2. pc' \in [Caller -> Phase]
    BY DEF CacheInv, Typed, Phase
  <2> QED
    BY <2>1, <2>2 DEF CacheInv, Typed
<1>2. LoaderHoldsLock'
  <2>1. \A d \in Caller : pc'[d] \in Loading => pc[d] \in Loading
    BY DEF CacheInv, Typed, Loading
  <2>2. lock # <<>> => lock' # <<>> /\ Head(lock') = Head(lock)
    BY DEF CacheInv, Typed
  <2> QED
    BY <2>1, <2>2 DEF CacheInv, LoaderHoldsLock, Loading
<1>3. Ordered'
  BY DEF CacheInv, Typed, Ordered
<1> QED
  BY <1>1, <1>2, <1>3 DEF CacheInv

\* The steps of a load: from the lock to the SELECT, to its rows, to the cache.
LEMMA LoadStep ==
  ASSUME CacheInv, NEW c \in Caller,
         \/ pc[c] = "locking" /\ Holds(c) /\ Goto(c, "locking", "selecting")
              /\ UNCHANGED <<catalog, drops, _cache, lock, snap, served>>
         \/ Select(c) \/ Install(c)
  PROVE  CacheInv' /\ served' = served
<1> USE DEF Goto
<1>1. CASE /\ pc[c] = "locking" /\ Holds(c) /\ Goto(c, "locking", "selecting")
           /\ UNCHANGED <<catalog, drops, _cache, lock, snap, served>>
  <2>1. Typed'
    BY <1>1 DEF CacheInv, Typed, Phase, Loading
  <2>2. LoaderHoldsLock'
    BY <1>1 DEF CacheInv, Typed, LoaderHoldsLock, Holds
  <2>3. Ordered'
    BY <1>1 DEF CacheInv, Typed, Ordered
  <2> QED
    BY <1>1, <2>1, <2>2, <2>3 DEF CacheInv
<1>2. CASE Select(c)
  <2> DEFINE row == [ver |-> catalog, gen |-> drops]
  <2>1. /\ pc' = [pc EXCEPT ![c] = "read"] /\ snap' = [snap EXCEPT ![c] = row]
        /\ pc[c] = "selecting"
        /\ UNCHANGED <<catalog, drops, _cache, lock, served>>
    BY <1>2 DEF Select
  <2>2. row \in Snapshot /\ row # NoSnap /\ row.ver = catalog
    BY DEF CacheInv, Typed, Snapshot, NoSnap, Version
  <2>3. Typed'
    BY <2>1, <2>2 DEF CacheInv, Typed, Phase, Loading
  <2>4. LoaderHoldsLock'
    BY <2>1 DEF CacheInv, Typed, LoaderHoldsLock
  <2>5. Ordered'
    BY <2>1, <2>2, CacheAssumption DEF CacheInv, Typed, Ordered, Version
  <2> QED
    BY <2>1, <2>3, <2>4, <2>5 DEF CacheInv
<1>3. CASE Install(c)
  <2>1. /\ pc' = [pc EXCEPT ![c] = "committing"] /\ pc[c] = "read"
        /\ _cache' = snap[c]
        /\ UNCHANGED <<catalog, drops, lock, snap, served>>
    BY <1>3 DEF Install
  <2>2. \A d \in Caller : pc'[d] # "read"
    BY <2>1 DEF CacheInv, Typed, LoaderHoldsLock
  <2>3. Typed'
    BY <2>1 DEF CacheInv, Typed, Phase, Loading
  <2>4. LoaderHoldsLock'
    BY <2>1 DEF CacheInv, Typed, LoaderHoldsLock
  <2>5. Ordered'
    BY <2>1, <2>2 DEF CacheInv, Typed, Ordered
  <2> QED
    BY <2>1, <2>3, <2>4, <2>5 DEF CacheInv
<1> QED
  BY <1>1, <1>2, <1>3

\* The world changes the catalog or drops the cache.
LEMMA WorldStep ==
  ASSUME CacheInv, ChangeCatalog \/ Tick \/ invalidate
  PROVE  CacheInv' /\ served' = served
<1>0. \A c \in Caller : snap[c].ver \in Nat
  BY SnapshotFacts DEF CacheInv, Typed
<1>1. CASE ChangeCatalog
  <2>1. catalog \in 1..MaxVersion /\ catalog' = catalog + 1 /\ catalog' \in 1..MaxVersion
    BY <1>1, CacheAssumption DEF ChangeCatalog, CacheInv, Typed, Version
  <2>2. UNCHANGED <<drops, _cache, lock, pc, snap, served>>
    BY <1>1 DEF ChangeCatalog
  <2>3. _cache.ver \in Nat /\ served.ver \in Nat
    BY SnapshotFacts, CacheAssumption DEF CacheInv, Typed, Version
  <2>4. Typed'
    BY <2>1, <2>2 DEF CacheInv, Typed, Version
  <2>5. Ordered'
    BY <1>0, <2>1, <2>2, <2>3 DEF CacheInv, Ordered
  <2> QED
    BY <2>2, <2>4, <2>5 DEF CacheInv, LoaderHoldsLock
<1>2. CASE Tick
  BY <1>2 DEF Tick, CacheInv, Typed, LoaderHoldsLock, Ordered
<1>3. CASE invalidate
  <2>1. /\ drops' \in 0..MaxDrops /\ _cache' = NoSnap
        /\ UNCHANGED <<catalog, lock, pc, snap, served>>
    BY <1>3, CacheAssumption DEF invalidate, CacheInv, Typed
  <2>2. _cache'.ver = 0 /\ catalog \in Nat
    BY <2>1, CacheAssumption DEF NoSnap, CacheInv, Typed, Version
  <2>3. Ordered'
    BY <1>0, <2>1, <2>2 DEF CacheInv, Ordered
  <2> QED
    BY <2>1, <2>3 DEF CacheInv, Typed, LoaderHoldsLock
<1> QED
  BY <1>1, <1>2, <1>3

\* Each step keeps the invariant and serves nothing older.
LEMMA CacheStep ==
  ASSUME CacheInv, [Next]_vars
  PROVE  CacheInv' /\ served'.ver >= served.ver
<1>0. served.ver \in Nat
  BY CacheAssumption DEF CacheInv, Typed, Version
<1>1. CASE UNCHANGED vars
  BY <1>0, <1>1 DEF vars, CacheInv, Typed, LoaderHoldsLock, Ordered
<1>2. CASE ChangeCatalog \/ Tick \/ invalidate
  BY <1>0, <1>2, WorldStep
<1>3. ASSUME NEW c \in Caller, Call(c) PROVE CacheInv' /\ served' = served
  BY <1>3, WaiterStep DEF Call, Goto
<1>4. ASSUME NEW c \in Caller, EnsureFresh(c) PROVE CacheInv' /\ served'.ver >= served.ver
  <2>1. CASE Fresh
    BY <1>4, <2>1, AnswerStep DEF EnsureFresh
  <2>2. CASE ~Fresh
    BY <1>0, <1>4, <2>2, WaiterStep DEF EnsureFresh, Goto
  <2> QED
    BY <2>1, <2>2
<1>5. ASSUME NEW c \in Caller, Acquire(c) PROVE CacheInv' /\ served'.ver >= served.ver
  <2>1. CASE Rechecked(c)
    BY <1>5, <2>1, AnswerStep DEF Acquire, Holds
  <2>2. CASE ~Rechecked(c)
    BY <1>0, <1>5, <2>2, LoadStep DEF Acquire
  <2> QED
    BY <2>1, <2>2
<1>6. ASSUME NEW c \in Caller, Select(c) \/ Install(c) PROVE CacheInv' /\ served' = served
  BY <1>6, LoadStep
<1>7. ASSUME NEW c \in Caller, Committed(c) PROVE CacheInv' /\ served'.ver >= served.ver
  <2>1. lock # <<>> /\ c = Head(lock)
    BY <1>7 DEF Committed, CacheInv, LoaderHoldsLock
  <2> QED
    BY <1>7, <2>1, AnswerStep DEF Committed
<1>8. ASSUME NEW c \in Caller, LoadFails(c) PROVE CacheInv' /\ served' = served
  <2>1. lock # <<>> /\ c = Head(lock)
    BY <1>8 DEF LoadFails, CacheInv, LoaderHoldsLock
  <2>2. CacheInv'
    BY <1>8, <2>1, FailStep DEF LoadFails, Releases
  <2> QED
    BY <1>8, <2>2 DEF LoadFails, Fail
<1> QED
  BY <1>0, <1>1, <1>2, <1>3, <1>4, <1>5, <1>6, <1>7, <1>8 DEF Next, Work

LEMMA CacheInitially == Init => CacheInv
BY CacheAssumption DEF Init, CacheInv, Typed, LoaderHoldsLock, Ordered, Phase, Loading,
                       Snapshot, NoSnap, Version

-----------------------------------------------------------------------------
(* The clock, and the calls of invalidate.                                 *)

Clocks ==
  /\ now \in 0..MaxTime
  /\ since \in [Version -> 0..now]
  /\ _expires_at \in 0..now + Ttl
  /\ readAt \in [Caller -> 0..now]
  /\ asked \in [Caller -> 0..drops]
  /\ served \in [ver : {0} \union Version, lag : 0..now, old : BOOLEAN]
  /\ up \in {"down", "warmed", "up", "refused"}

\* No rows that are in use, or on their way, were read before an invalidate that
\* they do not outrun.
Generations ==
  /\ _cache # NoSnap => _cache.gen = drops
  /\ \A c \in Caller : pc[c] = "read" => snap[c].gen = drops
  /\ InvalidateForcesRead

\* A version was replaced no earlier than its rows were read, and those rows are
\* used for the length of a load and TTL_SECONDS at most.
Timely ==
  /\ \A c \in Caller : pc[c] \in {"read", "committing"} =>
       /\ now <= readAt[c] + MaxLoad
       /\ snap[c] # NoSnap /\ snap[c].ver <= catalog
       /\ snap[c].ver # catalog => readAt[c] <= since[snap[c].ver + 1]
  /\ \A c \in Caller : pc[c] = "committing" => _cache \in {NoSnap, snap[c]}
  /\ _cache # NoSnap /\ _cache.ver # catalog =>
       _expires_at <= since[_cache.ver + 1] + Ttl + MaxLoad
  /\ StaleAtMostTtl

TimeInv == Clocks /\ Generations /\ Timely

\* The next version of one that was replaced is a version.
LEMMA NextVersion ==
  ASSUME CacheInv, NEW s \in Snapshot \union {NoSnap}, s # NoSnap, s.ver <= catalog,
         s.ver # catalog
  PROVE  s.ver + 1 \in Version /\ s.ver + 1 <= catalog /\ s.ver \in Nat
<1>1. s.ver \in 1..MaxVersion /\ catalog \in 1..MaxVersion
  BY SnapshotFacts DEF CacheInv, Typed, Version
<1> QED
  BY <1>1, CacheAssumption DEF Version

\* Whoever answers has a snapshot that is in force, or his own.
LEMMA AnswerInTime ==
  ASSUME CacheInv, TimeInv, NEW c \in Caller, Answer(c), Fresh \/ pc[c] = "committing",
         UNCHANGED <<now, catalog, since, drops, _cache, _expires_at>>
  PROVE  TimeInv'
<1>1. /\ pc' = [pc EXCEPT ![c] = "idle"] /\ snap' = [snap EXCEPT ![c] = NoSnap]
      /\ readAt' = [readAt EXCEPT ![c] = 0] /\ asked' = [asked EXCEPT ![c] = 0]
  BY DEF Answer, Return
<1>2. \/ served' = served
      \/ served' = [ver |-> IF _cache = NoSnap THEN served.ver ELSE _cache.ver,
                    lag |-> Lag(_cache),
                    old |-> _cache # NoSnap /\ _cache.gen < asked[c]]
  BY DEF Answer
<1>3. up' \in {"down", "warmed", "up", "refused"}
  BY DEF Answer, TimeInv, Clocks
<1>4. Lag(_cache) \in 0..now /\ Lag(_cache) <= Ttl + MaxLoad
  <2>1. CASE _cache = NoSnap \/ _cache.ver = catalog
    BY <2>1, CacheAssumption DEF Lag, TimeInv, Clocks
  <2>2. CASE _cache # NoSnap /\ _cache.ver # catalog
    <3>1. _cache.ver + 1 \in Version
      BY <2>2, NextVersion DEF CacheInv, Ordered, Typed
    <3>2. since[_cache.ver + 1] \in 0..now /\ now \in Nat /\ Lag(_cache) = now - since[_cache.ver + 1]
      BY <2>2, <3>1, CacheAssumption DEF Lag, TimeInv, Clocks
    <3>3. CASE Fresh
      <4>1. now < _expires_at /\ _expires_at <= since[_cache.ver + 1] + Ttl + MaxLoad
            /\ _expires_at \in Nat
        BY <2>2, <3>3, CacheAssumption DEF Fresh, TimeInv, Timely, Clocks
      <4> QED
        BY <3>2, <4>1, CacheAssumption
    <3>4. CASE pc[c] = "committing"
      <4>1. /\ now <= readAt[c] + MaxLoad /\ _cache = snap[c]
            /\ readAt[c] <= since[_cache.ver + 1] /\ readAt[c] \in Nat
        BY <2>2, <3>4, CacheAssumption DEF TimeInv, Timely, Clocks
      <4> QED
        BY <3>2, <4>1, CacheAssumption
    <3> QED
      BY <3>3, <3>4
  <2> QED
    BY <2>1, <2>2
<1>5. _cache # NoSnap => ~(_cache.gen < asked[c])
  <2>1. asked[c] \in 0..drops /\ drops \in Nat
    BY CacheAssumption DEF TimeInv, Clocks, CacheInv, Typed
  <2> QED
    BY <2>1 DEF TimeInv, Generations
<1>5a. \/ served' = served
       \/ \E v \in {0} \union Version, l \in 0..now : served' = [ver |-> v, lag |-> l, old |-> FALSE]
  <2> DEFINE v == IF _cache = NoSnap THEN served.ver ELSE _cache.ver
             l == Lag(_cache)
  <2>1. v \in {0} \union Version
    BY SnapshotFacts DEF CacheInv, Typed
  <2>2. l \in 0..now
    BY <1>4
  <2>3. (_cache # NoSnap /\ _cache.gen < asked[c]) = FALSE
    BY <1>5
  <2>4. served' = served \/ served' = [ver |-> v, lag |-> l, old |-> FALSE]
    BY <1>2, <2>3
  <2> HIDE DEF v, l
  <2> QED
    BY <2>1, <2>2, <2>4
<1>6. Clocks'
  <2>1. served' \in [ver : {0} \union Version, lag : 0..now, old : BOOLEAN]
    <3> DEFINE Answered == [ver : {0} \union Version, lag : 0..now, old : BOOLEAN]
    <3>1. served \in Answered
      BY DEF TimeInv, Clocks
    <3>2. \A v \in {0} \union Version, l \in 0..now : [ver |-> v, lag |-> l, old |-> FALSE] \in Answered
      OBVIOUS
    <3> HIDE DEF Answered
    <3>3. served' \in Answered
      BY <1>5a, <3>1, <3>2, Zenon
    <3> QED
      BY <3>3 DEF Answered
  <2>2. readAt' \in [Caller -> 0..now] /\ asked' \in [Caller -> 0..drops]
    BY <1>1, CacheAssumption DEF TimeInv, Clocks, CacheInv, Typed
  <2> QED
    BY <1>3, <2>1, <2>2 DEF TimeInv, Clocks
<1>7. \A d \in Caller :
        /\ pc'[d] \in {"read", "committing"} =>
             pc[d] = pc'[d] /\ snap'[d] = snap[d] /\ readAt'[d] = readAt[d]
  BY <1>1 DEF CacheInv, Typed, TimeInv, Clocks
<1>8. Generations'
  BY <1>5a, <1>7 DEF TimeInv, Generations, InvalidateForcesRead
<1>9. Timely'
  BY <1>2, <1>4, <1>7 DEF TimeInv, Timely, StaleAtMostTtl
<1> QED
  BY <1>6, <1>8, <1>9 DEF TimeInv

\* A load that raises, a call that begins, and one that joins the queue.
LEMMA CallInTime ==
  ASSUME CacheInv, TimeInv, NEW c \in Caller,
         UNCHANGED <<now, catalog, since, drops, _cache, _expires_at, served>>,
         \/ Fail(c)
         \/ /\ \E to \in {"asking", "locking", "selecting"} : pc' = [pc EXCEPT ![c] = to]
            /\ asked' = asked \/ asked' = [asked EXCEPT ![c] = drops]
            /\ UNCHANGED <<snap, readAt, up>>
  PROVE  TimeInv'
<1>1. \A d \in Caller :
        /\ pc'[d] \in {"read", "committing"} =>
             pc[d] = pc'[d] /\ snap'[d] = snap[d] /\ readAt'[d] = readAt[d]
  BY DEF CacheInv, Typed, TimeInv, Clocks, Fail, Return
<1>2. Clocks'
  <2>1. now \in Nat /\ drops \in Nat
    BY CacheAssumption DEF TimeInv, Clocks, CacheInv, Typed
  <2>2. readAt' \in [Caller -> 0..now]
    BY <2>1 DEF TimeInv, Clocks, Fail, Return
  <2>3. asked' \in [Caller -> 0..drops]
    BY <2>1 DEF TimeInv, Clocks, Fail, Return
  <2>4. up' \in {"down", "warmed", "up", "refused"}
    BY DEF TimeInv, Clocks, Fail
  <2> QED
    BY <2>2, <2>3, <2>4 DEF TimeInv, Clocks
<1>3. Generations' /\ Timely'
  BY <1>1 DEF TimeInv, Generations, InvalidateForcesRead, Timely, StaleAtMostTtl
<1> QED
  BY <1>2, <1>3 DEF TimeInv

LEMMA SelectInTime ==
  ASSUME CacheInv, TimeInv, NEW c \in Caller, Select(c)
  PROVE  TimeInv'
<1> DEFINE row == [ver |-> catalog, gen |-> drops]
<1>1. /\ pc' = [pc EXCEPT ![c] = "read"] /\ snap' = [snap EXCEPT ![c] = row]
      /\ readAt' = [readAt EXCEPT ![c] = now]
      /\ UNCHANGED <<now, catalog, since, drops, _cache, _expires_at, asked, served, up>>
  BY DEF Select, Goto
<1>2. row # NoSnap /\ row.ver = catalog /\ row.gen = drops /\ catalog \in Nat /\ now \in Nat
  BY CacheAssumption DEF CacheInv, Typed, NoSnap, Version, TimeInv, Clocks
<1> HIDE DEF row
<1>3. /\ pc'[c] = "read" /\ snap'[c] = row /\ readAt'[c] = now
      /\ \A d \in Caller : d # c => pc'[d] = pc[d] /\ snap'[d] = snap[d] /\ readAt'[d] = readAt[d]
  BY <1>1 DEF CacheInv, Typed, TimeInv, Clocks
<1>4. Clocks'
  BY <1>1, <1>2 DEF TimeInv, Clocks
<1>5. Generations'
  BY <1>1, <1>2, <1>3 DEF TimeInv, Generations, InvalidateForcesRead
<1>6. Timely'
  <2>1. \A d \in Caller : pc'[d] = "committing" => pc[d] = "committing" /\ snap'[d] = snap[d]
    BY <1>3
  <2> QED
    BY <1>1, <1>2, <1>3, <2>1, CacheAssumption DEF TimeInv, Timely, StaleAtMostTtl
<1> QED
  BY <1>4, <1>5, <1>6 DEF TimeInv

\* There is no other load that could still be committing.
LEMMA InstallInTime ==
  ASSUME CacheInv, TimeInv, NEW c \in Caller, Install(c)
  PROVE  TimeInv'
<1>1. /\ pc' = [pc EXCEPT ![c] = "committing"] /\ pc[c] = "read"
      /\ _cache' = snap[c] /\ _expires_at' = now + Ttl
      /\ UNCHANGED <<now, catalog, since, drops, snap, readAt, asked, served, up>>
  BY DEF Install, Goto
<1>2. \A d \in Caller : d # c => pc'[d] \notin {"read", "committing"}
  BY <1>1 DEF CacheInv, Typed, LoaderHoldsLock
<1>3. pc'[c] = "committing" /\ now \in Nat
  BY <1>1, CacheAssumption DEF CacheInv, Typed, TimeInv, Clocks
<1>4. Clocks'
  BY <1>1, <1>3, CacheAssumption DEF TimeInv, Clocks
<1>5. Generations'
  BY <1>1, <1>2, <1>3 DEF TimeInv, Generations, InvalidateForcesRead
<1>6. snap[c] # NoSnap /\ snap[c].ver # catalog =>
        now + Ttl <= since[snap[c].ver + 1] + Ttl + MaxLoad
  <2> SUFFICES ASSUME snap[c].ver # catalog
               PROVE  now + Ttl <= since[snap[c].ver + 1] + Ttl + MaxLoad
    OBVIOUS
  <2>1. /\ now <= readAt[c] + MaxLoad /\ readAt[c] <= since[snap[c].ver + 1]
        /\ snap[c] # NoSnap /\ snap[c].ver <= catalog
    BY <1>1 DEF TimeInv, Timely
  <2>2. snap[c].ver + 1 \in Version
    BY <2>1, NextVersion DEF CacheInv, Typed
  <2>3. since[snap[c].ver + 1] \in Nat /\ readAt[c] \in Nat
    BY <1>3, <2>2 DEF TimeInv, Clocks
  <2> QED
    BY <1>3, <2>1, <2>3, CacheAssumption
<1>7. Timely'
  BY <1>1, <1>2, <1>3, <1>6 DEF TimeInv, Timely, StaleAtMostTtl
<1> QED
  BY <1>4, <1>5, <1>7 DEF TimeInv

\* Time passes no further than the database takes; a version is replaced now; an
\* invalidate that outruns no load empties the cache.
LEMMA WorldInTime ==
  ASSUME CacheInv, TimeInv, ChangeCatalog \/ Tick \/ invalidate
  PROVE  TimeInv'
<1>0. now \in Nat /\ drops \in Nat /\ catalog \in Nat
  BY CacheAssumption DEF CacheInv, Typed, Version, TimeInv, Clocks
<1>1. CASE ChangeCatalog
  <2>1. /\ catalog' = catalog + 1 /\ since' = [since EXCEPT ![catalog + 1] = now]
        /\ UNCHANGED <<now, drops, _cache, _expires_at, pc, snap, readAt, asked, served, up>>
    BY <1>1 DEF ChangeCatalog
  <2>2. catalog + 1 \in Version
    BY <1>0, <1>1, CacheAssumption DEF ChangeCatalog, Version
  <2>3. since'[catalog + 1] = now /\ \A v \in Version : v # catalog + 1 => since'[v] = since[v]
    BY <2>1, <2>2 DEF TimeInv, Clocks
  <2>4. Clocks'
    <3>1. now \in 0..now
      BY <1>0
    <3>2. since' \in [Version -> 0..now]
      BY <2>1, <3>1 DEF TimeInv, Clocks
    <3> QED
      BY <2>1, <3>2 DEF TimeInv, Clocks
  <2>5. Generations'
    BY <2>1 DEF TimeInv, Generations, InvalidateForcesRead
  <2>6. ASSUME NEW s \in Snapshot \union {NoSnap}, s # NoSnap, s.ver <= catalog
        PROVE  /\ s.ver <= catalog' /\ s.ver # catalog'
               /\ s.ver = catalog => since'[s.ver + 1] = now
               /\ s.ver # catalog => since'[s.ver + 1] = since[s.ver + 1]
    <3>1. s.ver \in Nat
      BY SnapshotFacts
    <3>2. CASE s.ver = catalog
      BY <1>0, <2>1, <2>3, <3>1, <3>2
    <3>3. CASE s.ver # catalog
      <4>1. s.ver + 1 \in Version /\ s.ver + 1 <= catalog
        BY <2>6, <3>3, NextVersion
      <4>2. s.ver + 1 # catalog + 1 /\ s.ver <= catalog + 1 /\ s.ver # catalog + 1
        BY <1>0, <3>1, <4>1
      <4> QED
        BY <2>1, <2>3, <3>3, <4>1, <4>2
    <3> QED
      BY <3>2, <3>3
  <2>7. ASSUME NEW c \in Caller, pc'[c] \in {"read", "committing"}
        PROVE  /\ now' <= readAt'[c] + MaxLoad
               /\ snap'[c] # NoSnap /\ snap'[c].ver <= catalog'
               /\ snap'[c].ver # catalog' => readAt'[c] <= since'[snap'[c].ver + 1]
    <3>1. /\ now <= readAt[c] + MaxLoad /\ snap[c] # NoSnap /\ snap[c].ver <= catalog
          /\ snap[c].ver # catalog => readAt[c] <= since[snap[c].ver + 1]
      BY <2>1, <2>7 DEF TimeInv, Timely
    <3>2. snap[c] \in Snapshot \union {NoSnap} /\ readAt[c] <= now
      BY <1>0 DEF CacheInv, Typed, TimeInv, Clocks
    <3> QED
      BY <2>1, <2>6, <3>1, <3>2
  <2>8. _cache' # NoSnap /\ _cache'.ver # catalog' =>
          _expires_at' <= since'[_cache'.ver + 1] + Ttl + MaxLoad
    <3>1. _cache \in Snapshot \union {NoSnap} /\ _cache.ver <= catalog
      BY DEF CacheInv, Typed, Ordered
    <3>2. _expires_at <= now + Ttl + MaxLoad
      BY <1>0, CacheAssumption DEF TimeInv, Clocks
    <3> QED
      BY <2>1, <2>6, <3>1, <3>2 DEF TimeInv, Timely
  <2> QED
    BY <2>1, <2>4, <2>5, <2>7, <2>8 DEF TimeInv, Timely, StaleAtMostTtl
<1>2. CASE Tick
  <2>1. /\ now' = now + 1 /\ now < MaxTime
        /\ \A c \in Caller : pc[c] \in {"read", "committing"} => now < readAt[c] + MaxLoad
        /\ UNCHANGED <<catalog, since, drops, _cache, _expires_at, pc, snap, readAt, asked, served, up>>
    BY <1>2 DEF Tick
  <2>2. Clocks'
    <3>1. 0..now \subseteq 0..now' /\ now' \in 0..MaxTime
      BY <1>0, <2>1, CacheAssumption
    <3>2. _expires_at \in 0..now' + Ttl
      BY <1>0, <2>1, CacheAssumption DEF TimeInv, Clocks
    <3>3. since \in [Version -> 0..now'] /\ readAt \in [Caller -> 0..now']
      BY <3>1 DEF TimeInv, Clocks
    <3>4. served \in [ver : {0} \union Version, lag : 0..now', old : BOOLEAN]
      BY <3>1 DEF TimeInv, Clocks
    <3> QED
      BY <2>1, <3>1, <3>2, <3>3, <3>4 DEF TimeInv, Clocks
  <2>3. \A c \in Caller : pc[c] \in {"read", "committing"} => now' <= readAt[c] + MaxLoad
    BY <1>0, <2>1, CacheAssumption DEF TimeInv, Clocks
  <2> QED
    BY <2>1, <2>2, <2>3
    DEF TimeInv, Generations, InvalidateForcesRead, Timely, StaleAtMostTtl
<1>3. CASE invalidate
  <2>1. /\ _cache' = NoSnap /\ _expires_at' = 0
        /\ drops' = IF \E c \in Caller : pc[c] = "read" THEN drops ELSE drops + 1
        /\ UNCHANGED <<now, catalog, since, pc, snap, readAt, asked, served, up>>
    BY <1>3 DEF invalidate
  <2>2. Clocks'
    <3>1. 0..drops \subseteq 0..drops'
      BY <1>0, <2>1
    <3>2. asked \in [Caller -> 0..drops'] /\ 0 \in 0..now + Ttl
      BY <1>0, <3>1, CacheAssumption DEF TimeInv, Clocks
    <3> QED
      BY <2>1, <3>2 DEF TimeInv, Clocks
  <2>3. Generations' /\ Timely'
    BY <2>1 DEF TimeInv, Generations, InvalidateForcesRead, Timely, StaleAtMostTtl
  <2> QED
    BY <2>2, <2>3 DEF TimeInv
<1> QED
  BY <1>1, <1>2, <1>3

LEMMA StepInTime ==
  ASSUME CacheInv, TimeInv, [Next]_vars
  PROVE  TimeInv'
<1>1. CASE UNCHANGED vars
  BY <1>1
  DEF vars, TimeInv, Clocks, Generations, InvalidateForcesRead, Timely, StaleAtMostTtl
<1>2. ASSUME NEW c \in Caller, Call(c) PROVE TimeInv'
  BY <1>2, CallInTime DEF Call, Goto
<1>3. ASSUME NEW c \in Caller, EnsureFresh(c) PROVE TimeInv'
  <2>1. CASE Fresh
    BY <1>3, <2>1, AnswerInTime DEF EnsureFresh
  <2>2. CASE ~Fresh
    BY <1>3, <2>2, CallInTime DEF EnsureFresh, Goto
  <2> QED
    BY <2>1, <2>2
<1>4. ASSUME NEW c \in Caller, Acquire(c) PROVE TimeInv'
  <2>1. CASE Rechecked(c)
    BY <1>4, <2>1, AnswerInTime DEF Acquire, Rechecked
  <2>2. CASE ~Rechecked(c)
    BY <1>4, <2>2, CallInTime DEF Acquire, Goto
  <2> QED
    BY <2>1, <2>2
<1>5. ASSUME NEW c \in Caller, Committed(c) PROVE TimeInv'
  BY <1>5, AnswerInTime DEF Committed
<1>6. ASSUME NEW c \in Caller, LoadFails(c) PROVE TimeInv'
  BY <1>6, CallInTime DEF LoadFails, Fail
<1> QED
  BY <1>1, <1>2, <1>3, <1>4, <1>5, <1>6, WorldInTime, SelectInTime, InstallInTime
  DEF Next, Work

THEOREM CacheInvariant == Spec => [](CacheInv /\ TimeInv)
<1>1. Init => TimeInv
  BY CacheAssumption
  DEF Init, TimeInv, Clocks, Generations, InvalidateForcesRead, Timely, StaleAtMostTtl, Version
<1>2. CacheInv /\ TimeInv /\ [Next]_vars => CacheInv' /\ TimeInv'
  BY CacheStep, StepInTime
<1> QED
  BY <1>1, <1>2, CacheInitially, PTL DEF Spec

\* The cache, the lock and the clocks keep their types.
THEOREM CacheTypeCorrect == Spec => []CacheTypeOK
<1>1. CacheInv /\ TimeInv => CacheTypeOK
  BY DEF CacheInv, Typed, Phase, Loading, TimeInv, Clocks, CacheTypeOK
<1> QED
  BY <1>1, CacheInvariant, PTL

\* A change of the catalog takes effect within TTL_SECONDS and one load.
THEOREM ChangesTakeEffect == Spec => []StaleAtMostTtl
<1>1. TimeInv => StaleAtMostTtl
  BY DEF TimeInv, Timely
<1> QED
  BY <1>1, CacheInvariant, PTL

\* After an invalidate that no load outran, nobody is served from before it.
THEOREM InvalidateTakesEffect == Spec => []InvalidateForcesRead
<1>1. TimeInv => InvalidateForcesRead
  BY DEF TimeInv, Generations
<1> QED
  BY <1>1, CacheInvariant, PTL

\* There is one load at a time, and it holds the lock of actions_cache.
THEOREM OneLoader == Spec => []LoaderHoldsLock
<1>1. CacheInv /\ [Next]_vars => CacheInv'
  BY CacheStep
<1>2. CacheInv => LoaderHoldsLock
  BY DEF CacheInv
<1> QED
  BY <1>1, <1>2, CacheInitially, PTL DEF Spec

\* No request is judged by a version of the catalog older than the one an
\* earlier request was judged by.
THEOREM CatalogNeverBackwards == Spec => NeverBackwards
<1>1. CacheInv /\ [Next]_vars => CacheInv'
  BY CacheStep
<1>2. CacheInv /\ [Next]_vars => [served'.ver >= served.ver]_served
  BY CacheStep
<1> QED
  BY <1>1, <1>2, CacheInitially, PTL DEF Spec, NeverBackwards
===============================================================================
