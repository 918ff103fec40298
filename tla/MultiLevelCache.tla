--------------------------- MODULE MultiLevelCache ---------------------------
(***************************************************************************)
(* MultiLevelCacheService: values read through the memory of the process   *)
(* (L1), Redis (L2) and the database, coalesced loads, and the             *)
(* invalidation every update runs after its commit.  The version of a row  *)
(* stands for its contents.  Time passes in ticks; an operation on Redis   *)
(* or on the database is answered within Hold of them.                     *)
(***************************************************************************)
EXTENDS Integers

CONSTANTS Keys,       \* cache keys, each with the database row behind it
          Readers,    \* calls of wrap
          Writers,    \* updates that commit and then invalidate
          L1Ttl,      \* l1TtlSeconds, in ticks
          L2Ttl,      \* l2TtlSeconds
          Hold,       \* the longest an answer takes
          MaxVersion, \* bound: updates of one row
          None        \* no entry, no value, no key

ASSUME TtlAssumption == L1Ttl \in Nat /\ L2Ttl \in Nat /\ Hold \in Nat
ASSUME MaxVersionAssumption == MaxVersion \in Nat
ASSUME NoVersionAssumption ==
  None \notin Nat \cup Keys \cup Readers \cup [version: Nat, ttl: Nat]

VARIABLES db,       \* db[k]: version of the row in the database
          since,    \* since[k][v]: ticks since v stopped being the current one
          l1, l2,   \* entries of the two levels
          inFlight, \* inFlightLoads[k]: the reader whose load runs
          redisUp,  \* redisClient.status is ready
          reader, writer,
          suspect   \* history: keys an invalidation missed, and where

cacheVars == <<db, since, l1, l2, inFlight, redisUp, reader, writer, suspect>>

Versions == 0 .. MaxVersion
StalenessBound == Hold + L2Ttl + Hold + L1Ttl
Entry(ttl) == [version: Versions, ttl: 0 .. ttl]

(* asked: Redis has answered; waiting: for another's load; loaded: the     *)
(* database has answered; setting: L1 is set, Redis is not.                *)
ReaderStages == {"idle", "missed", "asked", "loading", "waiting", "loaded", "setting"}
WriterStages == {"idle", "committed", "dropped", "scanned"}
Reader == [stage: ReaderStages, key: Keys \cup {None}, value: Versions \cup {None},
           held: 0 .. Hold]
Writer == [stage: WriterStages, key: Keys \cup {None}, found: BOOLEAN]

CacheTypeOK ==
  /\ db \in [Keys -> Versions]
  /\ since \in [Keys -> [Versions -> 0 .. StalenessBound + 1]]
  /\ l1 \in [Keys -> Entry(L1Ttl) \cup {None}]
  /\ l2 \in [Keys -> Entry(L2Ttl) \cup {None}]
  /\ inFlight \in [Keys -> Readers \cup {None}]
  /\ redisUp \in BOOLEAN
  /\ reader \in [Readers -> Reader]
  /\ writer \in [Writers -> Writer]
  /\ suspect \in [Keys -> SUBSET {"l1", "l2"}]

-----------------------------------------------------------------------------
IdleReader == [stage |-> "idle", key |-> None, value |-> None, held |-> 0]
IdleWriter == [stage |-> "idle", key |-> None, found |-> FALSE]

CacheInit ==
  /\ db = [k \in Keys |-> 0]
  /\ since = [k \in Keys |-> [v \in Versions |-> 0]]
  /\ l1 = [k \in Keys |-> None] /\ l2 = [k \in Keys |-> None]
  /\ inFlight = [k \in Keys |-> None]
  /\ redisUp = TRUE
  /\ reader = [r \in Readers |-> IdleReader]
  /\ writer = [w \in Writers |-> IdleWriter]
  /\ suspect = [k \in Keys |-> {}]

Key(r) == reader[r].key
Value(r) == reader[r].value
At(r, stage) == reader[r].stage = stage

(* A version stored now that nobody is about to remove.                    *)
Undropped(k, level) ==
  \E w \in Writers :
    /\ writer[w].key = k
    /\ writer[w].stage \in IF level = "l1" THEN {"committed"}
                           ELSE {"committed", "dropped"}
Suspects(k, level, version) ==
  IF version < db[k] /\ ~Undropped(k, level)
  THEN [suspect EXCEPT ![k] = @ \cup {level}] ELSE suspect

PutL1(k, version) ==
  /\ l1' = [l1 EXCEPT ![k] = [version |-> version, ttl |-> L1Ttl]]
  /\ suspect' = Suspects(k, "l1", version)

-----------------------------------------------------------------------------
(* get: a hit in L1 answers at once; else Redis is asked, if it is up.     *)
Read(r, k) ==
  /\ At(r, "idle") /\ l1[k] = None
  /\ reader' = [reader EXCEPT ![r] = [stage |-> "missed", key |-> k, value |-> None,
                                     held |-> 0]]
  /\ UNCHANGED <<db, since, l1, l2, inFlight, redisUp, writer, suspect>>

AskRedis(r) ==
  /\ At(r, "missed") /\ redisUp
  /\ reader' = [reader EXCEPT
                  ![r].stage = "asked",
                  ![r].value = IF l2[Key(r)] = None THEN None
                               ELSE l2[Key(r)].version]
  /\ UNCHANGED <<db, since, l1, l2, inFlight, redisUp, writer, suspect>>

(* A value found in Redis fills L1, and keeps the time it has left there.  *)
BackfillSliding(r) ==
  /\ At(r, "asked") /\ Value(r) # None
  /\ PutL1(Key(r), Value(r))
  /\ l2' = [l2 EXCEPT ![Key(r)] = [version |-> Value(r), ttl |-> L2Ttl]]
  /\ reader' = [reader EXCEPT ![r] = IdleReader]
  /\ UNCHANGED <<db, since, inFlight, redisUp, writer>>
Backfill(r) ==
  /\ At(r, "asked") /\ Value(r) # None
  /\ PutL1(Key(r), Value(r))
  /\ reader' = [reader EXCEPT ![r] = IdleReader]
  /\ UNCHANGED <<db, since, l2, inFlight, redisUp, writer>>

(* wrap after a miss, or with Redis down or failing: join the load that    *)
(* runs, or start one.                                                     *)
StartLoad(r) ==
  /\ \/ At(r, "missed")
     \/ At(r, "asked") /\ Value(r) = None
  /\ LET k == Key(r)
         starts == inFlight[k] = None
     IN  /\ inFlight' = IF starts THEN [inFlight EXCEPT ![k] = r] ELSE inFlight
         /\ reader' = [reader EXCEPT
                         ![r].held = 0,
                         ![r].stage = IF starts THEN "loading" ELSE "waiting"]
  /\ UNCHANGED <<db, since, l1, l2, redisUp, writer, suspect>>

LoadRow(r) ==
  /\ At(r, "loading")
  /\ reader' = [reader EXCEPT ![r].stage = "loaded", ![r].value = db[Key(r)],
                              ![r].held = 0]
  /\ UNCHANGED <<db, since, l1, l2, inFlight, redisUp, writer, suspect>>

Joined(r) == {r} \cup {p \in Readers : At(p, "waiting") /\ Key(p) = Key(r)}

(* The load's answer reaches all who await it, in one turn of the event    *)
(* loop: each sets L1, then sends its own SET.                             *)
ResolveKeeping(r) ==
  /\ At(r, "loaded")
  /\ PutL1(Key(r), Value(r))
  /\ reader' = [p \in Readers |->
                  IF p \in Joined(r)
                  THEN [reader[r] EXCEPT !.stage = "setting"] ELSE reader[p]]
  /\ UNCHANGED <<db, since, l2, inFlight, redisUp, writer>>
Resolve(r) ==
  /\ At(r, "loaded")
  /\ PutL1(Key(r), Value(r))
  /\ inFlight' = [inFlight EXCEPT ![Key(r)] = None]
  /\ reader' = [p \in Readers |->
                  IF p \in Joined(r)
                  THEN [reader[r] EXCEPT !.stage = "setting"] ELSE reader[p]]
  /\ UNCHANGED <<db, since, l2, redisUp, writer>>

FailLoad(r) ==
  /\ At(r, "loading") \/ At(r, "loaded")
  /\ inFlight' = [inFlight EXCEPT ![Key(r)] = None]
  /\ reader' = [p \in Readers |->
                  IF p \in Joined(r) THEN IdleReader ELSE reader[p]]
  /\ UNCHANGED <<db, since, l1, l2, redisUp, writer, suspect>>

StoreInRedis(r) ==
  /\ At(r, "setting") /\ redisUp
  /\ l2' = [l2 EXCEPT ![Key(r)] = [version |-> Value(r), ttl |-> L2Ttl]]
  /\ suspect' = Suspects(Key(r), "l2", Value(r))
  /\ reader' = [reader EXCEPT ![r] = IdleReader]
  /\ UNCHANGED <<db, since, l1, inFlight, redisUp, writer>>

(* Redis is down or the SET fails: the error is swallowed.                 *)
SkipStore(r) ==
  /\ At(r, "setting")
  /\ reader' = [reader EXCEPT ![r] = IdleReader]
  /\ UNCHANGED <<db, since, l1, l2, inFlight, redisUp, writer, suspect>>

-----------------------------------------------------------------------------
(* An update commits, then invalidates: L1, then what a scan of Redis      *)
(* finds.                                                                  *)
Update(w, k) ==
  /\ writer[w].stage = "idle" /\ db[k] < MaxVersion
  /\ db' = [db EXCEPT ![k] = @ + 1]
  /\ writer' = [writer EXCEPT ![w] = [stage |-> "committed", key |-> k, found |-> FALSE]]
  /\ UNCHANGED <<since, l1, l2, inFlight, redisUp, reader, suspect>>

DropL1(w) ==
  /\ writer[w].stage = "committed"
  /\ l1' = [l1 EXCEPT ![writer[w].key] = None]
  /\ writer' = [writer EXCEPT ![w].stage = "dropped"]
  /\ UNCHANGED <<db, since, l2, inFlight, redisUp, reader, suspect>>

Scan(w) ==
  /\ writer[w].stage = "dropped" /\ redisUp
  /\ writer' = [writer EXCEPT ![w].stage = "scanned",
                              ![w].found = l2[writer[w].key] # None]
  /\ UNCHANGED <<db, since, l1, l2, inFlight, redisUp, reader, suspect>>

DropL2Nothing(w) ==
  /\ writer[w].stage = "scanned" /\ redisUp
  /\ writer' = [writer EXCEPT ![w] = IdleWriter]
  /\ UNCHANGED <<db, since, l1, l2, inFlight, redisUp, reader, suspect>>
DropL2(w) ==
  /\ writer[w].stage = "scanned" /\ redisUp
  /\ l2' = IF writer[w].found THEN [l2 EXCEPT ![writer[w].key] = None] ELSE l2
  /\ writer' = [writer EXCEPT ![w] = IdleWriter]
  /\ UNCHANGED <<db, since, l1, inFlight, redisUp, reader, suspect>>

(* Redis is down, or SCAN or DEL fails: the error is swallowed.            *)
SkipL2(w) ==
  /\ writer[w].stage \in {"dropped", "scanned"} /\ ~redisUp
  /\ writer' = [writer EXCEPT ![w] = IdleWriter]
  /\ suspect' = [suspect EXCEPT ![writer[w].key] = @ \cup {"l2"}]
  /\ UNCHANGED <<db, since, l1, l2, inFlight, redisUp, reader>>

-----------------------------------------------------------------------------
(* Another key's set evicts the least recently used one.                   *)
Evict(k) ==
  /\ l1[k] # None
  /\ l1' = [l1 EXCEPT ![k] = None]
  /\ UNCHANGED <<db, since, l2, inFlight, redisUp, reader, writer, suspect>>

RedisChanges ==
  /\ redisUp' = ~redisUp
  /\ UNCHANGED <<db, since, l1, l2, inFlight, reader, writer, suspect>>

(* The process restarts: its memory is empty, and an update that had       *)
(* committed never invalidates Redis.                                      *)
Restart ==
  /\ l1' = [k \in Keys |-> None]
  /\ inFlight' = [k \in Keys |-> None]
  /\ reader' = [r \in Readers |-> IdleReader]
  /\ writer' = [w \in Writers |-> IdleWriter]
  /\ suspect' = [k \in Keys |->
                   IF \E w \in Writers : writer[w].key = k
                   THEN suspect[k] \cup {"l2"} ELSE suspect[k]]
  /\ UNCHANGED <<db, since, l2, redisUp>>

OlderForEver(entry) == IF entry = None THEN None ELSE [entry EXCEPT !.ttl = @ - 1]
Older(entry) == IF entry = None \/ entry.ttl = 0 THEN None
                ELSE [entry EXCEPT !.ttl = @ - 1]

(* Whoever holds a value that may be old by now.                           *)
Holding(r) == Value(r) # None

Tick ==
  /\ \A r \in Readers : Holding(r) => reader[r].held < Hold
  /\ l1' = [k \in Keys |-> Older(l1[k])]
  /\ l2' = [k \in Keys |-> Older(l2[k])]
  /\ since' = [k \in Keys |-> [v \in Versions |->
                 IF v < db[k] /\ since[k][v] <= StalenessBound
                 THEN since[k][v] + 1 ELSE since[k][v]]]
  /\ reader' = [r \in Readers |->
                  IF Holding(r) THEN [reader[r] EXCEPT !.held = @ + 1] ELSE reader[r]]
  /\ UNCHANGED <<db, inFlight, redisUp, writer, suspect>>

Respond(r) == \/ AskRedis(r) \/ Backfill(r) \/ StartLoad(r) \/ LoadRow(r)
              \/ Resolve(r) \/ StoreInRedis(r) \/ SkipStore(r)
Invalidate(w) == DropL1(w) \/ Scan(w) \/ DropL2(w) \/ SkipL2(w)

CacheNext ==
  \/ \E r \in Readers : \/ \E k \in Keys : Read(r, k)
                        \/ Respond(r) \/ FailLoad(r)
  \/ \E w \in Writers : (\E k \in Keys : Update(w, k)) \/ Invalidate(w)
  \/ \E k \in Keys : Evict(k)
  \/ RedisChanges \/ Restart \/ Tick

CacheSpec == CacheInit /\ [][CacheNext]_cacheVars

(* The process answers what it has begun, and time passes.                 *)
CacheFairSpec ==
  /\ CacheSpec
  /\ \A r \in Readers : WF_cacheVars(Respond(r))
  /\ WF_cacheVars(Tick)

-----------------------------------------------------------------------------
Stale(k, entry) == entry # None /\ entry.version < db[k]
Pending(k) == \E w \in Writers : writer[w].key = k

(* Coalescing: one load at a time for a key, and whoever waits waits for a *)
(* load that still runs and whose answer it will get.                      *)
WaitersHaveALoad ==
  /\ \A k \in Keys : inFlight[k] # None =>
       Key(inFlight[k]) = k /\ reader[inFlight[k]].stage \in {"loading", "loaded"}
  /\ \A r \in Readers :
       /\ At(r, "waiting") => inFlight[Key(r)] # None
       /\ reader[r].stage \in {"loading", "loaded"} => inFlight[Key(r)] = r

(* Once every update has invalidated its key, neither level holds an old   *)
(* version, unless a reader stored one that was current when it read it,   *)
(* or Redis was down or the process restarted before its copy was dropped. *)
StaleOnlyByRaceOrOutage ==
  \A k \in Keys : ~Pending(k) =>
    /\ Stale(k, l1[k]) => suspect[k] # {}
    /\ Stale(k, l2[k]) => "l2" \in suspect[k]

(* "Cache L1 30s L2 120s": whatever races and outages do, what L1 answers  *)
(* stopped being current at most both lifetimes and two answers ago.       *)
StalenessBounded ==
  \A k \in Keys :
    /\ l1[k] # None => since[k][l1[k].version] <= StalenessBound
    /\ l2[k] # None => since[k][l2[k].version] <= Hold + L2Ttl

(* When updates stop, both levels come to hold what the database holds.    *)
EventuallyFresh ==
  \A k \in Keys : <>[](~Stale(k, l1[k]) /\ ~Stale(k, l2[k]))
=============================================================================
