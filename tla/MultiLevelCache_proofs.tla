------------------------ MODULE MultiLevelCache_proofs ------------------------
(***************************************************************************)
(* For any keys, readers and writers and any lifetimes: the cache keeps    *)
(* its shape, coalesces loads, answers nothing older than the bound, and   *)
(* is left with an old version only where the history says so.             *)
(***************************************************************************)
EXTENDS MultiLevelCache, TLAPS

USE TtlAssumption, MaxVersionAssumption, NoVersionAssumption
  DEF TtlAssumption, MaxVersionAssumption, NoVersionAssumption

(* What a stage says of its reader or writer.                              *)
ReaderAgrees(x) ==
  /\ x.stage # "idle" => x.key \in Keys
  /\ x.stage \in {"loaded", "setting"} => x.value # None
  /\ x.stage \in {"idle", "missed", "loading", "waiting"} => x.value = None
  /\ x.stage = "missed" => x.held = 0
GoodReader(x) == x \in Reader /\ ReaderAgrees(x)
GoodWriter(x) == x \in Writer /\ (x.stage # "idle" => x.key \in Keys)

Shape ==
  /\ CacheTypeOK
  /\ \A r \in Readers : GoodReader(reader[r])
  /\ \A w \in Writers : GoodWriter(writer[w])

LEMMA ShapeInit == CacheInit => Shape
BY DEF CacheInit, Shape, CacheTypeOK, IdleReader, IdleWriter, GoodReader, ReaderAgrees,
       GoodWriter, Reader, Writer, ReaderStages, WriterStages, Versions, StalenessBound

LEMMA Idle == GoodReader(IdleReader) /\ GoodWriter(IdleWriter)
BY DEF IdleReader, IdleWriter, GoodReader, GoodWriter, ReaderAgrees, Reader, Writer,
       ReaderStages, WriterStages

-----------------------------------------------------------------------------
LEMMA PutL1Shape ==
  ASSUME Shape, NEW k \in Keys, NEW v \in Versions, PutL1(k, v)
  PROVE  /\ l1' \in [Keys -> Entry(L1Ttl) \cup {None}]
         /\ suspect' \in [Keys -> SUBSET {"l1", "l2"}]
BY DEF Shape, CacheTypeOK, PutL1, Suspects, Entry

(* One reader goes on.                                                     *)
LEMMA ReaderGoesOn ==
  ASSUME Shape, NEW r \in Readers, NEW x, GoodReader(x), reader' = [reader EXCEPT ![r] = x]
  PROVE  /\ reader' \in [Readers -> Reader]
         /\ \A p \in Readers : GoodReader(reader'[p])
BY DEF Shape, CacheTypeOK, GoodReader

LEMMA WriterGoesOn ==
  ASSUME Shape, NEW w \in Writers, NEW x, GoodWriter(x), writer' = [writer EXCEPT ![w] = x]
  PROVE  /\ writer' \in [Writers -> Writer]
         /\ \A p \in Writers : GoodWriter(writer'[p])
BY DEF Shape, CacheTypeOK, GoodWriter

LEMMA ReaderShape ==
  ASSUME Shape, NEW r \in Readers,
         (\E k \in Keys : Read(r, k)) \/ Respond(r) \/ FailLoad(r)
  PROVE  Shape'
<1> USE DEF At, Key, Value
<1>a. GoodReader(reader[r]) /\ reader \in [Readers -> Reader]
  BY DEF Shape, CacheTypeOK
<1>b. ASSUME NEW x, GoodReader(x), reader' = [reader EXCEPT ![r] = x],
             UNCHANGED writer, CacheTypeOK'
      PROVE  Shape'
  BY <1>b, ReaderGoesOn DEF Shape
<1>1. ASSUME NEW k \in Keys, Read(r, k) PROVE Shape'
  <2> DEFINE x == [stage |-> "missed", key |-> k, value |-> None, held |-> 0]
  <2>1. GoodReader(x)
    BY DEF GoodReader, ReaderAgrees, Reader, ReaderStages
  <2>2. reader' = [reader EXCEPT ![r] = x] /\ UNCHANGED writer
    BY <1>1 DEF Read
  <2> HIDE DEF x
  <2>3. CacheTypeOK'
    BY <1>1, <2>1, <2>2, ReaderGoesOn DEF Read, Shape, CacheTypeOK
  <2>4. QED BY <1>b, <2>1, <2>2, <2>3
<1>2. CASE AskRedis(r)
  <2> DEFINE found == IF l2[Key(r)] = None THEN None ELSE l2[Key(r)].version
             x == [reader[r] EXCEPT !.stage = "asked", !.value = found]
  <2>1. Key(r) \in Keys /\ found \in Versions \cup {None}
    BY <1>2, <1>a DEF AskRedis, GoodReader, ReaderAgrees, Shape, CacheTypeOK, Entry
  <2>2. reader' = [reader EXCEPT ![r] = x] /\ UNCHANGED writer
    BY <1>2, <1>a DEF AskRedis
  <2> HIDE DEF found
  <2>3. GoodReader(x)
    BY <1>2, <1>a, <2>1 DEF AskRedis, GoodReader, ReaderAgrees, Reader, ReaderStages
  <2> HIDE DEF x
  <2>4. CacheTypeOK'
    BY <1>2, <2>2, <2>3, ReaderGoesOn DEF AskRedis, Shape, CacheTypeOK
  <2>5. QED BY <1>b, <2>2, <2>3, <2>4
<1>3. CASE Backfill(r)
  <2>1. Key(r) \in Keys /\ Value(r) \in Versions
    BY <1>3, <1>a DEF Backfill, GoodReader, ReaderAgrees, Reader
  <2>2. CacheTypeOK'
    BY <1>3, <2>1, PutL1Shape, Idle, ReaderGoesOn DEF Backfill, Shape, CacheTypeOK
  <2>3. QED BY <1>3, <1>b, <2>2, Idle DEF Backfill
<1>4. CASE StartLoad(r)
  <2> DEFINE x == reader'[r]
  <2>1. reader' = [reader EXCEPT ![r] = x] /\ UNCHANGED writer
    BY <1>4, <1>a DEF StartLoad
  <2>2. GoodReader(x)
    <3>1. Key(r) \in Keys /\ Value(r) = None /\ reader[r] \in Reader
      BY <1>4, <1>a DEF StartLoad, GoodReader, ReaderAgrees
    <3>2. PICK stage \in {"loading", "waiting"} :
            x = [reader[r] EXCEPT !.held = 0, !.stage = stage]
      BY <1>4, <1>a DEF StartLoad
    <3>3. x = [stage |-> stage, key |-> Key(r), value |-> None, held |-> 0]
      BY <3>1, <3>2 DEF Reader
    <3>4. QED BY <3>1, <3>3 DEF GoodReader, ReaderAgrees, Reader, ReaderStages
  <2>3. inFlight' \in [Keys -> Readers \cup {None}]
    BY <1>4 DEF StartLoad, Shape, CacheTypeOK
  <2> HIDE DEF x
  <2>4. CacheTypeOK'
    BY <1>4, <2>1, <2>2, <2>3, ReaderGoesOn DEF StartLoad, Shape, CacheTypeOK
  <2>5. QED BY <1>b, <2>1, <2>2, <2>4
<1>5. CASE LoadRow(r)
  <2> DEFINE x == [reader[r] EXCEPT !.stage = "loaded", !.value = db[Key(r)], !.held = 0]
  <2>1. reader' = [reader EXCEPT ![r] = x] /\ UNCHANGED writer
    BY <1>5, <1>a DEF LoadRow
  <2>2. Key(r) \in Keys /\ db[Key(r)] \in Versions /\ Versions \subseteq Nat
    BY <1>5, <1>a DEF LoadRow, GoodReader, ReaderAgrees, Shape, CacheTypeOK, Versions
  <2>3. GoodReader(x)
    BY <1>5, <1>a, <2>2 DEF LoadRow, GoodReader, ReaderAgrees, Reader, ReaderStages
  <2> HIDE DEF x
  <2>4. CacheTypeOK'
    BY <1>5, <2>1, <2>3, ReaderGoesOn DEF LoadRow, Shape, CacheTypeOK
  <2>5. QED BY <1>b, <2>1, <2>3, <2>4
<1>6. CASE Resolve(r)
  <2> DEFINE x == [reader[r] EXCEPT !.stage = "setting"]
  <2>1. Key(r) \in Keys /\ Value(r) \in Versions
    BY <1>6, <1>a DEF Resolve, GoodReader, ReaderAgrees, Reader
  <2>2. GoodReader(x)
    BY <1>6, <1>a DEF Resolve, GoodReader, ReaderAgrees, Reader, ReaderStages
  <2>3. reader' = [p \in Readers |-> IF p \in Joined(r) THEN x ELSE reader[p]]
    BY <1>6 DEF Resolve
  <2> HIDE DEF x
  <2>4. /\ reader' \in [Readers -> Reader]
        /\ \A p \in Readers : GoodReader(reader'[p])
    BY <2>2, <2>3 DEF Shape, GoodReader
  <2>5. CacheTypeOK'
    BY <1>6, <2>1, <2>4, PutL1Shape DEF Resolve, Shape, CacheTypeOK
  <2>6. QED BY <1>6, <2>4, <2>5 DEF Resolve, Shape
<1>7. CASE StoreInRedis(r)
  <2>1. Key(r) \in Keys /\ Value(r) \in Versions
    BY <1>7, <1>a DEF StoreInRedis, GoodReader, ReaderAgrees, Reader
  <2>2. l2' \in [Keys -> Entry(L2Ttl) \cup {None}]
    BY <1>7, <2>1 DEF StoreInRedis, Entry, Shape, CacheTypeOK
  <2>3. suspect' \in [Keys -> SUBSET {"l1", "l2"}]
    BY <1>7, <2>1 DEF StoreInRedis, Suspects, Shape, CacheTypeOK
  <2>4. CacheTypeOK'
    BY <1>7, <2>2, <2>3, Idle, ReaderGoesOn DEF StoreInRedis, Shape, CacheTypeOK
  <2>5. QED BY <1>7, <1>b, <2>4, Idle DEF StoreInRedis
<1>8. CASE SkipStore(r)
  <2>1. CacheTypeOK'
    BY <1>8, Idle, ReaderGoesOn DEF SkipStore, Shape, CacheTypeOK
  <2>2. QED BY <1>8, <1>b, <2>1, Idle DEF SkipStore
<1>9. CASE FailLoad(r)
  <2>1. /\ reader' \in [Readers -> Reader]
        /\ \A p \in Readers : GoodReader(reader'[p])
    BY <1>9, Idle DEF FailLoad, Shape, GoodReader
  <2>2. QED BY <1>9, <2>1 DEF FailLoad, Shape, CacheTypeOK
<1>10. QED BY <1>1, <1>2, <1>3, <1>4, <1>5, <1>6, <1>7, <1>8, <1>9 DEF Respond

LEMMA WriterShape ==
  ASSUME Shape, NEW w \in Writers, (\E k \in Keys : Update(w, k)) \/ Invalidate(w)
  PROVE  Shape'
<1>a. GoodWriter(writer[w]) /\ writer \in [Writers -> Writer]
  BY DEF Shape, CacheTypeOK
<1>b. ASSUME NEW x, GoodWriter(x), writer' = [writer EXCEPT ![w] = x],
             UNCHANGED reader, 
             writer' \in [Writers -> Writer] => CacheTypeOK'
      PROVE  Shape'
  BY <1>b, WriterGoesOn DEF Shape
<1>1. ASSUME NEW k \in Keys, Update(w, k) PROVE Shape'
  <2> DEFINE x == [stage |-> "committed", key |-> k, found |-> FALSE]
  <2>1. GoodWriter(x)
    BY DEF GoodWriter, Writer, WriterStages
  <2>2. db' \in [Keys -> Versions]
    BY <1>1 DEF Update, Versions, Shape, CacheTypeOK
  <2>3. writer' = [writer EXCEPT ![w] = x]
    BY <1>1 DEF Update
  <2> HIDE DEF x
  <2>4. QED BY <1>1, <1>b, <2>1, <2>2, <2>3 DEF Update, Shape, CacheTypeOK
<1>2. CASE DropL1(w)
  <2> DEFINE x == [writer[w] EXCEPT !.stage = "dropped"]
  <2>1. GoodWriter(x) /\ writer' = [writer EXCEPT ![w] = x]
    BY <1>2, <1>a DEF DropL1, GoodWriter, Writer, WriterStages
  <2> HIDE DEF x
  <2>2. QED BY <1>2, <1>b, <2>1 DEF DropL1, Shape, CacheTypeOK
<1>3. CASE Scan(w)
  <2> DEFINE x == [writer[w] EXCEPT !.stage = "scanned", !.found = l2[writer[w].key] # None]
  <2>1. GoodWriter(x) /\ writer' = [writer EXCEPT ![w] = x]
    BY <1>3, <1>a DEF Scan, GoodWriter, Writer, WriterStages
  <2> HIDE DEF x
  <2>2. QED BY <1>3, <1>b, <2>1 DEF Scan, Shape, CacheTypeOK
<1>4. CASE DropL2(w)
  BY <1>4, <1>b, Idle DEF DropL2, Shape, CacheTypeOK
<1>5. CASE SkipL2(w)
  <2>1. suspect' \in [Keys -> SUBSET {"l1", "l2"}]
    BY <1>5 DEF SkipL2, Shape, CacheTypeOK
  <2>2. QED BY <1>5, <1>b, <2>1, Idle DEF SkipL2, Shape, CacheTypeOK
<1>6. QED BY <1>1, <1>2, <1>3, <1>4, <1>5 DEF Invalidate

LEMMA OlderEntry ==
  ASSUME NEW ttl \in Nat, NEW entry \in Entry(ttl), entry.ttl # 0
  PROVE  /\ [entry EXCEPT !.ttl = @ - 1] \in Entry(ttl)
         /\ [entry EXCEPT !.ttl = @ - 1].version = entry.version
         /\ [entry EXCEPT !.ttl = @ - 1].ttl = entry.ttl - 1
BY DEF Entry

LEMMA TickShape ==
  ASSUME Shape, Tick
  PROVE  Shape'
<1>1. l1' \in [Keys -> Entry(L1Ttl) \cup {None}]
  BY OlderEntry DEF Tick, Older, Shape, CacheTypeOK
<1>2. l2' \in [Keys -> Entry(L2Ttl) \cup {None}]
  BY OlderEntry DEF Tick, Older, Shape, CacheTypeOK
<1>3. since' \in [Keys -> [Versions -> 0 .. StalenessBound + 1]]
  BY DEF Tick, StalenessBound, Shape, CacheTypeOK
<1>4. \A r \in Readers : GoodReader(reader'[r])
  <2> SUFFICES ASSUME NEW r \in Readers PROVE GoodReader(reader'[r])
    OBVIOUS
  <2>1. GoodReader(reader[r])
    BY DEF Shape
  <2>2. CASE Holding(r)
    BY <2>1, <2>2 DEF Tick, Holding, Value, GoodReader, ReaderAgrees, Reader
  <2>3. CASE ~Holding(r)
    BY <2>1, <2>3 DEF Tick
  <2>4. QED BY <2>2, <2>3
<1>5. reader' \in [Readers -> Reader]
  <2>1. reader' = [r \in Readers |-> reader'[r]]
    BY DEF Tick
  <2>2. QED BY <1>4, <2>1 DEF GoodReader
<1>6. QED BY <1>1, <1>2, <1>3, <1>4, <1>5 DEF Tick, Shape, CacheTypeOK

LEMMA ShapeStep == Shape /\ [CacheNext]_cacheVars => Shape'
<1> SUFFICES ASSUME Shape, [CacheNext]_cacheVars PROVE Shape'
  OBVIOUS
<1>1. CASE UNCHANGED cacheVars
  BY <1>1 DEF cacheVars, Shape, CacheTypeOK
<1>2. ASSUME NEW k \in Keys, Evict(k) PROVE Shape'
  BY <1>2 DEF Evict, Shape, CacheTypeOK
<1>3. CASE RedisChanges
  BY <1>3 DEF RedisChanges, Shape, CacheTypeOK
<1>4. CASE Restart
  BY <1>4, Idle DEF Restart, Shape, CacheTypeOK, GoodReader, GoodWriter
<1>5. QED BY <1>1, <1>2, <1>3, <1>4, ReaderShape, WriterShape, TickShape DEF CacheNext

LEMMA ShapeHolds == CacheSpec => []Shape
<1>1. QED BY ShapeInit, ShapeStep, PTL DEF CacheSpec

(* The levels, the loads, the callers and the history are always what the  *)
(* code's types say.                                                       *)
THEOREM CacheTyped == CacheSpec => []CacheTypeOK
<1>1. Shape => CacheTypeOK
  BY DEF Shape
<1>2. QED BY <1>1, ShapeHolds, PTL

-----------------------------------------------------------------------------
LEMMA WaitersInit == CacheInit => WaitersHaveALoad
BY DEF CacheInit, WaitersHaveALoad, IdleReader, At, Key

LEMMA WaitersStep ==
  ASSUME Shape, WaitersHaveALoad, [CacheNext]_cacheVars
  PROVE  WaitersHaveALoad'
<1> USE DEF WaitersHaveALoad, At, Key, Value
<1>a. /\ reader \in [Readers -> Reader] /\ inFlight \in [Keys -> Readers \cup {None}]
      /\ \A r \in Readers : GoodReader(reader[r])
  BY DEF Shape, CacheTypeOK
<1>1. CASE UNCHANGED <<reader, inFlight>>
  BY <1>1
<1>2. ASSUME NEW r \in Readers, NEW k \in Keys, Read(r, k)
      PROVE  WaitersHaveALoad'
  BY <1>2, <1>a DEF Read
<1>3. ASSUME NEW r \in Readers, AskRedis(r)
      PROVE  WaitersHaveALoad'
  BY <1>3, <1>a DEF AskRedis
<1>4. ASSUME NEW r \in Readers, Backfill(r)
      PROVE  WaitersHaveALoad'
  BY <1>4, <1>a DEF Backfill, IdleReader
<1>5. ASSUME NEW r \in Readers, StartLoad(r)
      PROVE  WaitersHaveALoad'
  <2>1. Key(r) \in Keys
    BY <1>5, <1>a DEF StartLoad, GoodReader, ReaderAgrees
  <2>2. QED BY <1>5, <1>a, <2>1 DEF StartLoad
<1>6. ASSUME NEW r \in Readers, LoadRow(r)
      PROVE  WaitersHaveALoad'
  BY <1>6, <1>a DEF LoadRow
<1>7. ASSUME NEW r \in Readers, Resolve(r)
      PROVE  WaitersHaveALoad'
  BY <1>7, <1>a DEF Resolve, Joined
<1>8. ASSUME NEW r \in Readers, FailLoad(r)
      PROVE  WaitersHaveALoad'
  BY <1>8, <1>a DEF FailLoad, Joined, IdleReader
<1>9. ASSUME NEW r \in Readers, StoreInRedis(r) \/ SkipStore(r)
      PROVE  WaitersHaveALoad'
  BY <1>9, <1>a DEF StoreInRedis, SkipStore, IdleReader
<1>10. CASE Restart
  BY <1>10 DEF Restart, IdleReader
<1>11. CASE Tick
  <2>1. \A r \in Readers : /\ reader'[r].stage = reader[r].stage
                           /\ reader'[r].key = reader[r].key
    BY <1>11, <1>a DEF Tick, Reader
  <2>2. QED BY <1>11, <1>a, <2>1 DEF Tick
<1>12. QED
  BY <1>1, <1>2, <1>3, <1>4, <1>5, <1>6, <1>7, <1>8, <1>9, <1>10, <1>11
  DEF CacheNext, Respond, Invalidate, Update, DropL1, Scan, DropL2, SkipL2, Evict,
      RedisChanges, cacheVars

(* Loads are coalesced: whoever waits has a load that runs, the only one   *)
(* of its key.                                                             *)
THEOREM LoadsCoalesced == CacheSpec => []WaitersHaveALoad
<1>1. QED BY ShapeHolds, WaitersInit, WaitersStep, PTL DEF CacheSpec

-----------------------------------------------------------------------------
(* How long ago a version stored in a level, or held by a reader, stopped  *)
(* being current: the entry's age in its level is its lifetime less what   *)
(* is left of it.                                                          *)
Current == \A k \in Keys, v \in Versions : v >= db[k] => since[k][v] = 0
AgesInRedis == \A k \in Keys : l2[k] # None =>
  since[k][l2[k].version] + l2[k].ttl <= Hold + L2Ttl
AgesInMemory == \A k \in Keys : l1[k] # None =>
  since[k][l1[k].version] + l1[k].ttl <= StalenessBound
AgesHeld == \A r \in Readers : Holding(r) =>
  since[Key(r)][Value(r)] <=
    reader[r].held + (IF At(r, "asked") THEN Hold + L2Ttl ELSE 0)
Ages == Current /\ AgesInRedis /\ AgesInMemory /\ AgesHeld

LEMMA AgesInit == CacheInit => Ages
BY DEF CacheInit, Ages, Current, AgesInRedis, AgesInMemory, AgesHeld, IdleReader, Holding,
       Value

(* A reader's value is of its key, and what it stores in a level is young. *)
LEMMA HeldAge ==
  ASSUME Shape, Ages, NEW r \in Readers, Holding(r)
  PROVE  /\ Key(r) \in Keys /\ Value(r) \in Versions
         /\ since[Key(r)][Value(r)] <= Hold + Hold + L2Ttl
         /\ ~At(r, "asked") => since[Key(r)][Value(r)] <= Hold
<1>1. GoodReader(reader[r])
  BY DEF Shape
<1>2. /\ Key(r) \in Keys /\ Value(r) \in Versions /\ reader[r].held \in 0 .. Hold
  BY <1>1 DEF GoodReader, ReaderAgrees, Reader, Key, Value, Holding
<1>3. since[Key(r)][Value(r)] \in Nat
  BY <1>2 DEF Shape, CacheTypeOK
<1>4. QED BY <1>2, <1>3 DEF Ages, AgesHeld

LEMMA AgesStep ==
  ASSUME Shape, Ages, [CacheNext]_cacheVars
  PROVE  Ages'
<1> USE DEF Holding, At, Key, Value
<1>a. /\ reader \in [Readers -> Reader]
      /\ \A r \in Readers : GoodReader(reader[r])
      /\ since \in [Keys -> [Versions -> 0 .. StalenessBound + 1]]
      /\ db \in [Keys -> Versions] /\ Versions \subseteq Nat
      /\ l1 \in [Keys -> Entry(L1Ttl) \cup {None}]
      /\ l2 \in [Keys -> Entry(L2Ttl) \cup {None}]
      /\ None \notin Versions /\ StalenessBound \in Nat
      /\ \A k \in Keys, v \in Versions : since[k][v] \in Nat
  BY DEF Shape, CacheTypeOK, Versions, StalenessBound
<1>1. CASE UNCHANGED <<db, since, l1, l2, reader>>
  BY <1>1 DEF Ages, Current, AgesInRedis, AgesInMemory, AgesHeld
<1>2. ASSUME NEW r \in Readers, NEW k \in Keys, Read(r, k)
      PROVE  Ages'
  BY <1>2, <1>a DEF Read, Ages, Current, AgesInRedis, AgesInMemory, AgesHeld
<1>3. ASSUME NEW r \in Readers, AskRedis(r)
      PROVE  Ages'
  <2>1. Key(r) \in Keys /\ reader[r].held = 0 /\ Value(r) = None
    BY <1>3, <1>a DEF AskRedis, GoodReader, ReaderAgrees
  <2>2. \A p \in Readers \ {r} : reader'[p] = reader[p]
    BY <1>3, <1>a DEF AskRedis
  <2>3. /\ reader'[r].stage = "asked" /\ reader'[r].key = Key(r)
        /\ reader'[r].held = 0
        /\ reader'[r].value = IF l2[Key(r)] = None THEN None ELSE l2[Key(r)].version
    BY <1>3, <1>a, <2>1 DEF AskRedis, Reader
  <2>4. l2[Key(r)] # None => /\ l2[Key(r)].ttl \in Nat
                             /\ l2[Key(r)].version \in Versions
                             /\ since[Key(r)][l2[Key(r)].version] \in Nat
                             /\ since[Key(r)][l2[Key(r)].version] + l2[Key(r)].ttl
                                  <= Hold + L2Ttl
    <3>1. l2[Key(r)] # None => l2[Key(r)] \in Entry(L2Ttl)
      BY <1>a, <2>1
    <3>2. l2[Key(r)] # None => l2[Key(r)].ttl \in Nat /\ l2[Key(r)].version \in Versions
      BY <3>1 DEF Entry
    <3>3. l2[Key(r)] # None => since[Key(r)][l2[Key(r)].version] + l2[Key(r)].ttl
                                 <= Hold + L2Ttl
      BY <2>1 DEF Ages, AgesInRedis
    <3>4. QED BY <1>a, <2>1, <3>2, <3>3
  <2>5. since'[reader'[r].key][reader'[r].value] <= Hold + L2Ttl \/ reader'[r].value = None
    BY <1>3, <1>a, <2>1, <2>3, <2>4 DEF AskRedis
  <2>6. AgesHeld'
    <3>1. UNCHANGED since
      BY <1>3 DEF AskRedis
    <3>2. ASSUME NEW p \in Readers, p # r, reader'[p].value # None
          PROVE  since'[reader'[p].key][reader'[p].value] <= reader'[p].held +
                   (IF reader'[p].stage = "asked" THEN Hold + L2Ttl ELSE 0)
      BY <2>2, <3>1, <3>2 DEF Ages, AgesHeld
    <3>3. since'[reader'[r].key][reader'[r].value] <= reader'[r].held + (Hold + L2Ttl)
          \/ reader'[r].value = None
      BY <2>3, <2>5
    <3>4. QED BY <2>3, <3>2, <3>3 DEF AgesHeld
  <2>7. QED BY <1>3, <2>6 DEF AskRedis, Ages, Current, AgesInRedis, AgesInMemory
<1>4. ASSUME NEW r \in Readers, Backfill(r)
      PROVE  Ages'
  <2>1. /\ Key(r) \in Keys /\ Value(r) \in Versions
        /\ since[Key(r)][Value(r)] + L1Ttl <= StalenessBound
    <3>1. /\ Key(r) \in Keys /\ Value(r) \in Versions
          /\ since[Key(r)][Value(r)] <= Hold + Hold + L2Ttl
      BY <1>4, HeldAge DEF Backfill
    <3>2. since[Key(r)][Value(r)] \in Nat
      BY <1>a, <3>1
    <3>3. QED BY <3>1, <3>2 DEF StalenessBound
  <2>2. AgesInMemory'
    BY <1>4, <1>a, <2>1 DEF Backfill, PutL1, Ages, AgesInMemory
  <2>3. QED BY <1>4, <1>a, <2>2
       DEF Backfill, IdleReader, Ages, Current, AgesInRedis, AgesHeld
<1>5. ASSUME NEW r \in Readers, StartLoad(r)
      PROVE  Ages'
  <2>1. reader'[r].value = None
    BY <1>5, <1>a DEF StartLoad, GoodReader, ReaderAgrees
  <2>2. \A p \in Readers \ {r} : reader'[p] = reader[p]
    BY <1>5, <1>a DEF StartLoad
  <2>3. QED BY <1>5, <2>1, <2>2
       DEF StartLoad, Ages, Current, AgesInRedis, AgesInMemory, AgesHeld
<1>6. ASSUME NEW r \in Readers, LoadRow(r)
      PROVE  Ages'
  <2>1. Key(r) \in Keys /\ since[Key(r)][db[Key(r)]] = 0
    BY <1>6, <1>a DEF LoadRow, GoodReader, ReaderAgrees, Ages, Current
  <2>2. \A p \in Readers \ {r} : reader'[p] = reader[p]
    BY <1>6, <1>a DEF LoadRow
  <2>3. /\ reader'[r].stage = "loaded" /\ reader'[r].key = Key(r)
        /\ reader'[r].held = 0 /\ reader'[r].value = db[Key(r)]
    BY <1>6, <1>a DEF LoadRow, Reader
  <2>4. UNCHANGED <<db, since, l1, l2>>
    BY <1>6 DEF LoadRow
  <2>5. AgesHeld'
    <3>1. ASSUME NEW p \in Readers, p # r, reader'[p].value # None
          PROVE  since'[reader'[p].key][reader'[p].value] <= reader'[p].held +
                   (IF reader'[p].stage = "asked" THEN Hold + L2Ttl ELSE 0)
      BY <2>2, <2>4, <3>1 DEF Ages, AgesHeld
    <3>2. since'[reader'[r].key][reader'[r].value] <= reader'[r].held + 0
      BY <2>1, <2>3, <2>4
    <3>3. QED BY <2>3, <3>1, <3>2 DEF AgesHeld
  <2>6. QED BY <2>4, <2>5 DEF Ages, Current, AgesInRedis, AgesInMemory
<1>7. ASSUME NEW r \in Readers, Resolve(r)
      PROVE  Ages'
  <2>1. /\ Key(r) \in Keys /\ Value(r) \in Versions
        /\ since[Key(r)][Value(r)] \in Nat
        /\ since[Key(r)][Value(r)] <= reader[r].held /\ reader[r].held \in 0 .. Hold
    BY <1>7, <1>a DEF Resolve, GoodReader, ReaderAgrees, Reader, Ages, AgesHeld
  <2>2. since[Key(r)][Value(r)] + L1Ttl <= StalenessBound
    BY <2>1 DEF StalenessBound
  <2>3. AgesInMemory'
    BY <1>7, <1>a, <2>1, <2>2 DEF Resolve, PutL1, Ages, AgesInMemory
  <2>4. \A p \in Readers : \/ reader'[p] = reader[p]
                           \/ /\ reader'[p].stage = "setting"
                              /\ reader'[p].key = Key(r) /\ reader'[p].value = Value(r)
                              /\ reader'[p].held = reader[r].held
    BY <1>7, <1>a DEF Resolve, Reader
  <2>5. AgesHeld'
    BY <1>7, <2>1, <2>4 DEF Resolve, Ages, AgesHeld
  <2>6. QED BY <1>7, <2>3, <2>5 DEF Resolve, Ages, Current, AgesInRedis
<1>8. ASSUME NEW r \in Readers, FailLoad(r)
      PROVE  Ages'
  BY <1>8, <1>a DEF FailLoad, IdleReader, Ages, Current, AgesInRedis, AgesInMemory, AgesHeld
<1>9. ASSUME NEW r \in Readers, StoreInRedis(r)
      PROVE  Ages'
  <2>1. /\ Key(r) \in Keys /\ Value(r) \in Versions
        /\ since[Key(r)][Value(r)] <= reader[r].held /\ reader[r].held \in 0 .. Hold
    BY <1>9, <1>a
    DEF StoreInRedis, GoodReader, ReaderAgrees, Reader, Ages, AgesHeld
  <2>2. AgesInRedis'
    <3>1. since[Key(r)][Value(r)] + L2Ttl <= Hold + L2Ttl
      BY <1>a, <2>1
    <3>2. QED BY <1>9, <1>a, <2>1, <3>1 DEF StoreInRedis, Ages, AgesInRedis
  <2>3. QED BY <1>9, <1>a, <2>2
       DEF StoreInRedis, IdleReader, Ages, Current, AgesInMemory, AgesHeld
<1>10. ASSUME NEW r \in Readers, SkipStore(r)
      PROVE  Ages'
  BY <1>10, <1>a
  DEF SkipStore, IdleReader, Ages, Current, AgesInRedis, AgesInMemory, AgesHeld
<1>11. ASSUME NEW w \in Writers, NEW k \in Keys, Update(w, k)
      PROVE  Ages'
  <2>1. Current'
    <3>1. \A j \in Keys : db[j] \in Nat /\ db'[j] \in {db[j], db[j] + 1}
      BY <1>11, <1>a DEF Update
    <3>2. QED BY <1>11, <1>a, <3>1 DEF Update, Ages, Current
  <2>2. QED BY <1>11, <2>1 DEF Update, Ages, AgesInRedis, AgesInMemory, AgesHeld
<1>12. ASSUME NEW w \in Writers, Invalidate(w)
      PROVE  Ages'
  BY <1>12, <1>a
  DEF Invalidate, DropL1, Scan, DropL2, SkipL2,
      Ages, Current, AgesInRedis, AgesInMemory, AgesHeld
<1>13. ASSUME NEW k \in Keys, Evict(k)
      PROVE  Ages'
  BY <1>13, <1>a DEF Evict, Ages, Current, AgesInRedis, AgesInMemory, AgesHeld
<1>14. CASE Restart
  BY <1>14, <1>a DEF Restart, IdleReader, Ages, Current, AgesInRedis, AgesInMemory, AgesHeld
<1>15. CASE Tick
  <2>1. \A k \in Keys, v \in Versions :
          /\ since'[k][v] \in {since[k][v], since[k][v] + 1}
          /\ v >= db[k] => since'[k][v] = since[k][v]
    BY <1>15, <1>a DEF Tick
  <2>2. Current'
    BY <1>15, <2>1 DEF Tick, Ages, Current
  <2>3. AgesInRedis'
    <3> SUFFICES ASSUME NEW k \in Keys, l2'[k] # None
                 PROVE  since'[k][l2'[k].version] + l2'[k].ttl <= Hold + L2Ttl
      BY DEF AgesInRedis
    <3>1. /\ l2[k] \in Entry(L2Ttl) /\ l2[k] # None /\ l2[k].ttl # 0
          /\ l2'[k] = [l2[k] EXCEPT !.ttl = @ - 1]
      BY <1>15, <1>a DEF Tick, Older
    <3>2. l2'[k].version = l2[k].version /\ l2'[k].ttl = l2[k].ttl - 1
      BY <3>1, OlderEntry
    <3>3. l2[k].version \in Versions /\ l2[k].ttl \in Nat
      BY <3>1 DEF Entry
    <3>4. since[k][l2[k].version] \in Nat
      BY <1>a, <3>3
    <3>5. since[k][l2[k].version] + l2[k].ttl <= Hold + L2Ttl
      BY <3>1 DEF Ages, AgesInRedis
    <3>6. QED BY <2>1, <3>2, <3>3, <3>4, <3>5
  <2>4. AgesInMemory'
    <3> SUFFICES ASSUME NEW k \in Keys, l1'[k] # None
                 PROVE  since'[k][l1'[k].version] + l1'[k].ttl <= StalenessBound
      BY DEF AgesInMemory, StalenessBound
    <3>1. /\ l1[k] \in Entry(L1Ttl) /\ l1[k] # None /\ l1[k].ttl # 0
          /\ l1'[k] = [l1[k] EXCEPT !.ttl = @ - 1]
      BY <1>15, <1>a DEF Tick, Older
    <3>2. l1'[k].version = l1[k].version /\ l1'[k].ttl = l1[k].ttl - 1
      BY <3>1, OlderEntry
    <3>3. l1[k].version \in Versions /\ l1[k].ttl \in Nat
      BY <3>1 DEF Entry
    <3>4. since[k][l1[k].version] \in Nat /\ StalenessBound \in Nat
      BY <1>a, <3>3 DEF StalenessBound
    <3>5. since[k][l1[k].version] + l1[k].ttl <= StalenessBound
      BY <3>1 DEF Ages, AgesInMemory
    <3>6. QED BY <2>1, <3>2, <3>3, <3>4, <3>5
  <2>5. AgesHeld'
    <3> SUFFICES ASSUME NEW r \in Readers, reader'[r].value # None
                 PROVE  since'[reader'[r].key][reader'[r].value] <= reader'[r].held +
                          (IF reader'[r].stage = "asked" THEN Hold + L2Ttl ELSE 0)
      BY DEF AgesHeld
    <3>1. Holding(r) /\ reader'[r] = [reader[r] EXCEPT !.held = @ + 1]
      BY <1>15, <1>a DEF Tick
    <3>2. /\ reader'[r].key = Key(r) /\ reader'[r].value = Value(r)
          /\ reader'[r].stage = reader[r].stage /\ reader'[r].held = reader[r].held + 1
          /\ reader[r].held \in Nat
      BY <1>a, <3>1 DEF Reader
    <3>3. Key(r) \in Keys /\ Value(r) \in Versions
      BY <3>1, HeldAge
    <3>4. since[Key(r)][Value(r)] \in Nat
      BY <1>a, <3>3
    <3>5. QED BY <2>1, <3>1, <3>2, <3>3, <3>4 DEF Ages, AgesHeld
  <2>6. QED BY <2>2, <2>3, <2>4, <2>5 DEF Ages
<1>16. QED
  BY <1>1, <1>2, <1>3, <1>4, <1>5, <1>6, <1>7, <1>8, <1>9, <1>10, <1>11, <1>12, <1>13,
     <1>14, <1>15
  DEF CacheNext, Respond, RedisChanges, cacheVars

(* No level answers a version older than the bound: both lifetimes and two *)
(* answers for L1, one of each for Redis.                                  *)
THEOREM AnswersAreYoung == CacheSpec => []StalenessBounded
<1>1. Shape /\ Ages => StalenessBounded
  <2> SUFFICES ASSUME Shape, Ages, NEW k \in Keys
               PROVE  /\ l1[k] # None => since[k][l1[k].version] <= StalenessBound
                      /\ l2[k] # None => since[k][l2[k].version] <= Hold + L2Ttl
    BY DEF StalenessBounded
  <2>1. /\ l1[k] # None => l1[k].version \in Versions /\ l1[k].ttl \in Nat
        /\ l2[k] # None => l2[k].version \in Versions /\ l2[k].ttl \in Nat
    BY DEF Shape, CacheTypeOK, Entry
  <2>2. \A v \in Versions : since[k][v] \in Nat
    BY DEF Shape, CacheTypeOK
  <2>3. StalenessBound \in Nat
    BY DEF StalenessBound
  <2>4. QED BY <2>1, <2>2, <2>3 DEF Ages, AgesInMemory, AgesInRedis
<1>2. QED BY <1>1, ShapeHolds, AgesInit, AgesStep, PTL DEF CacheSpec

-----------------------------------------------------------------------------
(* An old version in a level is one an update is about to drop there, or   *)
(* one the history knows of.                                               *)
WillDropL1(w, k) == writer[w].key = k /\ writer[w].stage = "committed"
WillDropL2(w, k) == /\ writer[w].key = k
                    /\ \/ writer[w].stage \in {"committed", "dropped"}
                       \/ writer[w].stage = "scanned" /\ writer[w].found
Known ==
  \A k \in Keys :
    /\ Stale(k, l1[k]) => suspect[k] # {} \/ \E w \in Writers : WillDropL1(w, k)
    /\ Stale(k, l2[k]) => "l2" \in suspect[k] \/ \E w \in Writers : WillDropL2(w, k)

LEMMA KnownInit == CacheInit => Known
BY DEF CacheInit, Known, Stale

LEMMA PutL1Known ==
  ASSUME Shape, Known, NEW k \in Keys, NEW v \in Versions, PutL1(k, v),
         UNCHANGED <<db, l2, writer>>
  PROVE  Known'
<1>1. /\ l1 \in [Keys -> Entry(L1Ttl) \cup {None}]
      /\ suspect \in [Keys -> SUBSET {"l1", "l2"}]
  BY DEF Shape, CacheTypeOK
<1>2. \A j \in Keys : suspect[j] \subseteq suspect'[j]
  BY <1>1 DEF PutL1, Suspects
<1>3. \A j \in Keys : Stale(j, l2[j])' =>
        "l2" \in suspect'[j] \/ \E w \in Writers : WillDropL2(w, j)'
  BY <1>2 DEF Known, Stale, WillDropL2
<1>4. \A j \in Keys \ {k} : Stale(j, l1[j])' =>
        suspect'[j] # {} \/ \E w \in Writers : WillDropL1(w, j)'
  BY <1>1, <1>2 DEF Known, Stale, WillDropL1, PutL1
<1>5. Stale(k, l1[k])' => suspect'[k] # {} \/ \E w \in Writers : WillDropL1(w, k)'
  <2>1. l1'[k].version = v
    BY <1>1 DEF PutL1
  <2>2. CASE v < db[k] /\ ~Undropped(k, "l1")
    BY <1>1, <2>2 DEF PutL1, Suspects
  <2>3. CASE ~(v < db[k])
    BY <2>1, <2>3 DEF Stale
  <2>4. CASE Undropped(k, "l1")
    BY <2>4 DEF Undropped, WillDropL1
  <2>5. QED BY <2>2, <2>3, <2>4
<1>6. QED BY <1>3, <1>4, <1>5 DEF Known

LEMMA KnownStep ==
  ASSUME Shape, Known, [CacheNext]_cacheVars
  PROVE  Known'
<1>a. /\ writer \in [Writers -> Writer]
      /\ \A w \in Writers : GoodWriter(writer[w])
      /\ \A r \in Readers : GoodReader(reader[r])
      /\ l1 \in [Keys -> Entry(L1Ttl) \cup {None}]
      /\ l2 \in [Keys -> Entry(L2Ttl) \cup {None}]
      /\ suspect \in [Keys -> SUBSET {"l1", "l2"}]
      /\ db \in [Keys -> Versions]
  BY DEF Shape, CacheTypeOK
<1>1. CASE UNCHANGED <<db, l1, l2, writer, suspect>>
  BY <1>1 DEF Known, Stale, WillDropL1, WillDropL2
<1>2. ASSUME NEW r \in Readers, Backfill(r) \/ Resolve(r)
      PROVE  Known'
  <2>1. Key(r) \in Keys /\ Value(r) \in Versions
    BY <1>2, <1>a DEF Backfill, Resolve, GoodReader, ReaderAgrees, Reader, Key, Value, At
  <2>2. QED BY <1>2, <2>1, PutL1Known DEF Backfill, Resolve
<1>3. ASSUME NEW r \in Readers, StoreInRedis(r)
      PROVE  Known'
  <2>1. Key(r) \in Keys /\ Value(r) \in Versions
    BY <1>3, <1>a DEF StoreInRedis, GoodReader, ReaderAgrees, Reader, Key, Value, At
  <2>2. PICK k \in Keys, v \in Versions :
          /\ l2' = [l2 EXCEPT ![k] = [version |-> v, ttl |-> L2Ttl]]
          /\ suspect' = Suspects(k, "l2", v)
          /\ UNCHANGED <<db, l1, writer>>
    BY <1>3, <2>1 DEF StoreInRedis
  <2>3. \A j \in Keys : suspect[j] \subseteq suspect'[j]
    BY <1>a, <2>1, <2>2 DEF Suspects
  <2>4. \A j \in Keys : Stale(j, l1[j])' =>
          suspect'[j] # {} \/ \E w \in Writers : WillDropL1(w, j)'
    BY <2>2, <2>3 DEF Known, Stale, WillDropL1
  <2>5. \A j \in Keys \ {k} : Stale(j, l2[j])' =>
          "l2" \in suspect'[j] \/ \E w \in Writers : WillDropL2(w, j)'
    BY <1>a, <2>2, <2>3 DEF Known, Stale, WillDropL2
  <2>6. Stale(k, l2[k])' => "l2" \in suspect'[k] \/ \E w \in Writers : WillDropL2(w, k)'
    <3>1. l2'[k].version = v
      BY <1>a, <2>1, <2>2
    <3>2. CASE v < db[k] /\ ~Undropped(k, "l2")
      BY <1>a, <2>1, <2>2, <3>2 DEF Suspects
    <3>3. CASE ~(v < db[k])
      BY <2>2, <3>1, <3>3 DEF Stale
    <3>4. CASE Undropped(k, "l2")
      BY <2>2, <3>4 DEF Undropped, WillDropL2
    <3>5. QED BY <3>2, <3>3, <3>4
  <2>7. QED BY <2>4, <2>5, <2>6 DEF Known
<1>4. ASSUME NEW w \in Writers, NEW k \in Keys, Update(w, k)
      PROVE  Known'
  <2>1. /\ writer'[w].key = k /\ writer'[w].stage = "committed"
        /\ \A x \in Writers \ {w} : writer'[x] = writer[x]
        /\ \A j \in Keys \ {k} : db'[j] = db[j]
        /\ ~\E j \in Keys : WillDropL1(w, j) \/ WillDropL2(w, j)
    BY <1>4, <1>a DEF Update, WillDropL1, WillDropL2
  <2>2. WillDropL1(w, k)' /\ WillDropL2(w, k)'
    BY <2>1 DEF WillDropL1, WillDropL2
  <2>3. \A j \in Keys \ {k}, x \in Writers : /\ WillDropL1(x, j) => WillDropL1(x, j)'
                                             /\ WillDropL2(x, j) => WillDropL2(x, j)'
    BY <2>1 DEF WillDropL1, WillDropL2
  <2>4. UNCHANGED <<l1, l2, suspect>>
    BY <1>4 DEF Update
  <2>5. QED BY <2>1, <2>2, <2>3, <2>4 DEF Known, Stale
<1>5. ASSUME NEW w \in Writers, DropL1(w)
      PROVE  Known'
  <2>1. /\ writer[w].key \in Keys /\ l1'[writer[w].key] = None
        /\ \A j \in Keys : l1'[j] \in {l1[j], None}
    BY <1>5, <1>a DEF DropL1, GoodWriter
  <2>2. \A x \in Writers \ {w} : writer'[x] = writer[x]
    BY <1>5, <1>a DEF DropL1
  <2>3. writer'[w].key = writer[w].key /\ writer'[w].stage = "dropped"
    BY <1>5, <1>a DEF DropL1, Writer
  <2>4. /\ \A j \in Keys, x \in Writers : WillDropL2(x, j) => WillDropL2(x, j)'
        /\ \A j \in Keys \ {writer[w].key}, x \in Writers :
             WillDropL1(x, j) => WillDropL1(x, j)'
    BY <2>2, <2>3 DEF WillDropL1, WillDropL2
  <2>5. UNCHANGED <<db, l2, suspect>>
    BY <1>5 DEF DropL1
  <2>6. QED BY <2>1, <2>4, <2>5 DEF Known, Stale
<1>6. ASSUME NEW w \in Writers, Scan(w)
      PROVE  Known'
  <2>1. \A x \in Writers \ {w} : writer'[x] = writer[x]
    BY <1>6, <1>a DEF Scan
  <2>2. /\ writer[w].stage = "dropped"
        /\ writer'[w].key = writer[w].key /\ writer'[w].stage = "scanned"
        /\ writer'[w].found = (l2[writer[w].key] # None)
    BY <1>6, <1>a DEF Scan, Writer
  <2>3. \A j \in Keys, x \in Writers :
          /\ WillDropL1(x, j) => WillDropL1(x, j)'
          /\ l2[j] # None /\ WillDropL2(x, j) => WillDropL2(x, j)'
    BY <2>1, <2>2 DEF WillDropL1, WillDropL2
  <2>4. UNCHANGED <<db, l1, l2, suspect>>
    BY <1>6 DEF Scan
  <2>5. QED BY <2>3, <2>4 DEF Known, Stale
<1>7. ASSUME NEW w \in Writers, DropL2(w)
      PROVE  Known'
  <2>1. \A x \in Writers \ {w} : writer'[x] = writer[x]
    BY <1>7, <1>a DEF DropL2
  <2>2. /\ writer[w].stage = "scanned" /\ writer[w].key \in Keys
        /\ \A j \in Keys : l2'[j] \in {l2[j], None}
        /\ writer[w].found => l2'[writer[w].key] = None
    BY <1>7, <1>a DEF DropL2, GoodWriter
  <2>3. \A j \in Keys, x \in Writers :
          /\ WillDropL1(x, j) => WillDropL1(x, j)'
          /\ l2'[j] # None /\ WillDropL2(x, j) => WillDropL2(x, j)'
    BY <2>1, <2>2 DEF WillDropL1, WillDropL2
  <2>4. UNCHANGED <<db, l1, suspect>>
    BY <1>7 DEF DropL2
  <2>5. QED BY <2>2, <2>3, <2>4 DEF Known, Stale
<1>8. ASSUME NEW w \in Writers, SkipL2(w)
      PROVE  Known'
  <2>1. \A x \in Writers \ {w} : writer'[x] = writer[x]
    BY <1>8, <1>a DEF SkipL2
  <2>2. /\ writer[w].stage \in {"dropped", "scanned"} /\ writer[w].key \in Keys
        /\ \A j \in Keys : suspect[j] \subseteq suspect'[j]
        /\ "l2" \in suspect'[writer[w].key]
    BY <1>8, <1>a DEF SkipL2, GoodWriter
  <2>3. \A j \in Keys, x \in Writers :
          /\ WillDropL1(x, j) => WillDropL1(x, j)'
          /\ WillDropL2(x, j) => WillDropL2(x, j)' \/ j = writer[w].key
    BY <2>1, <2>2 DEF WillDropL1, WillDropL2
  <2>4. UNCHANGED <<db, l1, l2>>
    BY <1>8 DEF SkipL2
  <2>5. QED BY <2>2, <2>3, <2>4 DEF Known, Stale
<1>9. ASSUME NEW k \in Keys, Evict(k)
      PROVE  Known'
  BY <1>9, <1>a DEF Evict, Known, Stale, WillDropL1, WillDropL2
<1>10. CASE Restart
  <2>1. /\ \A j \in Keys : l1'[j] = None
        /\ UNCHANGED <<db, l2>>
        /\ \A j \in Keys : suspect[j] \subseteq suspect'[j]
        /\ \A j \in Keys, w \in Writers : WillDropL2(w, j) => "l2" \in suspect'[j]
    BY <1>10, <1>a DEF Restart, WillDropL2
  <2>2. QED BY <2>1 DEF Known, Stale
<1>11. CASE Tick
  <2>1. ASSUME NEW j \in Keys, l1'[j] # None
        PROVE  l1'[j].version = l1[j].version /\ l1[j] # None
    <3>1. /\ l1[j] \in Entry(L1Ttl) /\ l1[j] # None /\ l1[j].ttl # 0
          /\ l1'[j] = [l1[j] EXCEPT !.ttl = @ - 1]
      BY <1>11, <1>a, <2>1 DEF Tick, Older
    <3>2. QED BY <3>1, OlderEntry
  <2>2. ASSUME NEW j \in Keys, l2'[j] # None
        PROVE  l2'[j].version = l2[j].version /\ l2[j] # None
    <3>1. /\ l2[j] \in Entry(L2Ttl) /\ l2[j] # None /\ l2[j].ttl # 0
          /\ l2'[j] = [l2[j] EXCEPT !.ttl = @ - 1]
      BY <1>11, <1>a, <2>2 DEF Tick, Older
    <3>2. QED BY <3>1, OlderEntry
  <2>3. UNCHANGED <<db, writer, suspect>>
    BY <1>11 DEF Tick
  <2>4. QED BY <2>1, <2>2, <2>3 DEF Known, Stale, WillDropL1, WillDropL2
<1>12. QED
  BY <1>1, <1>2, <1>3, <1>4, <1>5, <1>6, <1>7, <1>8, <1>9, <1>10, <1>11
  DEF CacheNext, Respond, Invalidate, Read, AskRedis, StartLoad, LoadRow, FailLoad,
      SkipStore, RedisChanges, cacheVars

(* A level is left with an old version only by a reader that stored what   *)
(* it had read before the update, or by an outage or a restart.            *)
THEOREM StaleIsKnown == CacheSpec => []StaleOnlyByRaceOrOutage
<1>1. Known => StaleOnlyByRaceOrOutage
  BY DEF Known, StaleOnlyByRaceOrOutage, Pending, WillDropL1, WillDropL2
<1>2. QED BY <1>1, ShapeHolds, KnownInit, KnownStep, PTL DEF CacheSpec
=============================================================================
