--------------------------- MODULE ToolCacheProofs --------------------------
(***************************************************************************)
(* Proofs about the tools/list cache, for any numbers of threads,          *)
(* processes and configurations, any lifetime and any size of the caches.  *)
(***************************************************************************)
EXTENDS ToolCache, FiniteSetTheorems, WellFoundedInduction, TLAPS

\* The backend of every step that names no other.
USE ZenonT(30)

-----------------------------------------------------------------------------
(* The inductive invariant.                                                 *)

\* A key is marked as in flight exactly while a thread of the process loads it, and no
\* two threads load the same.
Flights ==
    /\ \A c \in Callers : Loading(c) => key[c] \in in_flight[ProcessOf[c]]
    /\ \A c, d \in Callers :
          Loading(c) /\ Loading(d) /\ ProcessOf[c] = ProcessOf[d] /\ key[c] = key[d] => c = d
    /\ \A p \in Procs : \A k \in in_flight[p] :
          \E c \in Callers : ProcessOf[c] = p /\ key[c] = k /\ Loading(c)

\* An entry is a list of the server its key names.  On disk it is one that no cache had
\* before; in memory it may be the copy of a file that had up to one lifetime behind it.
MemoryEntry(k, e) == e.list.age <= TOOL_LIST_CACHE_TTL /\ e.list.config = k.server
DiskEntry(k, e) == e.list.age = 0 /\ e.list.config = k.server

Entries == /\ \A p \in Procs, k \in ToolListCacheKey : memory[p][k] # NoList => MemoryEntry(k, memory[p][k])
           /\ \A k \in ToolListCacheKey : disk[k] # NoList => DiskEntry(k, disk[k])

\* What a caller has at each point of its call.
Progress(c) ==
    /\ pc[c] \notin {"idle", "key", "return"} => key[c].server = server[c]
    /\ pc[c] \in {"promote", "save", "keep", "release"} => list[c] \in Lists /\ list[c].config = server[c]
    /\ pc[c] = "promote" => list[c].age <= TOOL_LIST_CACHE_TTL
    /\ pc[c] \in {"save", "keep", "release"} => list[c].age = 0
    /\ Answered(c) => list[c].config = server[c] /\ list[c].age <= 2 * TOOL_LIST_CACHE_TTL

CacheInv == TypeOK /\ Flights /\ Entries /\ \A c \in Callers : Progress(c)

-----------------------------------------------------------------------------
(* Lemmas.                                                                  *)

\* A set of numbers has a least element.
LEMMA LeastNumber ==
  ASSUME NEW T \in SUBSET Nat, T # {}
  PROVE  \E n \in T : \A m \in T : n <= m
<1> DEFINE Before == OpToRel(<, Nat)
<1>1. \E n \in T : \A m \in T : <<m, n>> \notin Before
  BY NatLessThanWellFounded, WFMin
<1>2. PICK n \in T : \A m \in T : <<m, n>> \notin Before
  BY <1>1
<1>3. ASSUME NEW m \in T PROVE n <= m
  <2>1. m \in Nat /\ n \in Nat
    OBVIOUS
  <2>2. ~(m < n)
    BY <1>2, <2>1 DEF OpToRel
  <2> QED
    BY SMTT(30), <2>1, <2>2
<1> QED
  BY <1>2, <1>3

\* The values callers start with exist.
LEMMA SomeChosen == SomeConfig \in Configs /\ SomeKey \in ToolListCacheKey
<1>1. Configs \in SUBSET Nat /\ Configs # {}
  BY CacheAssumption
<1>2. \E v \in Configs : \A w \in Configs : v <= w
  BY <1>1, LeastNumber
<1>3. \E k : k \in ToolListCacheKey
  <2>1. PICK v \in Configs : TRUE
    BY <1>1
  <2>2. [settings |-> v, server |-> v] \in ToolListCacheKey
    BY DEF ToolListCacheKey
  <2> QED
    BY <2>2
<1> QED
  BY <1>2, <1>3 DEF SomeConfig, SomeKey

\* What a cache has after an insertion are the new entry and entries it had.
LEMMA InsertedFacts ==
  ASSUME NEW cache \in [ToolListCacheKey -> Entry \cup {NoList}], NEW k \in ToolListCacheKey,
         NEW l \in Lists, NEW clock \in 0 .. MaxTime, NEW m \in Inserted(cache, k, l, clock)
  PROVE  /\ m \in [ToolListCacheKey -> Entry \cup {NoList}]
         /\ \A j \in ToolListCacheKey :
               m[j] = NoList \/ m[j] = IF j = k THEN [list |-> l, stored_at |-> clock] ELSE cache[j]
<1> DEFINE full == [cache EXCEPT ![k] = [list |-> l, stored_at |-> clock]]
<1>1. full \in [ToolListCacheKey -> Entry \cup {NoList}]
  BY DEF Entry
<1>2. \A j \in ToolListCacheKey : full[j] = IF j = k THEN [list |-> l, stored_at |-> clock] ELSE cache[j]
  OBVIOUS
<1>3. PICK kept \in SUBSET ToolListCacheKey :
         m = [j \in ToolListCacheKey |-> IF j \in kept THEN full[j] ELSE NoList]
  BY DEF Inserted
<1> HIDE DEF full
<1> QED
  BY <1>1, <1>2, <1>3

\* A list that is taken from a cache while it is fresh is at most a lifetime older.
LEMMA TakenFacts ==
  ASSUME NEW e \in Entry, NEW clock \in Nat, Fresh(e, clock)
  PROVE  /\ Taken(e, clock) \in Lists /\ Taken(e, clock).config = e.list.config
         /\ Taken(e, clock).age <= e.list.age + TOOL_LIST_CACHE_TTL
<1>1. /\ e.list \in Lists /\ e.list.age \in Nat
      /\ e.stored_at \in Nat /\ TOOL_LIST_CACHE_TTL \in Nat
  BY SMTT(30), CacheAssumption DEF Entry, Lists
<1> DEFINE more == IF clock >= e.stored_at THEN clock - e.stored_at ELSE 0
<1>2. more \in Nat /\ more <= TOOL_LIST_CACHE_TTL
  BY SMTT(30), <1>1 DEF Fresh
<1>3. /\ Taken(e, clock) = [e.list EXCEPT !.age = e.list.age + more]
      /\ e.list.age + more \in Nat /\ e.list.age + more <= e.list.age + TOOL_LIST_CACHE_TTL
  BY SMTT(30), <1>1, <1>2 DEF Taken
<1> HIDE DEF more
<1> QED
  BY SMTT(30), <1>1, <1>3 DEF Lists

\* Who loads what does not change.
LEMMA FlightsKept ==
  ASSUME Flights, UNCHANGED in_flight,
         \A d \in Callers : Loading(d)' <=> Loading(d),
         \A d \in Callers : Loading(d) => key'[d] = key[d]
  PROVE  Flights'
BY SMTT(30) DEF Flights

\* The thread that has the permit for its key gives it back.
LEMMA PermitReturned ==
  ASSUME TypeOK, Flights, NEW c \in Callers, Loading(c), ~Loading(c)', UNCHANGED key,
         in_flight' = [in_flight EXCEPT ![ProcessOf[c]] = @ \ {key[c]}],
         \A d \in Callers \ {c} : Loading(d)' <=> Loading(d)
  PROVE  Flights'
<1>1. ProcessOf[c] \in Procs
  BY CacheAssumption
<1>2. \A p \in Procs : in_flight'[p] = IF p = ProcessOf[c] THEN in_flight[p] \ {key[c]} ELSE in_flight[p]
  BY <1>1 DEF TypeOK
<1>3. ASSUME NEW d \in Callers, Loading(d)' PROVE key[d] \in in_flight'[ProcessOf[d]]
  <2>1. d # c /\ Loading(d)
    BY <1>3
  <2>2. key[d] \in in_flight[ProcessOf[d]] /\ ProcessOf[d] \in Procs
    BY <2>1, CacheAssumption DEF Flights
  <2>3. ProcessOf[d] = ProcessOf[c] => key[d] # key[c]
    BY <2>1 DEF Flights
  <2> QED
    BY SMTT(30), <1>2, <2>2, <2>3
<1>4. \A d, e \in Callers :
         Loading(d)' /\ Loading(e)' /\ ProcessOf[d] = ProcessOf[e] /\ key[d] = key[e] => d = e
  BY DEF Flights
<1>5. ASSUME NEW p \in Procs, NEW k \in in_flight'[p]
      PROVE  \E d \in Callers : ProcessOf[d] = p /\ key[d] = k /\ Loading(d)'
  <2>1. k \in in_flight[p] /\ ~(p = ProcessOf[c] /\ k = key[c])
    BY SMTT(30), <1>2, <1>5
  <2>2. PICK d \in Callers : ProcessOf[d] = p /\ key[d] = k /\ Loading(d)
    BY <2>1 DEF Flights
  <2> QED
    BY <2>1, <2>2
<1> QED
  BY SMTT(30), <1>3, <1>4, <1>5 DEF Flights

\* A caller that does not move keeps what it has.
LEMMA OthersProgress ==
  ASSUME NEW d \in Callers, Progress(d),
         pc'[d] = pc[d], server'[d] = server[d], key'[d] = key[d], list'[d] = list[d]
  PROVE  Progress(d)'
BY DEF Progress, Answered

-----------------------------------------------------------------------------
(* The steps.                                                               *)

\* The steps that change neither the caches nor the permits.
Looks(c) == Begin(c) \/ ComputeKey(c) \/ ReadDisk(c) \/ Wakes(c) \/ Loaded(c) \/ Done(c)

\* They keep the invariant.
LEMMA LooksKeep ==
  ASSUME CacheInv, NEW c \in Callers, Looks(c)
  PROVE  CacheInv'
<1> USE DEF CacheInv
<1>1. UNCHANGED <<settings, memory, in_flight, disk, now, wall>>
  BY DEF Looks, Begin, ComputeKey, ReadDisk, Wakes, Loaded, Done, clocks
<1>2. Entries'
  BY <1>1 DEF Entries
<1>3. /\ pc' \in [Callers -> Locations] /\ server' \in [Callers -> Configs]
      /\ \A d \in Callers \ {c} : pc'[d] = pc[d] /\ server'[d] = server[d]
  <2>1. \E to \in Locations : Go(c, pc[c], to)
    <3>1. CASE Begin(c) \/ Wakes(c) \/ Loaded(c) \/ Done(c)
      BY <3>1 DEF Begin, Wakes, Loaded, Done, Go, Locations
    <3>2. CASE ComputeKey(c)
      BY <3>2 DEF ComputeKey, Go, Locations
    <3>3. CASE ReadDisk(c)
      BY <3>3 DEF ReadDisk, Go, Locations
    <3> QED
      BY <3>1, <3>2, <3>3 DEF Looks
  <2>2. \E v \in Configs : server' = [server EXCEPT ![c] = v]
    BY SMTT(30), SomeChosen DEF Looks, Begin, ComputeKey, ReadDisk, Wakes, Loaded, Done, TypeOK, callerVars
  <2> QED
    BY <2>1, <2>2 DEF Go, TypeOK
<1>4. /\ key' \in [Callers -> ToolListCacheKey]
      /\ \A d \in Callers \ {c} : key'[d] = key[d]
  <2>1. tool_list_cache_key(settings, server[c]) \in ToolListCacheKey
    BY DEF TypeOK, tool_list_cache_key, ToolListCacheKey
  <2> QED
    BY SMTT(30), <2>1, SomeChosen DEF Looks, Begin, ComputeKey, ReadDisk, Wakes, Loaded, Done, TypeOK, callerVars
<1>5. /\ list' \in [Callers -> Lists \cup {NoList}]
      /\ \A d \in Callers \ {c} : list'[d] = list[d]
  <2>1. CASE ReadDisk(c)
    <3>1. disk[key[c]] \in Entry \cup {NoList} /\ wall \in Nat
      BY SMTT(30), CacheAssumption DEF TypeOK
    <3>2. disk[key[c]] # NoList /\ Fresh(disk[key[c]], wall) => Taken(disk[key[c]], wall) \in Lists
      BY <3>1, TakenFacts
    <3> QED
      BY <2>1, <3>2 DEF ReadDisk, TypeOK
  <2>2. CASE Loaded(c)
    BY <2>2 DEF Loaded, TypeOK, Lists
  <2>3. CASE Begin(c) \/ ComputeKey(c) \/ Wakes(c) \/ Done(c)
    BY <2>3 DEF Begin, ComputeKey, Wakes, Done, TypeOK
  <2> QED
    BY <2>1, <2>2, <2>3 DEF Looks
<1>6. TypeOK'
  BY <1>1, <1>3, <1>4, <1>5 DEF TypeOK
<1>7. Flights'
  <2>1. (Loading(c)' <=> Loading(c)) /\ (Loading(c) => key'[c] = key[c])
    BY DEF Looks, Begin, ComputeKey, ReadDisk, Wakes, Loaded, Done, TypeOK, Go, callerVars, Loading
  <2>2. \A d \in Callers \ {c} : Loading(d)' <=> Loading(d)
    BY <1>3 DEF Loading
  <2> QED
    BY <1>1, <1>4, <2>1, <2>2, FlightsKept
<1>8. Progress(c)'
  <2>1. CASE Begin(c)
    BY <2>1 DEF Begin, Go, TypeOK, Progress, Answered
  <2>2. CASE ComputeKey(c)
    BY <2>2 DEF ComputeKey, Go, TypeOK, Progress, Answered, tool_list_cache_key
  <2>3. CASE ReadDisk(c)
    <3> DEFINE e == disk[key[c]]
               hit == e # NoList /\ ~FromFuture(e) /\ Fresh(e, wall)
    <3>1. e \in Entry \cup {NoList} /\ key[c] \in ToolListCacheKey /\ wall \in Nat
      BY SMTT(30), CacheAssumption DEF TypeOK
    <3>2. CASE hit
      <4>1. pc'[c] = "promote" /\ list'[c] = Taken(e, wall) /\ server'[c] = server[c] /\ key'[c] = key[c]
        BY <2>3, <3>2 DEF ReadDisk, Go, TypeOK, callerVars
      <4>2. /\ Taken(e, wall) \in Lists /\ Taken(e, wall).config = e.list.config
            /\ Taken(e, wall).age <= e.list.age + TOOL_LIST_CACHE_TTL
        BY <3>1, <3>2, TakenFacts
      <4>3. DiskEntry(key[c], e)
        BY <3>1, <3>2 DEF Entries
      <4>4. key[c].server = server[c]
        BY <2>3, <3>2 DEF Progress, ReadDisk, Go
      <4>5. Taken(e, wall).age <= TOOL_LIST_CACHE_TTL
        BY SMTT(30), <4>2, <4>3, CacheAssumption DEF DiskEntry
      <4> QED
        BY <4>1, <4>2, <4>3, <4>4, <4>5 DEF Progress, Answered, DiskEntry
    <3>3. CASE ~hit
      BY <2>3, <3>3 DEF ReadDisk, Go, TypeOK, Progress, Answered, callerVars
    <3> QED
      BY <3>2, <3>3
  <2>4. CASE Wakes(c)
    BY <2>4 DEF Wakes, Go, TypeOK, Progress, Answered, callerVars
  <2>5. CASE Loaded(c)
    <3>1. pc[c] = "load" /\ pc'[c] = "save" /\ list'[c] = [config |-> server[c], age |-> 0]
      BY <2>5 DEF Loaded, Go, TypeOK
    <3>2. server' = server /\ key' = key
      BY <2>5 DEF Loaded, callerVars
    <3>3. list'[c] \in Lists /\ key[c].server = server[c]
      BY SMTT(30), <3>1 DEF Lists, TypeOK, Progress
    <3> QED
      BY SMTT(30), <3>1, <3>2, <3>3 DEF Progress, Answered
  <2>6. CASE Done(c)
    BY <2>6 DEF Done, Go, TypeOK, Progress, Answered
  <2> QED
    BY <2>1, <2>2, <2>3, <2>4, <2>5, <2>6 DEF Looks
<1>9. \A d \in Callers \ {c} : Progress(d)'
  BY <1>1, <1>3, <1>4, <1>5, OthersProgress
<1> QED
  BY <1>2, <1>6, <1>7, <1>8, <1>9

\* The first look at the memory cache, a promotion and a store.
LEMMA MemoryKeeps ==
  ASSUME CacheInv, NEW c \in Callers, ReadMemory(c) \/ Promote(c) \/ KeepInMemory(c)
  PROVE  CacheInv'
<1> USE DEF CacheInv
<1> DEFINE p == ProcessOf[c]
<1>1. UNCHANGED <<settings, in_flight, disk, server, key, now, wall>>
  BY DEF ReadMemory, Promote, KeepInMemory, callerVars, clocks
<1>2. p \in Procs /\ key[c] \in ToolListCacheKey /\ memory[p] \in [ToolListCacheKey -> Entry \cup {NoList}]
  BY CacheAssumption DEF TypeOK
<1>3. PICK m \in [ToolListCacheKey -> Entry \cup {NoList}] :
         /\ memory' = [memory EXCEPT ![p] = m]
         /\ \A k \in ToolListCacheKey : m[k] # NoList => MemoryEntry(k, m[k])
  <2>1. \A k \in ToolListCacheKey : memory[p][k] # NoList => MemoryEntry(k, memory[p][k])
    BY <1>2 DEF Entries
  <2>2. CASE ReadMemory(c)
    <3>1. CASE UNCHANGED memory
      BY <3>1, <1>2, <2>1 DEF TypeOK
    <3>2. CASE memory' = [memory EXCEPT ![p] = [memory[p] EXCEPT ![key[c]] = NoList]]
      <4> DEFINE m == [memory[p] EXCEPT ![key[c]] = NoList]
      <4>1. m \in [ToolListCacheKey -> Entry \cup {NoList}]
        BY <1>2
      <4>2. \A k \in ToolListCacheKey : m[k] # NoList => MemoryEntry(k, m[k])
        BY <1>2, <2>1
      <4> HIDE DEF m
      <4> QED
        BY <3>2, <4>1, <4>2 DEF m
    <3> QED
      BY <2>2, <3>1, <3>2 DEF ReadMemory
  <2>3. CASE Promote(c) \/ KeepInMemory(c)
    <3>1. PICK m \in Inserted(memory[p], key[c], list[c], now) : memory' = [memory EXCEPT ![p] = m]
      BY <2>3 DEF Promote, KeepInMemory
    <3>2. /\ list[c] \in Lists /\ list[c].config = server[c] /\ key[c].server = server[c]
          /\ list[c].age <= TOOL_LIST_CACHE_TTL
      <4>1. Progress(c) /\ TOOL_LIST_CACHE_TTL \in Nat
        BY SMTT(30), CacheAssumption DEF TypeOK
      <4>2. pc[c] \in {"promote", "keep"}
        BY <2>3 DEF Promote, KeepInMemory, Return, Go
      <4> QED
        BY SMTT(30), <4>1, <4>2 DEF Progress
    <3>3. /\ m \in [ToolListCacheKey -> Entry \cup {NoList}]
          /\ \A j \in ToolListCacheKey :
                m[j] = NoList \/ m[j] = IF j = key[c] THEN [list |-> list[c], stored_at |-> now] ELSE memory[p][j]
      <4>1. now \in 0 .. MaxTime
        BY DEF TypeOK
      <4>2. /\ memory[p] \in [ToolListCacheKey -> Entry \cup {NoList}] /\ key[c] \in ToolListCacheKey
            /\ list[c] \in Lists /\ m \in Inserted(memory[p], key[c], list[c], now)
        BY <1>2, <3>1, <3>2
      <4> HIDE DEF p, CacheInv
      <4> QED
        BY ONLY SMTT(30), <4>1, <4>2, InsertedFacts
    <3>4. ASSUME NEW j \in ToolListCacheKey, m[j] # NoList PROVE MemoryEntry(j, m[j])
      <4>1. CASE j = key[c]
        BY SMTT(30), <4>1, <3>2, <3>3, <3>4 DEF MemoryEntry
      <4>2. CASE j # key[c]
        BY <4>2, <2>1, <3>3, <3>4
      <4> QED
        BY <4>1, <4>2
    <3> QED
      BY <3>1, <3>3, <3>4
  <2> QED
    BY <2>2, <2>3
<1>4. memory' \in [Procs -> [ToolListCacheKey -> Entry \cup {NoList}]]
  BY <1>2, <1>3 DEF TypeOK
<1>5. Entries'
  <2>1. ASSUME NEW q \in Procs, NEW k \in ToolListCacheKey, memory'[q][k] # NoList
        PROVE  MemoryEntry(k, memory'[q][k])
    <3>1. memory'[q] = IF q = p THEN m ELSE memory[q]
      BY <1>3 DEF TypeOK
    <3> QED
      BY <2>1, <3>1, <1>3 DEF Entries
  <2> QED
    BY <2>1, <1>1 DEF Entries
<1>6. /\ pc' \in [Callers -> Locations] /\ list' \in [Callers -> Lists \cup {NoList}]
      /\ \A d \in Callers \ {c} : pc'[d] = pc[d] /\ list'[d] = list[d]
  <2>1. CASE ReadMemory(c)
    <3>1. memory[p][key[c]] \in Entry \cup {NoList} /\ now \in Nat
      BY SMTT(30), <1>2, CacheAssumption DEF TypeOK
    <3>2. memory[p][key[c]] # NoList /\ Fresh(memory[p][key[c]], now)
             => Taken(memory[p][key[c]], now) \in Lists
      BY <3>1, TakenFacts
    <3> QED
      BY <2>1, <3>2 DEF ReadMemory, Return, Go, TypeOK, Locations
  <2>2. CASE Promote(c) \/ KeepInMemory(c)
    BY <2>2 DEF Promote, KeepInMemory, Return, Go, TypeOK, Locations
  <2> QED
    BY <2>1, <2>2
<1>7. TypeOK'
  BY <1>1, <1>4, <1>6 DEF TypeOK
<1>8. Flights'
  <2>1. Loading(c)' <=> Loading(c)
    BY DEF ReadMemory, Promote, KeepInMemory, Return, Go, TypeOK, Loading
  <2>2. \A d \in Callers \ {c} : Loading(d)' <=> Loading(d)
    BY <1>6 DEF Loading
  <2> QED
    BY <1>1, <2>1, <2>2, FlightsKept
<1>9. Progress(c)'
  <2>0. Progress(c) /\ now \in Nat /\ TOOL_LIST_CACHE_TTL \in Nat
    BY SMTT(30), CacheAssumption DEF TypeOK
  <2>1. CASE ReadMemory(c)
    <3> DEFINE e == memory[p][key[c]]
    <3>1. pc[c] = "memory" /\ key[c].server = server[c] /\ e \in Entry \cup {NoList}
      BY <2>1, <1>2 DEF ReadMemory, Return, Go, Progress
    <3>2. CASE e # NoList /\ Fresh(e, now)
      <4>1. pc'[c] = "return" /\ list'[c] = Taken(e, now)
        BY <2>1, <3>2 DEF ReadMemory, Return, Go, TypeOK
      <4>2. MemoryEntry(key[c], e) /\ e \in Entry
        BY <1>2, <3>1, <3>2 DEF Entries
      <4>3. /\ Taken(e, now) \in Lists /\ Taken(e, now).config = e.list.config
            /\ Taken(e, now).age <= e.list.age + TOOL_LIST_CACHE_TTL
        BY <2>0, <3>2, <4>2, TakenFacts
      <4>4. Taken(e, now).config = server[c]
        BY <3>1, <4>2, <4>3 DEF MemoryEntry
      <4>5. Taken(e, now).age <= 2 * TOOL_LIST_CACHE_TTL
        BY SMTT(30), <2>0, <4>2, <4>3 DEF MemoryEntry, Entry, Lists
      <4> QED
        BY <1>1, <4>1, <4>4, <4>5 DEF Progress, Answered
    <3>3. CASE ~(e # NoList /\ Fresh(e, now))
      <4>1. pc'[c] = "disk" /\ list' = list
        BY <2>1, <3>3 DEF ReadMemory, Go, TypeOK
      <4> QED
        BY <1>1, <3>1, <4>1 DEF Progress, Answered
    <3> QED
      BY <3>2, <3>3
  <2>2. CASE Promote(c)
    <3>1. pc[c] = "promote" /\ pc'[c] = "return" /\ list'[c] = list[c]
      BY <2>2 DEF Promote, Return, Go, TypeOK
    <3>2. list[c].age \in Nat
      BY SMTT(30), <2>0, <3>1 DEF Progress, Lists
    <3> QED
      BY SMTT(30), <1>1, <2>0, <3>1, <3>2 DEF Progress, Answered
  <2>3. CASE KeepInMemory(c)
    <3>1. pc[c] = "keep" /\ pc'[c] = "release" /\ list' = list
      BY <2>3 DEF KeepInMemory, Go, TypeOK
    <3> QED
      BY <1>1, <2>0, <3>1 DEF Progress, Answered
  <2> QED
    BY <2>1, <2>2, <2>3
<1>10. \A d \in Callers \ {c} : Progress(d)'
  BY <1>1, <1>6, OthersProgress
<1> QED
  BY <1>5, <1>7, <1>8, <1>9, <1>10

\* The removal of an expired file, and a store.
LEMMA DiskKeeps ==
  ASSUME CacheInv, NEW c \in Callers, RemoveFile(c) \/ SaveToDisk(c)
  PROVE  CacheInv'
<1> USE DEF CacheInv
<1>1. UNCHANGED <<settings, memory, in_flight, server, key, list, now, wall>>
  BY DEF RemoveFile, SaveToDisk, callerVars, clocks
<1>2. key[c] \in ToolListCacheKey /\ disk \in [ToolListCacheKey -> Entry \cup {NoList}]
  BY DEF TypeOK
<1>3. /\ disk' \in [ToolListCacheKey -> Entry \cup {NoList}]
      /\ \A k \in ToolListCacheKey : disk'[k] # NoList => DiskEntry(k, disk'[k])
  <2>1. \A k \in ToolListCacheKey : disk[k] # NoList => DiskEntry(k, disk[k])
    BY DEF Entries
  <2>2. CASE RemoveFile(c)
    BY <2>2, <1>2, <2>1 DEF RemoveFile
  <2>3. CASE SaveToDisk(c) /\ disk' # disk
    <3>1. disk' \in Inserted(disk, key[c], list[c], wall) /\ pc[c] = "save"
      BY <2>3 DEF SaveToDisk, Go
    <3>2. list[c] \in Lists /\ list[c].config = server[c] /\ key[c].server = server[c] /\ list[c].age = 0
      BY <3>1 DEF Progress
    <3>3. /\ disk' \in [ToolListCacheKey -> Entry \cup {NoList}]
          /\ \A j \in ToolListCacheKey :
                disk'[j] = NoList \/ disk'[j] = IF j = key[c] THEN [list |-> list[c], stored_at |-> wall] ELSE disk[j]
      BY SMTT(30), <1>2, <3>1, <3>2, InsertedFacts DEF TypeOK
    <3>4. ASSUME NEW j \in ToolListCacheKey, disk'[j] # NoList PROVE DiskEntry(j, disk'[j])
      <4>1. CASE j = key[c]
        BY SMTT(30), <4>1, <3>2, <3>3, <3>4 DEF DiskEntry, TypeOK
      <4>2. CASE j # key[c]
        BY <4>2, <2>1, <3>3, <3>4
      <4> QED
        BY <4>1, <4>2
    <3> QED
      BY <3>3, <3>4
  <2>4. CASE disk' = disk
    BY <2>4, <1>2, <2>1
  <2> QED
    BY <2>2, <2>3, <2>4
<1>4. Entries'
  BY <1>1, <1>3 DEF Entries
<1>5. /\ pc' \in [Callers -> Locations] /\ \A d \in Callers \ {c} : pc'[d] = pc[d]
      /\ \/ pc[c] = "remove" /\ pc'[c] = "permit"
         \/ pc[c] = "save" /\ pc'[c] = "keep"
  BY DEF RemoveFile, SaveToDisk, Go, TypeOK, Locations
<1>6. TypeOK'
  BY <1>1, <1>3, <1>5 DEF TypeOK
<1>7. Flights'
  <2>1. \A d \in Callers : Loading(d)' <=> Loading(d)
    BY <1>5 DEF Loading
  <2> QED
    BY <1>1, <2>1, FlightsKept
<1>8. Progress(c)'
  BY <1>1, <1>5 DEF Progress, Answered
<1>9. \A d \in Callers \ {c} : Progress(d)'
  BY <1>1, <1>5, OthersProgress
<1> QED
  BY <1>4, <1>6, <1>7, <1>8, <1>9

\* A permit is taken, or the caller waits for the one that has it.
LEMMA PermitKeeps ==
  ASSUME CacheInv, NEW c \in Callers, Permit(c)
  PROVE  CacheInv'
<1> USE DEF CacheInv
<1> DEFINE p == ProcessOf[c]
<1>1. UNCHANGED <<settings, memory, disk, server, key, list, now, wall>>
  BY DEF Permit, callerVars, clocks
<1>2. p \in Procs /\ key[c] \in ToolListCacheKey /\ pc[c] = "permit"
  BY CacheAssumption DEF TypeOK, Permit, Go
<1>3. /\ pc' \in [Callers -> Locations] /\ \A d \in Callers \ {c} : pc'[d] = pc[d]
      /\ pc'[c] = IF key[c] \notin in_flight[p] THEN "load" ELSE "wait"
  BY DEF Permit, Go, TypeOK, Locations
<1>4. /\ in_flight' \in [Procs -> SUBSET ToolListCacheKey]
      /\ \A q \in Procs : in_flight'[q] = IF q = p THEN in_flight[q] \cup {key[c]} ELSE in_flight[q]
  <2>1. CASE key[c] \notin in_flight[p]
    BY <2>1, <1>2 DEF Permit, TypeOK
  <2>2. CASE key[c] \in in_flight[p]
    BY <2>2, <1>2 DEF Permit, TypeOK
  <2> QED
    BY <2>1, <2>2
<1>5. TypeOK'
  BY <1>1, <1>3, <1>4 DEF TypeOK
<1>6. Entries'
  BY <1>1 DEF Entries
<1>7. Flights'
  <2>1. \A d \in Callers \ {c} : Loading(d)' <=> Loading(d)
    BY <1>3 DEF Loading
  <2>2. ~Loading(c) /\ (Loading(c)' <=> key[c] \notin in_flight[p])
    BY <1>2, <1>3 DEF Loading
  <2>3. CASE key[c] \in in_flight[p]
    <3>1. in_flight' = in_flight
      BY <2>3 DEF Permit
    <3> QED
      BY <1>1, <2>1, <2>2, <2>3, <3>1, FlightsKept
  <2>4. CASE key[c] \notin in_flight[p]
    <3>1. ASSUME NEW d \in Callers, Loading(d)' PROVE key[d] \in in_flight'[ProcessOf[d]]
      <4>1. ProcessOf[d] \in Procs
        BY CacheAssumption
      <4>2. CASE d = c
        BY <4>1, <4>2, <1>4
      <4>3. CASE d # c
        BY SMTT(30), <4>1, <4>3, <3>1, <2>1, <1>4 DEF Flights
      <4> QED
        BY <4>2, <4>3
    <3>2. ASSUME NEW d \in Callers, Loading(d)', ProcessOf[d] = p, key[d] = key[c] PROVE d = c
      BY <3>2, <2>1, <2>4 DEF Flights
    <3>3. \A d, e \in Callers :
             Loading(d)' /\ Loading(e)' /\ ProcessOf[d] = ProcessOf[e] /\ key[d] = key[e] => d = e
      BY SMTT(30), <3>2, <2>1 DEF Flights
    <3>4. ASSUME NEW q \in Procs, NEW k \in in_flight'[q]
          PROVE  \E d \in Callers : ProcessOf[d] = q /\ key[d] = k /\ Loading(d)'
      <4>1. CASE k \in in_flight[q]
        <5>1. PICK d \in Callers : ProcessOf[d] = q /\ key[d] = k /\ Loading(d)
          BY <4>1 DEF Flights
        <5> QED
          BY <5>1, <2>1, <2>2
      <4>2. CASE k \notin in_flight[q]
        BY <4>2, <3>4, <1>4, <2>2, <2>4
      <4> QED
        BY <4>1, <4>2
    <3> QED
      BY SMTT(30), <1>1, <3>1, <3>3, <3>4 DEF Flights
  <2> QED
    BY <2>3, <2>4
<1>8. Progress(c)'
  BY <1>1, <1>2, <1>3 DEF Progress, Answered
<1>9. \A d \in Callers \ {c} : Progress(d)'
  BY <1>1, <1>3, OthersProgress
<1> QED
  BY <1>5, <1>6, <1>7, <1>8, <1>9

\* A load ends, with a list or without one.
LEMMA ReturnKeeps ==
  ASSUME CacheInv, NEW c \in Callers, LoadFails(c) \/ Release(c)
  PROVE  CacheInv'
<1> USE DEF CacheInv
<1>1. UNCHANGED <<settings, memory, disk, server, key, now, wall>>
  BY DEF LoadFails, Release, callerVars, clocks
<1>2. /\ pc' = [pc EXCEPT ![c] = "return"]
      /\ \/ pc[c] = "load" /\ list' = [list EXCEPT ![c] = NoList]
         \/ pc[c] = "release" /\ list' = [list EXCEPT ![c] = list[c]]
  BY DEF LoadFails, Release, Return, Go
<1>3. /\ pc' \in [Callers -> Locations] /\ list' \in [Callers -> Lists \cup {NoList}]
      /\ \A d \in Callers \ {c} : pc'[d] = pc[d] /\ list'[d] = list[d]
      /\ pc'[c] = "return"
  BY <1>2 DEF TypeOK, Locations
<1>4. in_flight' = [in_flight EXCEPT ![ProcessOf[c]] = @ \ {key[c]}]
  BY DEF LoadFails, Release
<1>5. in_flight' \in [Procs -> SUBSET ToolListCacheKey]
  BY <1>4, CacheAssumption DEF TypeOK
<1>6. TypeOK'
  BY <1>1, <1>3, <1>5 DEF TypeOK
<1>7. Entries'
  BY <1>1 DEF Entries
<1>8. Flights'
  <2>1. Loading(c) /\ ~Loading(c)'
    BY <1>2, <1>3 DEF Loading
  <2>2. \A d \in Callers \ {c} : Loading(d)' <=> Loading(d)
    BY <1>3 DEF Loading
  <2> QED
    BY <1>1, <1>4, <2>1, <2>2, PermitReturned
<1>9. Progress(c)'
  <2>0. Progress(c) /\ now \in Nat /\ TOOL_LIST_CACHE_TTL \in Nat
    BY SMTT(30), CacheAssumption DEF TypeOK
  <2>1. CASE pc[c] = "load" /\ list'[c] = NoList
    BY <2>1, <1>3 DEF Progress, Answered
  <2>2. CASE pc[c] = "release" /\ list'[c] = list[c]
    BY SMTT(30), <2>0, <2>2, <1>1, <1>3 DEF Progress, Answered
  <2> QED
    BY <2>1, <2>2, <1>2 DEF TypeOK
<1>10. \A d \in Callers \ {c} : Progress(d)'
  BY <1>1, <1>3, OthersProgress
<1> QED
  BY <1>6, <1>7, <1>8, <1>9, <1>10

\* A process dies.
LEMMA CrashKeeps ==
  ASSUME CacheInv, NEW p \in Procs, Crash(p)
  PROVE  CacheInv'
<1> USE DEF CacheInv
<1>1. UNCHANGED <<settings, disk, server, key, now, wall>>
  BY DEF Crash, callerVars, clocks
<1>2. Empty \in [ToolListCacheKey -> Entry \cup {NoList}] /\ \A k \in ToolListCacheKey : Empty[k] = NoList
  BY DEF Empty
<1>3. /\ memory' \in [Procs -> [ToolListCacheKey -> Entry \cup {NoList}]]
      /\ \A q \in Procs : memory'[q] = IF q = p THEN Empty ELSE memory[q]
  BY <1>2 DEF Crash, TypeOK
<1>4. /\ in_flight' \in [Procs -> SUBSET ToolListCacheKey]
      /\ \A q \in Procs : in_flight'[q] = IF q = p THEN {} ELSE in_flight[q]
  BY DEF Crash, TypeOK
<1>5. /\ pc' \in [Callers -> Locations]
      /\ \A c \in Callers : pc'[c] = IF ProcessOf[c] = p /\ pc[c] # "idle" THEN "return" ELSE pc[c]
  BY DEF Crash, TypeOK, Locations
<1>6. /\ list' \in [Callers -> Lists \cup {NoList}]
      /\ \A c \in Callers : list'[c] = IF ProcessOf[c] = p THEN NoList ELSE list[c]
  BY DEF Crash, TypeOK
<1>7. TypeOK'
  BY SMTT(30), <1>1, <1>3, <1>4, <1>5, <1>6, CacheAssumption DEF TypeOK, Crash
<1>8. Entries'
  BY <1>1, <1>2, <1>3 DEF Entries
<1>9. Flights'
  <2>1. \A c \in Callers : Loading(c)' <=> Loading(c) /\ ProcessOf[c] # p
    BY <1>5 DEF Loading
  <2>2. \A c \in Callers : ProcessOf[c] \in Procs
    BY CacheAssumption
  <2>3. \A c \in Callers : Loading(c)' => key[c] \in in_flight'[ProcessOf[c]]
    BY <1>4, <2>1, <2>2 DEF Flights
  <2>4. \A c, d \in Callers :
           Loading(c)' /\ Loading(d)' /\ ProcessOf[c] = ProcessOf[d] /\ key[c] = key[d] => c = d
    BY <2>1 DEF Flights
  <2>5. ASSUME NEW q \in Procs, NEW k \in in_flight'[q]
        PROVE  \E c \in Callers : ProcessOf[c] = q /\ key[c] = k /\ Loading(c)'
    <3>1. q # p /\ k \in in_flight[q]
      BY <1>4, <2>5
    <3>2. PICK c \in Callers : ProcessOf[c] = q /\ key[c] = k /\ Loading(c)
      BY <3>1 DEF Flights
    <3> QED
      BY <2>1, <3>1, <3>2
  <2> QED
    BY SMTT(30), <1>1, <2>3, <2>4, <2>5 DEF Flights
<1>10. ASSUME NEW c \in Callers PROVE Progress(c)'
  <2>1. CASE ProcessOf[c] = p
    BY <2>1, <1>5, <1>6 DEF Progress, Answered
  <2>2. CASE ProcessOf[c] # p
    BY <2>2, <1>1, <1>5, <1>6, OthersProgress
  <2> QED
    BY <2>1, <2>2
<1> QED
  BY <1>7, <1>8, <1>9, <1>10

-----------------------------------------------------------------------------
(* The theorems.                                                            *)

\* What the proofs of the cache's properties rest on.
THEOREM CacheInvariant == Spec => []CacheInv
<1>1. Init => CacheInv
  <2> SUFFICES ASSUME Init PROVE CacheInv
    OBVIOUS
  <2>1. TypeOK
    BY SMTT(30), SomeChosen, CacheAssumption DEF Init, TypeOK, Empty, Locations
  <2>2. Flights /\ \A c \in Callers : Progress(c)
    BY DEF Init, Flights, Progress, Loading, Answered
  <2>3. Entries
    BY DEF Init, Entries, Empty
  <2> QED
    BY <2>1, <2>2, <2>3 DEF CacheInv
<1>2. CacheInv /\ [Next]_vars => CacheInv'
  <2> SUFFICES ASSUME CacheInv, [Next]_vars PROVE CacheInv'
    OBVIOUS
  <2>1. ASSUME NEW c \in Callers, Begin(c) \/ Step(c) PROVE CacheInv'
    BY <2>1, LooksKeep, MemoryKeeps, DiskKeeps, PermitKeeps, ReturnKeeps DEF Step, Looks
  <2>2. CASE Reconfigure
    BY SMTT(30), <2>2 DEF Reconfigure, callerVars, clocks, CacheInv, TypeOK, Flights, Loading, Entries, Progress, Answered
  <2>3. ASSUME NEW p \in Procs, Crash(p) PROVE CacheInv'
    BY <2>3, CrashKeeps
  <2>4. CASE Tick \/ SetClock
    <3>1. UNCHANGED <<settings, memory, in_flight, disk, pc, server, key, list>>
      BY <2>4 DEF Tick, SetClock, callerVars
    <3>2. now' \in 0 .. MaxTime /\ wall' \in 0 .. MaxTime
      BY SMTT(30), <2>4, CacheAssumption DEF Tick, SetClock, CacheInv, TypeOK
    <3>3. TypeOK'
      BY <3>1, <3>2 DEF CacheInv, TypeOK
    <3>4. Flights' /\ Entries'
      BY SMTT(30), <3>1 DEF CacheInv, Flights, Loading, Entries
    <3>5. \A c \in Callers : Progress(c)'
      BY <3>1 DEF CacheInv, Progress, Answered
    <3> QED
      BY <3>3, <3>4, <3>5 DEF CacheInv
  <2>5. CASE UNCHANGED vars
    <3>1. TypeOK' /\ Entries'
      BY <2>5 DEF vars, CacheInv, TypeOK, Entries
    <3>2. Flights'
      BY SMTT(30), <2>5 DEF vars, CacheInv, Flights, Loading
    <3>3. \A c \in Callers : Progress(c)'
      BY <2>5 DEF vars, CacheInv, Progress, Answered
    <3> QED
      BY <3>1, <3>2, <3>3 DEF CacheInv
  <2> QED
    BY <2>1, <2>2, <2>3, <2>4, <2>5 DEF Next
<1> QED
  BY <1>1, <1>2, PTL DEF Spec

\* At most one thread of a process loads a key at a time, and a key is marked as in flight
\* exactly while one does, whatever loads fail and processes die.
THEOREM SingleFlightAlways == Spec => []SingleFlight
<1>1. CacheInv => SingleFlight
  <2> SUFFICES ASSUME CacheInv, NEW p \in Procs, NEW k \in ToolListCacheKey
               PROVE  Cardinality({c \in Callers : ProcessOf[c] = p /\ key[c] = k /\ Loading(c)})
                         = IF k \in in_flight[p] THEN 1 ELSE 0
    BY DEF SingleFlight, CacheInv
  <2> DEFINE loaders == {c \in Callers : ProcessOf[c] = p /\ key[c] = k /\ Loading(c)}
  <2>1. CASE k \in in_flight[p]
    <3>1. PICK c \in Callers : c \in loaders
      BY <2>1 DEF CacheInv, Flights
    <3>2. loaders = {c}
      BY <3>1 DEF CacheInv, Flights
    <3> QED
      BY <2>1, <3>2, FS_Singleton
  <2>2. CASE k \notin in_flight[p]
    <3>1. loaders = {}
      BY SMTT(30), <2>2 DEF CacheInv, Flights
    <3> QED
      BY <2>2, <3>1, FS_EmptySet
  <2> QED
    BY <2>1, <2>2
<1> QED
  BY <1>1, CacheInvariant, PTL

\* A call answers with a list of the server as the caller knows it.
THEOREM AnswerMatchesServerAlways == Spec => []AnswerMatchesServer
<1>1. CacheInv => AnswerMatchesServer
  BY DEF CacheInv, Progress, AnswerMatchesServer
<1> QED
  BY <1>1, CacheInvariant, PTL

\* What a call answers with was in the caches for at most two lifetimes, as their clocks
\* count, however the wall clock is set and wherever threads stop.
THEOREM AgeBoundedAlways == Spec => []AgeBounded
<1>1. CacheInv => AgeBounded
  BY DEF CacheInv, Progress, AgeBounded
<1> QED
  BY <1>1, CacheInvariant, PTL
=============================================================================
