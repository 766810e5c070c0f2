----------------------------- MODULE ToolCache -----------------------------
(***************************************************************************)
(* The tools/list cache of one upstream server                             *)
(* (src/upstream/tool_cache.rs): a memory cache and a set of loads in      *)
(* flight in each process, and a disk cache that the processes share.      *)
(*                                                                         *)
(* A list is modelled by where it came from: the configuration of the      *)
(* server that answered, and how long it was in the caches so far, each    *)
(* cache by its own clock: Instants in memory, the wall clock, which may be *)
(* set, on disk.  Time passes between any two steps.                       *)
(***************************************************************************)
EXTENDS Integers, FiniteSets

CONSTANTS Callers,                       \* threads
          Procs, ProcessOf,              \* the process of each thread
          Configs,                       \* versions of the settings
          TOOL_LIST_CACHE_TTL, TOOL_LIST_CACHE_MAX_ENTRIES,
          FutureTolerance,               \* how far in the future a stamp on disk may be (5 min)
          MaxTime,                       \* bound on the clocks
          NoList

ASSUME CacheAssumption ==
    /\ ProcessOf \in [Callers -> Procs]
    /\ Configs # {} /\ Configs \subseteq Nat
    /\ TOOL_LIST_CACHE_TTL \in Nat /\ FutureTolerance \in Nat
    /\ TOOL_LIST_CACHE_MAX_ENTRIES \in Nat \ {0}
    /\ MaxTime \in Nat

VARIABLES settings,        \* the settings file
          memory,          \* process -> key -> its entry
          in_flight,       \* process -> keys being loaded
          disk,            \* key -> its entry
          pc, server, key, list,         \* of each caller
          now, wall                      \* the monotonic clock and the wall clock

clocks == <<now, wall>>
callerVars == <<server, key>>
vars == <<settings, memory, in_flight, disk, pc, server, key, list, now, wall>>

Lists == [config : Configs, age : Nat]
Entry == [list : Lists, stored_at : 0 .. MaxTime]
ToolListCacheKey == [settings : Configs, server : Configs]

\* A key that leaves the server's own fingerprint out.
SettingsKey(s, srv) == [settings |-> s, server |-> s]
tool_list_cache_key(s, srv) == [settings |-> s, server |-> srv]

Locations == {"idle", "key", "memory", "disk", "remove", "promote", "permit", "load", "save", "keep",
              "release", "wait", "return"}

Empty == [k \in ToolListCacheKey |-> NoList]
SomeKey == CHOOSE k \in ToolListCacheKey : TRUE
SomeConfig == CHOOSE v \in Configs : \A w \in Configs : v <= w

Init == /\ settings = SomeConfig
        /\ memory = [p \in Procs |-> Empty]
        /\ in_flight = [p \in Procs |-> {}]
        /\ disk = Empty
        /\ pc = [c \in Callers |-> "idle"]
        /\ server = [c \in Callers |-> SomeConfig]
        /\ key = [c \in Callers |-> SomeKey]
        /\ list = [c \in Callers |-> NoList]
        /\ now = 0 /\ wall = 0

Go(c, from, to) == pc[c] = from /\ pc' = [pc EXCEPT ![c] = to]

\* The call ends with a list or, as NoList, an error.
Return(c, from, result) == /\ Go(c, from, "return")
                           /\ list' = [list EXCEPT ![c] = result]

-----------------------------------------------------------------------------
(* The two caches.                                                          *)

FreshWithoutLimit(e, clock) == TRUE
Fresh(e, clock) == e.stored_at + TOOL_LIST_CACHE_TTL >= clock
FromFuture(e) == e.stored_at > wall + FutureTolerance

\* The list of an entry, older by what it was in the cache.  A stamp that is ahead of the
\* clock counts as none.
Taken(e, clock) ==
    [e.list EXCEPT !.age = @ + IF clock >= e.stored_at THEN clock - e.stored_at ELSE 0]

\* What a cache may be after an insertion: oldest entries leave until it is in bounds.
Inserted(cache, k, l, clock) ==
    LET full == [cache EXCEPT ![k] = [list |-> l, stored_at |-> clock]]
        used == {j \in ToolListCacheKey : full[j] # NoList}
    IN  {[j \in ToolListCacheKey |-> IF j \in kept THEN full[j] ELSE NoList] :
           kept \in {s \in SUBSET used :
              /\ \/ s = used /\ Cardinality(used) <= TOOL_LIST_CACHE_MAX_ENTRIES
                 \/ Cardinality(s) = TOOL_LIST_CACHE_MAX_ENTRIES /\ s # used
              /\ \A j \in s, i \in used \ s : full[i].stored_at <= full[j].stored_at}}

-----------------------------------------------------------------------------
(* cached_tools_list.                                                       *)

\* The caller has loaded the server's configuration; it computes the key later.
Begin(c) == /\ Go(c, "idle", "key")
            /\ server' = [server EXCEPT ![c] = settings]
            /\ UNCHANGED <<settings, memory, in_flight, disk, key, list, clocks>>

\* refresh, an argument of the call, skips the first look at the caches.
ComputeKey(c) == /\ \E refresh \in BOOLEAN : Go(c, "key", IF refresh THEN "permit" ELSE "memory")
                 /\ key' = [key EXCEPT ![c] = tool_list_cache_key(settings, server[c])]
                 /\ UNCHANGED <<settings, memory, in_flight, disk, server, list, clocks>>

\* read_memory_cached_tools: an expired entry is removed.
ReadMemory(c) ==
    LET p == ProcessOf[c]
        e == memory[p][key[c]]
    IN  /\ IF e # NoList /\ Fresh(e, now)
           THEN Return(c, "memory", Taken(e, now)) /\ UNCHANGED memory
           ELSE /\ Go(c, "memory", "disk")
                /\ memory' = [memory EXCEPT ![p][key[c]] = NoList]
                /\ UNCHANGED list
        /\ UNCHANGED <<settings, in_flight, disk, callerVars, clocks>>

\* read_disk_cached_tools: a file that has expired, or is from the future, is removed.
ReadDisk(c) ==
    LET e == disk[key[c]]
    IN  /\ IF e # NoList /\ ~FromFuture(e) /\ Fresh(e, wall)
           THEN /\ Go(c, "disk", "promote")
                /\ list' = [list EXCEPT ![c] = Taken(e, wall)]
           ELSE /\ Go(c, "disk", IF e = NoList THEN "permit" ELSE "remove")
                /\ UNCHANGED list
        /\ UNCHANGED <<settings, memory, in_flight, disk, callerVars, clocks>>

\* By now this may be a newer file of another process.
RemoveFile(c) ==
    /\ Go(c, "remove", "permit")
    /\ disk' = [disk EXCEPT ![key[c]] = NoList]
    /\ UNCHANGED <<settings, memory, in_flight, callerVars, list, clocks>>

\* write_memory_cached_tools, with the time of this write.
Promote(c) ==
    /\ Return(c, "promote", list[c])
    /\ \E m \in Inserted(memory[ProcessOf[c]], key[c], list[c], now) :
          memory' = [memory EXCEPT ![ProcessOf[c]] = m]
    /\ UNCHANGED <<settings, in_flight, disk, callerVars, clocks>>

\* A permit for everyone who asks.
PermitAlways(c) ==
    /\ Go(c, "permit", "load")
    /\ in_flight' = [in_flight EXCEPT ![ProcessOf[c]] = @ \cup {key[c]}]
    /\ UNCHANGED <<settings, memory, disk, callerVars, list, clocks>>

\* acquire_tool_list_load_permit_or_cached.
Permit(c) ==
    LET p == ProcessOf[c]
        free == key[c] \notin in_flight[p]
    IN  /\ Go(c, "permit", IF free THEN "load" ELSE "wait")
        /\ in_flight' = IF free THEN [in_flight EXCEPT ![p] = @ \cup {key[c]}] ELSE in_flight
        /\ UNCHANGED <<settings, memory, disk, callerVars, list, clocks>>

\* A waiter looks at the caches and, when they have nothing, tries to load.
Wakes(c) == /\ Go(c, "wait", "memory")
            /\ key[c] \notin in_flight[ProcessOf[c]]
            /\ UNCHANGED <<settings, memory, in_flight, disk, callerVars, list, clocks>>

\* The server answers with a valid list.
Loaded(c) == /\ Go(c, "load", "save")
             /\ list' = [list EXCEPT ![c] = [config |-> server[c], age |-> 0]]
             /\ UNCHANGED <<settings, memory, in_flight, disk, callerVars, clocks>>

\* A failed load that is tried again until it succeeds.
LoadFailsRetrying(c) ==
    /\ Go(c, "load", "memory")
    /\ in_flight' = [in_flight EXCEPT ![ProcessOf[c]] = @ \ {key[c]}]
    /\ UNCHANGED <<settings, memory, disk, callerVars, list, clocks>>

\* The request fails or its result is not valid; the permit is dropped.
LoadFails(c) ==
    /\ Return(c, "load", NoList)
    /\ in_flight' = [in_flight EXCEPT ![ProcessOf[c]] = @ \ {key[c]}]
    /\ UNCHANGED <<settings, memory, disk, callerVars, clocks>>

\* write_disk_cached_tools; a failure to write is ignored.
SaveToDisk(c) ==
    /\ Go(c, "save", "keep")
    /\ disk' \in Inserted(disk, key[c], list[c], wall) \cup {disk}
    /\ UNCHANGED <<settings, memory, in_flight, callerVars, list, clocks>>

KeepInMemory(c) ==
    /\ Go(c, "keep", "release")
    /\ \E m \in Inserted(memory[ProcessOf[c]], key[c], list[c], now) :
          memory' = [memory EXCEPT ![ProcessOf[c]] = m]
    /\ UNCHANGED <<settings, in_flight, disk, callerVars, list, clocks>>

Release(c) ==
    /\ Return(c, "release", list[c])
    /\ in_flight' = [in_flight EXCEPT ![ProcessOf[c]] = @ \ {key[c]}]
    /\ UNCHANGED <<settings, memory, disk, callerVars, clocks>>

\* Back in the caller, which forgets the call.
Done(c) == /\ Go(c, "return", "idle")
           /\ server' = [server EXCEPT ![c] = SomeConfig]
           /\ key' = [key EXCEPT ![c] = SomeKey]
           /\ list' = [list EXCEPT ![c] = NoList]
           /\ UNCHANGED <<settings, memory, in_flight, disk, clocks>>

-----------------------------------------------------------------------------
(* The environment.                                                         *)

Reconfigure == /\ settings' \in {v \in Configs : v > settings}
               /\ UNCHANGED <<memory, in_flight, disk, pc, callerVars, list, clocks>>

\* The files are written atomically, so a crash loses what was in memory only.
Crash(p) == /\ memory' = [memory EXCEPT ![p] = Empty]
            /\ in_flight' = [in_flight EXCEPT ![p] = {}]
            /\ pc' = [c \in Callers |-> IF ProcessOf[c] = p /\ pc[c] # "idle" THEN "return" ELSE pc[c]]
            /\ list' = [c \in Callers |-> IF ProcessOf[c] = p THEN NoList ELSE list[c]]
            /\ UNCHANGED <<settings, disk, callerVars, clocks>>

Tick == /\ now < MaxTime /\ wall < MaxTime
        /\ now' = now + 1 /\ wall' = wall + 1
        /\ UNCHANGED <<settings, memory, in_flight, disk, pc, callerVars, list>>

\* Somebody sets the wall clock.
SetClock == /\ wall' \in (0 .. MaxTime) \ {wall}
            /\ UNCHANGED <<settings, memory, in_flight, disk, pc, callerVars, list, now>>

Step(c) == \/ ComputeKey(c) \/ ReadMemory(c) \/ ReadDisk(c) \/ RemoveFile(c) \/ Promote(c)
           \/ Permit(c) \/ Wakes(c) \/ Loaded(c) \/ LoadFails(c)
           \/ SaveToDisk(c) \/ KeepInMemory(c) \/ Release(c) \/ Done(c)

Next == \/ \E c \in Callers : Begin(c) \/ Step(c)
        \/ Reconfigure
        \/ \E p \in Procs : Crash(p)
        \/ Tick
        \/ SetClock

Spec == Init /\ [][Next]_vars

\* Threads run, a load ends by its timeout, and a waiter is notified.
Fairness == \A c \in Callers : WF_vars(Step(c))
FairSpec == Spec /\ Fairness

-----------------------------------------------------------------------------
(* Properties.                                                              *)

Answered(c) == pc[c] = "return" /\ list[c] # NoList
Loading(c) == pc[c] \in {"load", "save", "keep", "release"}

\* Every variable has its type.
TypeOK == /\ settings \in Configs
          /\ memory \in [Procs -> [ToolListCacheKey -> Entry \cup {NoList}]]
          /\ in_flight \in [Procs -> SUBSET ToolListCacheKey]
          /\ disk \in [ToolListCacheKey -> Entry \cup {NoList}]
          /\ pc \in [Callers -> Locations]
          /\ server \in [Callers -> Configs]
          /\ key \in [Callers -> ToolListCacheKey]
          /\ list \in [Callers -> Lists \cup {NoList}]
          /\ now \in 0 .. MaxTime /\ wall \in 0 .. MaxTime

\* The state has its type, at most one thread of a process loads a key at a time, and a
\* key is marked as in flight exactly while one does: no failed load leaves its mark
\* behind and makes the others wait forever.
SingleFlight ==
    /\ TypeOK
    /\ \A p \in Procs, k \in ToolListCacheKey :
          LET loaders == {c \in Callers : ProcessOf[c] = p /\ key[c] = k /\ Loading(c)}
          IN  Cardinality(loaders) = IF k \in in_flight[p] THEN 1 ELSE 0

\* A call answers with a list of the server as the caller knows it, although the
\* settings may change between loading the server and computing the key, and other
\* callers store lists of other configurations meanwhile.
AnswerMatchesServer == \A c \in Callers : Answered(c) => list[c].config = server[c]

\* Disk entries are stamped when they are written and memory entries when they are
\* promoted, so a list that is handed out was in the caches for up to two lifetimes as
\* their clocks count, and no longer, whenever the wall clock is set and however long
\* threads stop in between: promoting does not renew an entry on disk.
AgeBounded ==
    \A c \in Callers : Answered(c) => list[c].age <= 2 * TOOL_LIST_CACHE_TTL

\* Every call ends once no new call starts, whoever crashes or fails to load.
EveryCallEnds ==
    <>[][\A c \in Callers : pc[c] = "idle" => pc'[c] = "idle"]_vars
        => <>[](\A c \in Callers : pc[c] = "idle")
=============================================================================
