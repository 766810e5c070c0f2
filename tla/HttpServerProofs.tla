-------------------------- MODULE HttpServerProofs --------------------------
(***************************************************************************)
(* Proofs about the HTTP server, for any number of workers and clients and *)
(* any limits: the gates, the rate limiter and the two caches.             *)
(***************************************************************************)
EXTENDS HttpServer, FiniteSetTheorems, WellFoundedInduction, TLAPS

\* The backend of every step that names no other.
USE ZenonT(30)

-----------------------------------------------------------------------------
(* The inductive invariant.                                                 *)

Steps == {"recv", "head", "load", "cas", "body", "action", "overview", "cold", "rebuild",
          "drop", "health", "checking", "close", "exit"}
WorkerState == [at : Steps, client : Clients \cup {NoOne}, gate : Gates \cup {"none"},
                seen : Nat, refresh : BOOLEAN]

\* What a worker knows at each step: which gate it is at, that the gate had room when it
\* read the counter, and whether it has a permit to refresh.
Knows(x) ==
  /\ x.at = "head" => x.client \in Clients
  /\ x.at \in {"load", "cas"} => x.gate \in Gates
  /\ x.at = "cas" => x.seen < limit[x.gate]
  /\ x.at = "drop" => x.refresh
  /\ x.refresh => x.at \in {"overview", "cold", "rebuild", "drop", "health", "checking", "close"}

Server == /\ loop \in {"accepting", "sending", "joining", "returned"}
          /\ loop = "sending" => pending \in Clients
          /\ channel \in Seq(Clients) /\ Len(channel) <= ChannelSize
          /\ limit \in [Gates -> Nat] /\ now \in Nat
          /\ worker \in [Workers -> WorkerState]
          /\ \A w \in Workers : Knows(worker[w])

\* The counter of a gate is the number of workers behind it.
Holders(g) == {w \in Workers : Behind(w, g)}

Permits == /\ active \in [Gates -> Nat]
           /\ \A g \in Gates : /\ IsFiniteSet(Holders(g))
                               /\ active[g] = Cardinality(Holders(g))
                               /\ active[g] <= limit[g]

\* The requests the limiter remembers of a client at a time are the last of those it let
\* through, and the others have left the window, or are of the first that can be
\* represented.
Gone(past, k, t) == \A i \in 1 .. k : past[i] <= t - RateWindow \/ past[i] < RateWindow

Remembers(requests, past, t) ==
  /\ requests \in Seq(Nat) /\ Len(requests) <= RateMax
  /\ \E k \in 0 .. Len(past) :
       /\ Len(past) = k + Len(requests) /\ Gone(past, k, t)
       /\ \A i \in 1 .. Len(requests) : requests[i] = past[k + i]

Limiter == /\ IsFiniteSet(DOMAIN table) /\ Cardinality(DOMAIN table) <= MaxClients
           /\ DOMAIN table \subseteq Clients
           /\ \A c \in DOMAIN table : table[c] \in [requests : Seq(Nat), seen : Nat]
           /\ admitted \in [Clients -> Seq(Nat)]
           /\ \A c \in DOMAIN table : Remembers(table[c].requests, admitted[c], now)
           /\ \A c \in Clients \ DOMAIN table : Gone(admitted[c], Len(admitted[c]), now)

\* A first build of the overview and every build of the health report have their mutex; a
\* later build of the overview runs alone and began after the value it will replace.
Times == [built : Int, stored : Int]

BuildOK(w) ==
  /\ worker[w].at = "cold" => /\ overview.lock = w /\ overview.entry = Nothing
                              /\ began[w] >= 0
  /\ worker[w].at = "rebuild" => /\ overview.refreshing /\ overview.entry # Nothing
                                 /\ overview.entry.built <= began[w]
  /\ worker[w].at = "checking" => health.lock = w /\ health.entry.built <= began[w]

Caches == /\ overview \in [lock : Workers \cup {NoOne}, entry : Times, refreshing : BOOLEAN,
                           failed : Int]
          /\ health \in [lock : Workers \cup {NoOne}, entry : Times]
          /\ began \in [Workers -> Int]
          /\ overview.entry.built <= now /\ health.entry.built <= now
          /\ \A w \in Workers : began[w] <= now /\ BuildOK(w)
          /\ \A v, w \in Workers : worker[v].at = "rebuild" /\ worker[w].at = "rebuild" => v = w

ServerInv == Server /\ Permits /\ Limiter /\ Caches

-----------------------------------------------------------------------------
(* The workers.                                                             *)

\* What a step of a worker does to the workers.
Moved(w) == /\ worker' \in [Workers -> WorkerState]
            /\ \A v \in Workers \ {w} : worker'[v] = worker[v]
            /\ Knows(worker'[w])

\* To go somewhere is to change one field.
LEMMA GotoFacts ==
  ASSUME Server, NEW w \in Workers, NEW s \in Steps, Goto(w, s)
  PROVE  /\ worker' \in [Workers -> WorkerState]
         /\ \A v \in Workers \ {w} : worker'[v] = worker[v]
         /\ worker'[w].at = s /\ worker'[w].client = worker[w].client
         /\ worker'[w].gate = worker[w].gate /\ worker'[w].seen = worker[w].seen
         /\ worker'[w].refresh = worker[w].refresh
BY DEF Server, Goto, WorkerState

\* To enter a gate is to change three.
LEMMA EnterFacts ==
  ASSUME Server, NEW w \in Workers, NEW g \in Gates, Enter(w, g)
  PROVE  /\ worker' \in [Workers -> WorkerState]
         /\ \A v \in Workers \ {w} : worker'[v] = worker[v]
         /\ worker'[w].at = "load" /\ worker'[w].gate = g
         /\ worker'[w].refresh = worker[w].refresh
<1>1. worker[w] \in WorkerState /\ worker \in [Workers -> WorkerState] /\ "load" \in Steps
  BY DEF Server, Steps
<1>2. /\ DOMAIN worker' = Workers /\ worker' = [v \in Workers |-> worker'[v]]
      /\ \A v \in Workers \ {w} : worker'[v] = worker[v]
  BY <1>1 DEF Enter
<1>3. worker'[w] = [[[worker[w] EXCEPT !.at = "load"] EXCEPT !.gate = g] EXCEPT !.client = NoOne]
  BY <1>1 DEF Enter
<1>4. /\ worker'[w] \in WorkerState /\ worker'[w].at = "load" /\ worker'[w].gate = g
      /\ worker'[w].refresh = worker[w].refresh
  BY <1>1, <1>3 DEF WorkerState
<1>5. \A v \in Workers : worker'[v] \in WorkerState
  BY <1>1, <1>2, <1>4
<1> QED
  BY <1>2, <1>4, <1>5

\* To hang up is to be ready for the next connection.
LEMMA HangupFacts ==
  ASSUME Server, NEW w \in Workers, Hangup(w)
  PROVE  /\ worker' \in [Workers -> WorkerState]
         /\ \A v \in Workers \ {w} : worker'[v] = worker[v]
         /\ worker'[w] = Receiving /\ Receiving \in WorkerState
         /\ Receiving.at = "recv" /\ ~Receiving.refresh
BY DEF Server, Hangup, WorkerState, Steps, Receiving

\* Every step of a worker leaves the others where they are, and the worker knowing what it
\* has to.
LEMMA WorkerMoves ==
  ASSUME Server, Permits, NEW w \in Workers, WorkerStep(w)
  PROVE  Moved(w)
<1>0. worker[w] \in WorkerState /\ Knows(worker[w])
  BY DEF Server
<1>1. CASE Receive(w)
  <2>1. Head(channel) \in Clients
    BY SMTT(30), <1>1 DEF Receive, Server
  <2> QED
    BY <1>0, <1>1, <2>1 DEF Receive, At, Server, Moved, WorkerState, Steps, Knows
<1>2. CASE WorkerExit(w)
  <2>1. Goto(w, "exit") /\ worker[w].at = "recv"
    BY <1>2 DEF WorkerExit, At
  <2> QED
    BY <1>0, <2>1, GotoFacts DEF Steps, Moved, Knows
<1>3. CASE RefuseHead(w) \/ Close(w)
  BY <1>3, HangupFacts DEF RefuseHead, Close, Moved, Knows
<1>4. CASE CheckRate(w)
  <2>1. worker[w].at = "head" /\ (Enter(w, "request") \/ Hangup(w))
    BY <1>4 DEF CheckRate, At
  <2>2. CASE Enter(w, "request")
    BY <1>0, <2>1, <2>2, EnterFacts DEF Gates, Moved, Knows
  <2>3. CASE Hangup(w)
    BY <2>3, HangupFacts DEF Moved, Knows
  <2> QED
    BY <2>1, <2>2, <2>3
<1>5. CASE LoadGate(w)
  <2>1. worker[w].at = "load" /\ worker[w].gate \in Gates
    BY <1>0, <1>5 DEF LoadGate, At, Knows
  <2>2. CASE active[worker[w].gate] < limit[worker[w].gate] /\ worker' = [worker EXCEPT ![w].at = "cas", ![w].seen = active[worker[w].gate]]
    <3>1. "cas" \in Steps /\ active[worker[w].gate] \in Nat
      BY <2>1 DEF Steps, Permits
    <3>2. /\ worker' \in [Workers -> WorkerState]
          /\ \A v \in Workers \ {w} : worker'[v] = worker[v]
      BY <1>0, <2>2, <3>1 DEF Server, WorkerState
    <3>3. /\ worker'[w].at = "cas" /\ worker'[w].gate = worker[w].gate
          /\ worker'[w].seen = active[worker[w].gate] /\ worker'[w].refresh = worker[w].refresh
      BY <1>0, <2>2 DEF Server, WorkerState
    <3> QED
      BY <1>0, <2>1, <2>2, <3>2, <3>3 DEF Moved, Knows
  <2>3. CASE Hangup(w)
    BY SMTT(30), <2>3, HangupFacts DEF Moved, Knows
  <2>4. CASE Goto(w, "close")
    BY <1>0, <2>1, <2>4, GotoFacts DEF Steps, Moved, Knows
  <2> QED
    BY <1>5, <2>2, <2>3, <2>4 DEF LoadGate
<1>6. CASE TakePermit(w)
  <2>1. worker[w].at = "cas" /\ worker[w].gate \in Gates
    BY <1>0, <1>6 DEF TakePermit, At, Knows
  <2>2. CASE Goto(w, "load")
    BY <1>0, <2>1, <2>2, GotoFacts DEF Steps, Moved, Knows
  <2>3. CASE worker' = [worker EXCEPT ![w].at = Inside[worker[w].gate], ![w].seen = 0, ![w].gate = "none",
                                      ![w].refresh = (worker[w].gate = "refresh")]
    <3>1. Inside[worker[w].gate] \in {"body", "action", "overview"} /\ (worker[w].gate = "refresh" => Inside[worker[w].gate] = "overview")
      BY SMTT(30), <2>1 DEF Inside, Gates
    <3> QED
      BY <1>0, <2>1, <2>3, <3>1 DEF Server, Moved, WorkerState, Steps, Knows
  <2> QED
    BY <1>6, <2>2, <2>3 DEF TakePermit
<1>7. CASE Dispatch(w)
  <2>1. worker[w].at = "body" /\ ~worker[w].refresh
    BY <1>0, <1>7 DEF Dispatch, At, Knows, WorkerState
  <2>2. CASE Goto(w, "close") \/ Goto(w, "overview")
    BY <1>0, <2>1, <2>2, GotoFacts DEF Steps, Moved, Knows
  <2>3. CASE Enter(w, "heavy") \/ Enter(w, "refresh")
    BY <1>0, <2>1, <2>3, EnterFacts DEF Gates, Moved, Knows
  <2>4. CASE \E r \in BOOLEAN : worker' = [worker EXCEPT ![w].at = "health", ![w].refresh = r]
    <3>1. PICK r \in BOOLEAN : worker' = [worker EXCEPT ![w].at = "health", ![w].refresh = r]
      BY <2>4
    <3>2. "health" \in Steps
      BY DEF Steps
    <3>3. /\ worker' \in [Workers -> WorkerState]
          /\ \A v \in Workers \ {w} : worker'[v] = worker[v]
      BY <1>0, <3>1, <3>2 DEF Server, WorkerState
    <3>4. worker'[w].at = "health"
      BY <1>0, <3>1 DEF Server, WorkerState
    <3> QED
      BY <3>3, <3>4 DEF Moved, Knows
  <2> QED
    BY <1>7, <2>2, <2>3, <2>4 DEF Dispatch
<1>8. CASE HeavyAction(w) \/ DropRefresh(w) \/ HealthBuilt(w)
  <2>1. Goto(w, "close")
    BY <1>8 DEF HeavyAction, DropRefresh, HealthBuilt
  <2> QED
    BY <1>0, <2>1, GotoFacts DEF Steps, Moved, Knows
<1>9. CASE Overview(w) \/ OverviewBuilt(w) \/ Health(w)
  <2>1. worker[w].at \in {"overview", "cold", "rebuild", "health"}
    BY <1>9 DEF Overview, OverviewBuilt, Health, At
  <2>2. PICK s \in {"rebuild", "cold", "checking", "close", "drop"} :
           Goto(w, s) /\ (s = "drop" => worker[w].refresh)
    BY <1>9 DEF Overview, OverviewBuilt, Health, Answer
  <2> QED
    BY <1>0, <2>1, <2>2, GotoFacts DEF Steps, Moved, Knows
<1> QED
  BY <1>1, <1>2, <1>3, <1>4, <1>5, <1>6, <1>7, <1>8, <1>9 DEF WorkerStep

\* The state keeps its shape.
LEMMA ServerStep ==
  ASSUME Server, Permits, Next
  PROVE  Server'
<1>1. CASE \E c \in Clients : Accept(c)
  BY <1>1 DEF Accept, Server, Knows
<1>2. CASE AcceptFails \/ Return \/ Tick
  BY SMTT(30), <1>2 DEF AcceptFails, Return, Tick, main, Server, Knows
<1>3. CASE Send
  <2>1. channel' \in Seq(Clients) /\ Len(channel') <= ChannelSize
    BY SMTT(30), <1>3, HttpAssumption DEF Send, Server
  <2> QED
    BY <1>3, <2>1 DEF Send, Server, Knows
<1>4. ASSUME NEW w \in Workers, WorkerStep(w) PROVE Server'
  <2>1. Moved(w)
    BY <1>4, WorkerMoves
  <2>2. UNCHANGED <<limit, loop, pending, now>>
    BY <1>4 DEF WorkerStep, Receive, WorkerExit, RefuseHead, CheckRate, LoadGate, TakePermit, Dispatch,
         HeavyAction, Overview, OverviewBuilt, DropRefresh, Health, HealthBuilt, Close, main
  <2>3. channel' = channel \/ (channel # <<>> /\ channel' = Tail(channel))
    BY <1>4 DEF WorkerStep, Receive, WorkerExit, RefuseHead, CheckRate, LoadGate, TakePermit, Dispatch,
         HeavyAction, Overview, OverviewBuilt, DropRefresh, Health, HealthBuilt, Close, main
  <2>6. channel \in Seq(Clients) /\ Len(channel) <= ChannelSize /\ ChannelSize \in Nat
    BY HttpAssumption DEF Server
  <2>4. channel' \in Seq(Clients) /\ Len(channel') <= ChannelSize
    BY SMTT(30), <2>3, <2>6
  <2>5. \A v \in Workers : Knows(worker'[v])
    BY <2>1 DEF Moved, Server
  <2> QED
    BY <2>1, <2>2, <2>4, <2>5 DEF Server, Knows, Moved
<1> QED
  BY <1>1, <1>2, <1>3, <1>4 DEF Next, LoopStep

-----------------------------------------------------------------------------
(* The gates.                                                               *)

\* Nobody passes a gate in either direction.
LEMMA NobodyPasses ==
  ASSUME Permits, \A w \in Workers, g \in Gates : Behind(w, g)' <=> Behind(w, g),
         UNCHANGED <<active, limit>>
  PROVE  Permits'
<1>1. \A g \in Gates : Holders(g)' = Holders(g)
  BY DEF Holders
<1> QED
  BY <1>1 DEF Permits

\* One worker takes a permit while there is one.
LEMMA OneEnters ==
  ASSUME Permits, NEW w \in Workers, NEW g \in Gates, ~Behind(w, g), Behind(w, g)',
         \A v \in Workers, h \in Gates : v # w \/ h # g => (Behind(v, h)' <=> Behind(v, h)),
         UNCHANGED limit, limit \in [Gates -> Nat], active[g] < limit[g],
         active' = [active EXCEPT ![g] = active[g] + 1]
  PROVE  Permits'
<1>1. Holders(g)' = Holders(g) \cup {w} /\ w \notin Holders(g)
  BY DEF Holders
<1>2. \A h \in Gates \ {g} : Holders(h)' = Holders(h) /\ active'[h] = active[h]
  BY DEF Holders, Permits
<1>3. IsFiniteSet(Holders(g)') /\ Cardinality(Holders(g)') = Cardinality(Holders(g)) + 1
  BY SMTT(30), <1>1, FS_AddElement DEF Permits
<1>4. active'[g] = active[g] + 1 /\ active' \in [Gates -> Nat]
  BY SMTT(30) DEF Permits
<1> QED
  BY SMTT(30), <1>2, <1>3, <1>4 DEF Permits

\* One worker gives its permit back.
LEMMA OneLeaves ==
  ASSUME Permits, NEW w \in Workers, NEW g \in Gates, Behind(w, g), ~Behind(w, g)',
         \A v \in Workers, h \in Gates : v # w \/ h # g => (Behind(v, h)' <=> Behind(v, h)),
         UNCHANGED limit, limit \in [Gates -> Nat], active' = [active EXCEPT ![g] = active[g] - 1]
  PROVE  Permits'
<1>1. Holders(g)' = Holders(g) \ {w} /\ w \in Holders(g)
  BY DEF Holders
<1>2. \A h \in Gates \ {g} : Holders(h)' = Holders(h) /\ active'[h] = active[h]
  BY DEF Holders, Permits
<1>3. IsFiniteSet(Holders(g)') /\ Cardinality(Holders(g)') = Cardinality(Holders(g)) - 1
  BY SMTT(30), <1>1, FS_RemoveElement DEF Permits
<1>4. active[g] \in Nat /\ active[g] # 0
  BY <1>1, FS_EmptySet DEF Permits
<1>5. active'[g] = active[g] - 1 /\ active' \in [Gates -> Nat]
  BY SMTT(30), <1>4 DEF Permits
<1> QED
  BY SMTT(30), <1>2, <1>3, <1>4, <1>5 DEF Permits

\* Which steps are behind which gate.
LEMMA BehindGates ==
  ASSUME NEW w \in Workers
  PROVE  /\ Behind(w, "request") <=>
              \/ worker[w].at \notin {"recv", "head", "load", "cas", "exit"}
              \/ worker[w].at \in {"load", "cas"} /\ worker[w].gate # "request"
         /\ Behind(w, "heavy") <=> worker[w].at = "action"
         /\ Behind(w, "refresh") <=> /\ worker[w].at \in {"overview", "cold", "rebuild", "drop"}
                                     /\ worker[w].refresh
         /\ Behind(w, "request")' <=>
              \/ worker'[w].at \notin {"recv", "head", "load", "cas", "exit"}
              \/ worker'[w].at \in {"load", "cas"} /\ worker'[w].gate # "request"
         /\ Behind(w, "heavy")' <=> worker'[w].at = "action"
         /\ Behind(w, "refresh")' <=> /\ worker'[w].at \in {"overview", "cold", "rebuild", "drop"}
                                      /\ worker'[w].refresh
BY DEF Behind

\* The steps that take or return a permit.
Passes(w) == TakePermit(w) \/ HeavyAction(w) \/ DropRefresh(w) \/ Close(w)

\* No other step brings its worker behind a gate or away from it.
LEMMA OthersStay ==
  ASSUME Server, NEW w \in Workers, WorkerStep(w), ~Passes(w)
  PROVE  \A g \in Gates : Behind(w, g)' <=> Behind(w, g)
<1>0. worker[w] \in WorkerState /\ Knows(worker[w])
  BY DEF Server
<1> SUFFICES /\ Behind(w, "request")' <=> Behind(w, "request")
             /\ Behind(w, "heavy")' <=> Behind(w, "heavy")
             /\ Behind(w, "refresh")' <=> Behind(w, "refresh")
  BY DEF Gates
<1>1. CASE Receive(w)
  <2>1. worker[w].at = "recv" /\ worker'[w].at = "head"
    BY <1>0, <1>1 DEF Receive, At, Server, WorkerState
  <2> QED
    BY <2>1, BehindGates
<1>2. CASE WorkerExit(w)
  <2>1. worker[w].at = "recv" /\ worker'[w].at = "exit"
    BY <1>2, GotoFacts DEF WorkerExit, At, Steps
  <2> QED
    BY <2>1, BehindGates
<1>3. CASE RefuseHead(w) \/ CheckRate(w)
  <2>1. worker[w].at = "head" /\ (Enter(w, "request") \/ Hangup(w))
    BY <1>3 DEF RefuseHead, CheckRate, At
  <2>2. \/ worker'[w].at = "load" /\ worker'[w].gate = "request"
        \/ worker'[w].at = "recv"
    BY <2>1, EnterFacts, HangupFacts DEF Gates
  <2> QED
    BY <2>1, <2>2, BehindGates
<1>4. CASE LoadGate(w)
  <2>1. worker[w].at = "load" /\ ~worker[w].refresh
    BY <1>0, <1>4 DEF LoadGate, At, Knows, WorkerState
  <2>2. \/ worker'[w].at = "cas" /\ worker'[w].gate = worker[w].gate
        \/ worker'[w].at = "recv" /\ worker[w].gate = "request"
        \/ worker'[w].at = "close" /\ worker[w].gate # "request"
    <3>1. CASE worker' = [worker EXCEPT ![w].at = "cas", ![w].seen = active[worker[w].gate]]
      BY <1>0, <3>1 DEF Server, WorkerState
    <3>2. CASE Hangup(w) /\ worker[w].gate = "request"
      BY <3>2, HangupFacts
    <3>3. CASE Goto(w, "close") /\ worker[w].gate # "request"
      BY <3>3, GotoFacts DEF Steps
    <3> QED
      BY <1>4, <3>1, <3>2, <3>3 DEF LoadGate
  <2> QED
    BY <2>1, <2>2, BehindGates
<1>5. CASE Dispatch(w)
  <2>1. worker[w].at = "body" /\ ~worker[w].refresh
    BY <1>0, <1>5 DEF Dispatch, At, Knows, WorkerState
  <2>2. \/ worker'[w].at = "close" \/ worker'[w].at = "health"
        \/ worker'[w].at = "load" /\ worker'[w].gate # "request"
        \/ worker'[w].at = "overview" /\ ~worker'[w].refresh
    <3>1. CASE Goto(w, "close") \/ Goto(w, "overview")
      BY <2>1, <3>1, GotoFacts DEF Steps
    <3>2. CASE Enter(w, "heavy") \/ Enter(w, "refresh")
      BY <3>2, EnterFacts DEF Gates
    <3>3. CASE \E r \in BOOLEAN : worker' = [worker EXCEPT ![w].at = "health", ![w].refresh = r]
      BY SMTT(30), <1>0, <3>3 DEF Server, WorkerState
    <3> QED
      BY <1>5, <3>1, <3>2, <3>3 DEF Dispatch
  <2> QED
    BY <2>1, <2>2, BehindGates
<1>6. CASE Overview(w) \/ OverviewBuilt(w)
  <2>1. worker[w].at \in {"overview", "cold", "rebuild"}
    BY <1>6 DEF Overview, OverviewBuilt, At
  <2>2. PICK s \in {"rebuild", "cold", "close", "drop"} :
           Goto(w, s) /\ (s = "drop" => worker[w].refresh) /\ (s = "close" => ~worker[w].refresh)
    BY <1>6 DEF Overview, OverviewBuilt, Answer
  <2>3. worker'[w].at = s /\ worker'[w].refresh = worker[w].refresh
    BY <2>2, GotoFacts DEF Steps
  <2> QED
    BY <2>1, <2>2, <2>3, BehindGates
<1>7. CASE Health(w) \/ HealthBuilt(w)
  <2>1. worker[w].at \in {"health", "checking"}
    BY <1>7 DEF Health, HealthBuilt, At
  <2>2. PICK s \in {"close", "checking"} : Goto(w, s)
    BY <1>7 DEF Health, HealthBuilt
  <2>3. worker'[w].at = s
    BY <2>2, GotoFacts DEF Steps
  <2> QED
    BY <2>1, <2>2, <2>3, BehindGates
<1> QED
  BY <1>1, <1>2, <1>3, <1>4, <1>5, <1>6, <1>7 DEF WorkerStep, Passes

\* The counters follow the workers: a permit is taken when the counter is still what the
\* worker has read, and there was room then.
LEMMA PermitsStep ==
  ASSUME Server, Permits, Next
  PROVE  Permits'
<1>1. CASE (\E c \in Clients : Accept(c)) \/ AcceptFails \/ LoopStep \/ Tick
  <2>1. UNCHANGED <<active, limit, worker>>
    BY <1>1 DEF Accept, AcceptFails, LoopStep, Send, Return, Tick, main
  <2>2. \A w \in Workers, g \in Gates : Behind(w, g)' <=> Behind(w, g)
    BY <2>1 DEF Behind
  <2> QED
    BY <2>1, <2>2, NobodyPasses
<1>2. ASSUME NEW w \in Workers, WorkerStep(w) PROVE Permits'
  <2>1. UNCHANGED limit /\ limit \in [Gates -> Nat] /\ worker[w] \in WorkerState /\ Knows(worker[w])
    BY <1>2 DEF WorkerStep, Receive, WorkerExit, RefuseHead, CheckRate, LoadGate, TakePermit, Dispatch,
         HeavyAction, Overview, OverviewBuilt, DropRefresh, Health, HealthBuilt, Close, main, Server
  <2>2. \A v \in Workers \ {w}, g \in Gates : Behind(v, g)' <=> Behind(v, g)
    <3>1. \A v \in Workers \ {w} : worker'[v] = worker[v]
      BY <1>2, WorkerMoves DEF Moved
    <3> QED
      BY <3>1 DEF Behind
  <2>3. CASE ~Passes(w)
    <3>1. UNCHANGED active
      BY <1>2, <2>3 DEF WorkerStep, Receive, WorkerExit, RefuseHead, CheckRate, LoadGate, Dispatch,
           Overview, OverviewBuilt, Health, HealthBuilt, Passes
    <3> QED
      BY <1>2, <2>1, <2>2, <2>3, <3>1, OthersStay, NobodyPasses
  <2>4. CASE TakePermit(w)
    <3>0. worker[w].at = "cas" /\ worker[w].gate \in Gates /\ worker[w].seen < limit[worker[w].gate] /\ ~worker[w].refresh
      BY <2>1, <2>4 DEF TakePermit, At, Knows, WorkerState
    <3> PICK g \in Gates : g = worker[w].gate
      BY <3>0
    <3>1. worker[w].at = "cas" /\ worker[w].gate = g /\ worker[w].seen < limit[g] /\ ~worker[w].refresh
      BY <3>0
    <3>2. CASE active[g] # worker[w].seen
      <4>1. Goto(w, "load") /\ UNCHANGED active
        BY <2>4, <3>2 DEF TakePermit
      <4>2. worker'[w].at = "load" /\ worker'[w].gate = g /\ worker'[w].refresh = worker[w].refresh
        BY <4>1, GotoFacts DEF Steps
      <4>3. \A h \in Gates : Behind(w, h)' <=> Behind(w, h)
        BY <3>1, <4>2, BehindGates DEF Gates
      <4> QED
        BY <2>1, <2>2, <4>1, <4>3, NobodyPasses
    <3>3. CASE active[g] = worker[w].seen
      <4>1. /\ active' = [active EXCEPT ![g] = active[g] + 1] /\ active[g] < limit[g]
            /\ worker' = [worker EXCEPT ![w].at = Inside[g], ![w].seen = 0, ![w].gate = "none",
                                        ![w].refresh = (g = "refresh")]
        BY <2>4, <3>1, <3>3 DEF TakePermit
      <4>2. worker'[w].at = Inside[g] /\ (worker'[w].refresh <=> g = "refresh")
        BY <2>1, <4>1 DEF Server, WorkerState
      <4>3. /\ g = "request" => Inside[g] = "body"
            /\ g = "heavy" => Inside[g] = "action"
            /\ g = "refresh" => Inside[g] = "overview"
        BY SMTT(30) DEF Inside
      <4>4. /\ ~Behind(w, g) /\ Behind(w, g)'
            /\ \A h \in Gates \ {g} : Behind(w, h)' <=> Behind(w, h)
        <5>1. CASE g = "request"
          BY <3>1, <4>2, <4>3, <5>1, BehindGates DEF Gates
        <5>2. CASE g = "heavy"
          BY <3>1, <4>2, <4>3, <5>2, BehindGates DEF Gates
        <5>3. CASE g = "refresh"
          BY <3>1, <4>2, <4>3, <5>3, BehindGates DEF Gates
        <5> QED
          BY <3>1, <5>1, <5>2, <5>3 DEF Gates
      <4>5. \A v \in Workers, h \in Gates : v # w \/ h # g => (Behind(v, h)' <=> Behind(v, h))
        BY <2>2, <4>4
      <4> QED
        BY <2>1, <3>1, <4>1, <4>4, <4>5, OneEnters
    <3> QED
      BY <3>2, <3>3
  <2>5. ASSUME NEW g \in Gates, Behind(w, g), ~Behind(w, g)', \A h \in Gates \ {g} : Behind(w, h)' <=> Behind(w, h),
               active' = [active EXCEPT ![g] = active[g] - 1]
        PROVE  Permits'
    <3>1. \A v \in Workers, h \in Gates : v # w \/ h # g => (Behind(v, h)' <=> Behind(v, h))
      BY <2>2, <2>5
    <3> QED
      BY <2>1, <2>5, <3>1, OneLeaves
  <2>6. CASE HeavyAction(w)
    <3>1. worker[w].at = "action" /\ worker'[w].at = "close"
      BY <2>6, GotoFacts DEF HeavyAction, At, Steps
    <3>2. /\ Behind(w, "heavy") /\ ~Behind(w, "heavy")'
          /\ \A h \in Gates \ {"heavy"} : Behind(w, h)' <=> Behind(w, h)
      BY <3>1, BehindGates DEF Gates
    <3> QED
      BY <2>5, <2>6, <3>2 DEF HeavyAction, Gates
  <2>7. CASE DropRefresh(w)
    <3>1. worker[w].at = "drop" /\ worker'[w].at = "close" /\ worker[w].refresh
      BY <2>1, <2>7, GotoFacts DEF DropRefresh, At, Steps, Knows
    <3>2. /\ Behind(w, "refresh") /\ ~Behind(w, "refresh")'
          /\ \A h \in Gates \ {"refresh"} : Behind(w, h)' <=> Behind(w, h)
      BY <3>1, BehindGates DEF Gates
    <3> QED
      BY <2>5, <2>7, <3>2 DEF DropRefresh, Gates
  <2>8. CASE Close(w)
    <3>1. worker[w].at = "close" /\ worker'[w].at = "recv"
      BY <2>8, HangupFacts DEF Close, At
    <3>2. /\ Behind(w, "request") /\ ~Behind(w, "request")'
          /\ \A h \in Gates \ {"request"} : Behind(w, h)' <=> Behind(w, h)
      BY <3>1, BehindGates DEF Gates
    <3> QED
      BY <2>5, <2>8, <3>2 DEF Close, Gates
  <2> QED
    BY <2>3, <2>4, <2>6, <2>7, <2>8 DEF Passes
<1> QED
  BY <1>1, <1>2 DEF Next

-----------------------------------------------------------------------------
(* The rate limiter.                                                        *)

\* A set of numbers has a least element.
LEMMA LeastNumber ==
  ASSUME NEW T \in SUBSET Nat, T # {}
  PROVE  \E n \in T : \A m \in T : n <= m
<1> DEFINE Before == OpToRel(<, Nat)
<1>1. \E n \in T : \A m \in T : <<m, n>> \notin Before
  BY NatLessThanWellFounded, WFMin
<1>2. PICK n \in T : \A m \in T : <<m, n>> \notin Before
  BY <1>1
<1>3. ASSUME NEW m \in T PROVE n <= m
  <2>1. m \in Nat /\ n \in Nat
    OBVIOUS
  <2>2. ~(m < n)
    BY <1>2, <2>1 DEF OpToRel
  <2> QED
    BY SMTT(30), <2>1, <2>2
<1> QED
  BY <1>2, <1>3

\* prune_window stops, and what it pops has left the window.
LEMMA PruneFacts ==
  ASSUME NEW requests \in Seq(Nat), NEW t \in Nat
  PROVE  /\ PruneWindow(requests, t) \in Seq(Nat)
         /\ \E n \in 0 .. Len(requests) :
              /\ Len(PruneWindow(requests, t)) = Len(requests) - n
              /\ \A i \in 1 .. n : requests[i] <= t - RateWindow \/ requests[i] < RateWindow
              /\ \A i \in 1 .. Len(requests) - n : PruneWindow(requests, t)[i] = requests[n + i]
<1> DEFINE start == Earlier(t, RateWindow)
           Stops(n) == /\ \A i \in 1 .. n : requests[i] <= start
                       /\ n < Len(requests) => requests[n + 1] > start
           T == {n \in 0 .. Len(requests) : n < Len(requests) => requests[n + 1] > start}
           popped == CHOOSE n \in 0 .. Len(requests) : Stops(n)
<1>0. start \in Int /\ \A i \in 1 .. Len(requests) : requests[i] \in Nat
  BY SMTT(30), RateAssumption DEF Earlier
<1>s. \A i \in 1 .. Len(requests) :
         requests[i] <= start => requests[i] <= t - RateWindow \/ requests[i] < RateWindow
  BY SMTT(30), <1>0, RateAssumption DEF Earlier
<1> HIDE DEF start
<1>1. T \in SUBSET Nat /\ Len(requests) \in T
  BY SMTT(30)
<1>2. PICK n \in T : \A m \in T : n <= m
  BY <1>1, LeastNumber
<1>3. ASSUME NEW i \in 1 .. n PROVE requests[i] <= start
  <2>0. n \in Nat /\ n <= Len(requests) /\ i \in Nat /\ i <= n /\ 1 <= i /\ Len(requests) \in Nat
    BY SMTT(30), <1>2
  <2>1. i - 1 \in 0 .. Len(requests) /\ ~(n <= i - 1)
    BY SMTT(30), <2>0
  <2>2. i - 1 \notin T
    <3> HIDE DEF T
    <3> QED
      BY <1>2, <2>1
  <2>3. i - 1 < Len(requests) /\ ~(requests[(i - 1) + 1] > start) /\ (i - 1) + 1 = i
    BY SMTT(30), <2>0, <2>1, <2>2
  <2> QED
    BY SMTT(30), <1>0, <2>0, <2>3
<1>4. Stops(n) /\ n \in 0 .. Len(requests)
  BY <1>2, <1>3
<1>5. Stops(popped) /\ popped \in 0 .. Len(requests)
  BY <1>4
<1>6. PruneWindow(requests, t) = SubSeq(requests, popped + 1, Len(requests))
  BY DEF PruneWindow, start
<1> HIDE DEF popped
<1>7. /\ SubSeq(requests, popped + 1, Len(requests)) \in Seq(Nat)
      /\ Len(SubSeq(requests, popped + 1, Len(requests))) = Len(requests) - popped
      /\ \A i \in 1 .. Len(requests) - popped : SubSeq(requests, popped + 1, Len(requests))[i] = requests[popped + i]
  BY SMTT(30), <1>5
<1>8. \A i \in 1 .. popped : requests[i] <= t - RateWindow \/ requests[i] < RateWindow
  <2>1. \A i \in 1 .. popped : i \in 1 .. Len(requests)
    BY SMTT(30), <1>5
  <2> QED
    BY <1>5, <1>s, <2>1
<1> QED
  BY <1>5, <1>6, <1>7, <1>8

\* What is left of the requests of a client is still all there is in the window.
LEMMA PruneRemembers ==
  ASSUME NEW requests, NEW past \in Seq(Nat), NEW t \in Nat, Remembers(requests, past, t)
  PROVE  Remembers(PruneWindow(requests, t), past, t)
<1> DEFINE left == PruneWindow(requests, t)
<1>1. requests \in Seq(Nat) /\ Len(requests) \in Nat /\ Len(requests) <= RateMax
  BY SMTT(30) DEF Remembers
<1>2. PICK k \in 0 .. Len(past) :
         /\ Len(past) = k + Len(requests) /\ Gone(past, k, t)
         /\ \A i \in 1 .. Len(requests) : requests[i] = past[k + i]
  BY DEF Remembers
<1>3. PICK n \in 0 .. Len(requests) :
         /\ Len(left) = Len(requests) - n
         /\ \A i \in 1 .. n : requests[i] <= t - RateWindow \/ requests[i] < RateWindow
         /\ \A i \in 1 .. Len(requests) - n : left[i] = requests[n + i]
  BY <1>1, PruneFacts
<1>4. left \in Seq(Nat)
  BY <1>1, PruneFacts
<1> HIDE DEF left
<1>5. k \in Nat /\ n \in Nat /\ n <= Len(requests)
  BY SMTT(30), <1>1, <1>2, <1>3
<1>6. k + n \in 0 .. Len(past) /\ Len(past) = k + n + Len(left) /\ Len(left) <= RateMax
  BY SMTT(30), <1>1, <1>2, <1>3, <1>5, RateAssumption
<1>7. ASSUME NEW i \in 1 .. k + n PROVE past[i] <= t - RateWindow \/ past[i] < RateWindow
  <2>1. CASE i <= k
    BY SMTT(30), <1>2, <1>5, <2>1 DEF Gone
  <2>2. CASE i > k
    <3>1. i - k \in 1 .. n /\ i - k \in 1 .. Len(requests) /\ k + (i - k) = i
      BY SMTT(30), <1>1, <1>5, <2>2
    <3> QED
      BY <1>2, <1>3, <3>1
  <2> QED
    BY SMTT(30), <1>5, <2>1, <2>2
<1>8. ASSUME NEW i \in 1 .. Len(left) PROVE left[i] = past[(k + n) + i]
  <2>1. i \in 1 .. Len(requests) - n /\ n + i \in 1 .. Len(requests) /\ k + (n + i) = (k + n) + i
    BY SMTT(30), <1>1, <1>3, <1>5
  <2> QED
    BY <1>2, <1>3, <2>1
<1>9. Gone(past, k + n, t)
  BY <1>7 DEF Gone
<1>10. Remembers(left, past, t)
  BY <1>4, <1>6, <1>8, <1>9 DEF Remembers
<1> QED
  BY <1>10 DEF left

\* When nothing is left, everything is gone.
LEMMA NothingLeft ==
  ASSUME NEW past \in Seq(Nat), NEW t \in Nat
  PROVE  Remembers(<<>>, past, t) <=> Gone(past, Len(past), t)
<1>1. Len(past) \in Nat /\ Len(<<>>) = 0 /\ <<>> \in Seq(Nat) /\ 0 <= RateMax /\ 1 .. 0 = {}
  BY SMTT(30), RateAssumption
<1>2. ASSUME Remembers(<<>>, past, t) PROVE Gone(past, Len(past), t)
  <2>1. PICK k \in 0 .. Len(past) : Len(past) = k + Len(<<>>) /\ Gone(past, k, t)
    BY <1>2 DEF Remembers
  <2>2. k = Len(past)
    BY SMTT(30), <1>1, <2>1
  <2> QED
    BY <2>1, <2>2
<1>3. ASSUME Gone(past, Len(past), t) PROVE Remembers(<<>>, past, t)
  <2>1. Len(past) \in 0 .. Len(past) /\ Len(past) = Len(past) + Len(<<>>)
    BY SMTT(30), <1>1
  <2> QED
    BY <1>1, <1>3, <2>1 DEF Remembers
<1> QED
  BY <1>2, <1>3

\* Time only lets requests leave the window.
LEMMA LaterRemembers ==
  ASSUME NEW requests, NEW past \in Seq(Nat), NEW t \in Nat, Remembers(requests, past, t)
  PROVE  Remembers(requests, past, t + 1)
<1>1. PICK k \in 0 .. Len(past) :
              /\ Len(past) = k + Len(requests) /\ Gone(past, k, t)
              /\ \A i \in 1 .. Len(requests) : requests[i] = past[k + i]
  BY SMTT(30) DEF Remembers
<1>2. Gone(past, k, t + 1)
  <2>1. \A i \in 1 .. k : past[i] \in Nat
    BY SMTT(30), <1>1
  <2> QED
    BY SMTT(30), <1>1, <2>1, RateAssumption DEF Gone
<1> QED
  BY <1>1, <1>2 DEF Remembers

\* A request let through is remembered as the last of its client's.
LEMMA AppendRemembers ==
  ASSUME NEW requests, NEW past \in Seq(Nat), NEW t \in Nat, Remembers(requests, past, t),
         Len(requests) < RateMax
  PROVE  Remembers(Append(requests, t), Append(past, t), t)
<1>1. PICK k \in 0 .. Len(past) :
              /\ Len(past) = k + Len(requests) /\ Gone(past, k, t)
              /\ \A i \in 1 .. Len(requests) : requests[i] = past[k + i]
  BY DEF Remembers
<1>2. requests \in Seq(Nat)
  BY DEF Remembers
<1> DEFINE more == Append(requests, t)
           all == Append(past, t)
<1>3. /\ more \in Seq(Nat) /\ Len(more) = Len(requests) + 1 /\ Len(all) = Len(past) + 1
      /\ \A i \in 1 .. Len(requests) : more[i] = requests[i]
      /\ \A i \in 1 .. Len(past) : all[i] = past[i]
      /\ more[Len(requests) + 1] = t /\ all[Len(past) + 1] = t
  BY SMTT(30), <1>2
<1> HIDE DEF more, all
<1>4. Len(requests) \in Nat /\ k \in Nat /\ Len(past) \in Nat
  BY SMTT(30), <1>1, <1>2
<1>5. Len(more) <= RateMax /\ k \in 0 .. Len(all) /\ Len(all) = k + Len(more)
  BY SMTT(30), <1>1, <1>3, <1>4, RateAssumption
<1>6. Gone(all, k, t)
  <2>1. \A i \in 1 .. k : i \in 1 .. Len(past)
    BY SMTT(30), <1>1, <1>4
  <2> QED
    BY <1>1, <1>3, <2>1 DEF Gone
<1>7. ASSUME NEW i \in 1 .. Len(more) PROVE more[i] = all[k + i]
  <2>1. CASE i = Len(requests) + 1
    BY SMTT(30), <1>1, <1>3, <1>4, <2>1
  <2>2. CASE i # Len(requests) + 1
    <3>1. i \in 1 .. Len(requests) /\ k + i \in 1 .. Len(past)
      BY SMTT(30), <1>1, <1>3, <1>4, <2>2
    <3> QED
      BY <1>1, <1>3, <3>1
  <2> QED
    BY <2>1, <2>2
<1>8. Remembers(more, all, t)
  BY <1>3, <1>5, <1>6, <1>7 DEF Remembers
<1> QED
  BY <1>8 DEF more, all

\* prune_idle forgets only clients that have nothing left in the window.
LEMMA IdleFacts ==
  ASSUME Server, Limiter, NEW pruned, pruned = PruneIdle(table, now)
  PROVE  /\ DOMAIN pruned \subseteq DOMAIN table
         /\ \A c \in DOMAIN pruned : /\ pruned[c] \in [requests : Seq(Nat), seen : Nat]
                                     /\ Remembers(pruned[c].requests, admitted[c], now)
         /\ \A c \in Clients \ DOMAIN pruned : Gone(admitted[c], Len(admitted[c]), now)
<1> DEFINE all == [c \in DOMAIN table |-> [table[c] EXCEPT !.requests = PruneWindow(table[c].requests, now)]]
<1>1. ASSUME NEW c \in DOMAIN table
      PROVE  /\ all[c] \in [requests : Seq(Nat), seen : Nat]
             /\ all[c].requests = PruneWindow(table[c].requests, now)
             /\ Remembers(all[c].requests, admitted[c], now)
  <2>1. /\ table[c] \in [requests : Seq(Nat), seen : Nat] /\ Remembers(table[c].requests, admitted[c], now)
        /\ admitted[c] \in Seq(Nat) /\ now \in Nat
    BY DEF Limiter, Server
  <2>2. PruneWindow(table[c].requests, now) \in Seq(Nat)
    BY <2>1, PruneFacts
  <2>3. Remembers(PruneWindow(table[c].requests, now), admitted[c], now)
    BY <2>1, PruneRemembers
  <2>4. all[c].requests = PruneWindow(table[c].requests, now)
    BY <2>1
  <2> QED
    BY <2>1, <2>2, <2>3, <2>4
<1>2. /\ DOMAIN pruned = {c \in DOMAIN table : table[c].seen > Earlier(now, 2 * RateWindow) \/ all[c].requests # <<>>}
      /\ \A c \in DOMAIN pruned : pruned[c] = all[c]
  BY DEF PruneIdle, Restrict
<1> HIDE DEF all
<1>3. ASSUME NEW c \in Clients \ DOMAIN pruned PROVE Gone(admitted[c], Len(admitted[c]), now)
  <2>1. CASE c \notin DOMAIN table
    BY <2>1 DEF Limiter
  <2>2. CASE c \in DOMAIN table
    <3>1. all[c].requests = <<>> /\ Remembers(all[c].requests, admitted[c], now)
      BY <1>1, <1>2, <2>2
    <3>2. admitted[c] \in Seq(Nat) /\ now \in Nat
      BY DEF Limiter, Server
    <3> QED
      BY <3>1, <3>2, NothingLeft
  <2> QED
    BY <2>1, <2>2
<1> QED
  BY <1>1, <1>2, <1>3

\* The limiter's check.
LEMMA RateStep ==
  ASSUME Server, Limiter, NEW w \in Workers, CheckRate(w)
  PROVE  Limiter'
<1> DEFINE client == worker[w].client
           pruned == PruneIdle(table, now)
<1>1. client \in Clients /\ now \in Nat /\ UNCHANGED now /\ admitted \in [Clients -> Seq(Nat)]
  BY DEF CheckRate, At, Server, Knows, Limiter
<1>2. /\ DOMAIN pruned \subseteq DOMAIN table
      /\ \A c \in DOMAIN pruned : /\ pruned[c] \in [requests : Seq(Nat), seen : Nat]
                                  /\ Remembers(pruned[c].requests, admitted[c], now)
      /\ \A c \in Clients \ DOMAIN pruned : Gone(admitted[c], Len(admitted[c]), now)
  BY IdleFacts
<1>3. PICK gone \in Evicted(pruned, client) :
        LET room == Restrict(pruned, DOMAIN pruned \ gone)
            kept == [c \in Clients |-> IF c \in gone THEN <<>> ELSE admitted[c]]
        IN  /\ table' = Counted(room, client, now)
            /\ IF Allowed(room, client, now)
               THEN admitted' = [kept EXCEPT ![client] = Append(@, now)]
               ELSE admitted' = kept
  BY DEF CheckRate
<1> DEFINE room == Restrict(pruned, DOMAIN pruned \ gone)
           kept == [c \in Clients |-> IF c \in gone THEN <<>> ELSE admitted[c]]
           before == Requests(room, client, now)
<1>4. /\ gone \subseteq DOMAIN pruned /\ client \notin gone
      /\ client \notin DOMAIN pruned /\ Cardinality(DOMAIN pruned) >= MaxClients
            => \E c \in DOMAIN pruned : gone = {c}
  BY <1>3 DEF Evicted, Oldest
<1>5. DOMAIN room = DOMAIN pruned \ gone /\ \A c \in DOMAIN room : room[c] = pruned[c]
  BY DEF Restrict
<1>t. /\ table' = Counted(room, client, now)
      /\ IF Allowed(room, client, now) THEN admitted' = [kept EXCEPT ![client] = Append(kept[client], now)]
                                       ELSE admitted' = kept
  BY <1>3
<1> HIDE DEF pruned, room
<1>6. Remembers(before, admitted[client], now)
  <2>1. CASE client \in DOMAIN room
    <3>1. Remembers(room[client].requests, admitted[client], now) /\ admitted[client] \in Seq(Nat)
      BY <1>1, <1>2, <1>5, <2>1
    <3>2. Remembers(PruneWindow(room[client].requests, now), admitted[client], now)
      BY <1>1, <3>1, PruneRemembers
    <3> QED
      BY <2>1, <3>2 DEF Requests
  <2>2. CASE client \notin DOMAIN room
    <3>1. before = <<>> /\ Gone(admitted[client], Len(admitted[client]), now) /\ admitted[client] \in Seq(Nat)
      BY <1>1, <1>2, <1>4, <1>5, <2>2 DEF Requests
    <3> QED
      BY <1>1, <3>1, NothingLeft
  <2> QED
    BY <2>1, <2>2
<1>7. /\ DOMAIN table' = DOMAIN room \cup {client}
      /\ \A c \in DOMAIN room \ {client} : table'[c] = room[c]
      /\ table'[client] = [requests |-> IF Len(before) < RateMax THEN Append(before, now) ELSE before,
                           seen |-> now]
  BY <1>t DEF Counted
<1>8. Allowed(room, client, now) <=> Len(before) < RateMax
  BY DEF Allowed
<1> HIDE DEF before
<1>9. /\ admitted' \in [Clients -> Seq(Nat)]
      /\ \A c \in Clients \ {client} : admitted'[c] = IF c \in gone THEN <<>> ELSE admitted[c]
      /\ admitted'[client] = IF Len(before) < RateMax THEN Append(admitted[client], now) ELSE admitted[client]
  <2>1. kept \in [Clients -> Seq(Nat)] /\ kept[client] = admitted[client] /\ Append(admitted[client], now) \in Seq(Nat)
    BY SMTT(30), <1>1, <1>4
  <2>2. CASE Len(before) < RateMax
    <3>1. admitted' = [kept EXCEPT ![client] = Append(admitted[client], now)]
      BY <1>t, <1>8, <2>1, <2>2
    <3>2. /\ admitted' \in [Clients -> Seq(Nat)] /\ admitted'[client] = Append(admitted[client], now)
          /\ \A c \in Clients \ {client} : admitted'[c] = kept[c]
      BY <1>1, <2>1, <3>1
    <3> QED
      BY <2>2, <3>2
  <2>3. CASE ~(Len(before) < RateMax)
    <3>1. admitted' = kept
      BY <1>t, <1>8, <2>3
    <3> QED
      BY <1>1, <2>1, <2>3, <3>1
  <2> QED
    BY <2>2, <2>3
<1>10. IsFiniteSet(DOMAIN table') /\ Cardinality(DOMAIN table') <= MaxClients /\ DOMAIN table' \subseteq Clients
  <2>1. IsFiniteSet(DOMAIN pruned) /\ Cardinality(DOMAIN pruned) <= MaxClients /\ Cardinality(DOMAIN pruned) \in Nat
    <3>1. IsFiniteSet(DOMAIN table) /\ Cardinality(DOMAIN table) <= MaxClients
      BY DEF Limiter
    <3>2. IsFiniteSet(DOMAIN pruned) /\ Cardinality(DOMAIN pruned) <= Cardinality(DOMAIN table)
      BY <1>2, <3>1, FS_Subset
    <3>3. Cardinality(DOMAIN pruned) \in Nat /\ Cardinality(DOMAIN table) \in Nat
      BY <3>1, <3>2, FS_CardinalityType
    <3> QED
      BY SMTT(30), <3>1, <3>2, <3>3, RateAssumption
  <2>2. IsFiniteSet(DOMAIN room) /\ Cardinality(DOMAIN room) <= Cardinality(DOMAIN pruned) /\ Cardinality(DOMAIN room) \in Nat
    BY <1>5, <2>1, FS_Subset, FS_CardinalityType
  <2>3. /\ IsFiniteSet(DOMAIN table')
        /\ Cardinality(DOMAIN table') = IF client \in DOMAIN room THEN Cardinality(DOMAIN room)
                                                                  ELSE Cardinality(DOMAIN room) + 1
    BY SMTT(30), <1>7, <2>2, FS_AddElement
  <2>4. client \notin DOMAIN room => Cardinality(DOMAIN room) < MaxClients
    <3>1. CASE client \notin DOMAIN pruned /\ Cardinality(DOMAIN pruned) >= MaxClients
      <4>1. PICK c \in DOMAIN pruned : gone = {c}
        BY <1>4, <3>1
      <4>2. Cardinality(DOMAIN room) = Cardinality(DOMAIN pruned) - 1
        BY <1>5, <2>1, <4>1, FS_RemoveElement
      <4> QED
        BY SMTT(30), <2>1, <4>2, RateAssumption
    <3>2. CASE client \in DOMAIN pruned
      BY <1>4, <1>5, <3>2
    <3>3. CASE ~(Cardinality(DOMAIN pruned) >= MaxClients)
      BY SMTT(30), <2>1, <2>2, <3>3, RateAssumption
    <3> QED
      BY <3>1, <3>2, <3>3
  <2>5. Cardinality(DOMAIN table') <= MaxClients
    BY SMTT(30), <2>1, <2>2, <2>3, <2>4, RateAssumption
  <2>6. DOMAIN table' \subseteq Clients
    BY <1>1, <1>2, <1>5, <1>7 DEF Limiter
  <2> QED
    BY <2>3, <2>5, <2>6
<1>11. ASSUME NEW c \in DOMAIN table'
       PROVE  /\ table'[c] \in [requests : Seq(Nat), seen : Nat]
              /\ Remembers(table'[c].requests, admitted'[c], now')
  <2>1. CASE c # client
    <3>1. c \in DOMAIN pruned /\ c \in Clients /\ table'[c] = pruned[c] /\ admitted'[c] = admitted[c]
      BY <1>2, <1>4, <1>5, <1>7, <1>9, <1>10, <2>1
    <3> QED
      BY <1>1, <1>2, <3>1
  <2>2. CASE c = client /\ Len(before) < RateMax
    <3>1. table'[c] = [requests |-> Append(before, now), seen |-> now] /\ admitted'[c] = Append(admitted[c], now)
      BY <1>7, <1>9, <2>2
    <3>2. Append(before, now) \in Seq(Nat)
      BY SMTT(30), <1>1, <1>6 DEF Remembers
    <3>3. admitted[c] \in Seq(Nat) /\ Remembers(before, admitted[c], now)
      BY <1>1, <1>6, <2>2
    <3>4. Remembers(Append(before, now), Append(admitted[c], now), now)
      BY <1>1, <2>2, <3>3, AppendRemembers
    <3> QED
      BY SMTT(30), <1>1, <3>1, <3>2, <3>4
  <2>3. CASE c = client /\ ~(Len(before) < RateMax)
    <3>1. table'[c] = [requests |-> before, seen |-> now] /\ admitted'[c] = admitted[c]
      BY <1>7, <1>9, <2>3
    <3>2. before \in Seq(Nat)
      BY <1>6 DEF Remembers
    <3> QED
      BY SMTT(30), <1>1, <1>6, <2>3, <3>1, <3>2
  <2> QED
    BY <2>1, <2>2, <2>3
<1>12. ASSUME NEW c \in Clients \ DOMAIN table' PROVE Gone(admitted'[c], Len(admitted'[c]), now')
  <2>1. c # client /\ c \notin DOMAIN room
    BY <1>7
  <2>2. CASE c \in gone
    BY SMTT(30), <1>9, <2>1, <2>2 DEF Gone
  <2>3. CASE c \notin gone
    BY <1>1, <1>2, <1>5, <1>9, <2>1, <2>3
  <2> QED
    BY <2>2, <2>3
<1> QED
  BY <1>9, <1>10, <1>11, <1>12 DEF Limiter

\* The limiter's memory and the history agree after every step.
LEMMA LimiterStep ==
  ASSUME Server, Limiter, Next
  PROVE  Limiter'
<1>1. CASE \E w \in Workers : CheckRate(w)
  BY <1>1, RateStep
<1>2. CASE Tick
  <2>1. UNCHANGED <<table, admitted>> /\ now' = now + 1 /\ now \in Nat /\ admitted \in [Clients -> Seq(Nat)]
    BY <1>2 DEF Tick, Server, Limiter
  <2>2. ASSUME NEW c \in DOMAIN table PROVE Remembers(table'[c].requests, admitted'[c], now')
    <3>1. Remembers(table[c].requests, admitted[c], now) /\ admitted[c] \in Seq(Nat)
      BY DEF Limiter
    <3> QED
      BY <2>1, <3>1, LaterRemembers
  <2>3. ASSUME NEW c \in Clients \ DOMAIN table PROVE Gone(admitted'[c], Len(admitted'[c]), now')
    <3>1. Gone(admitted[c], Len(admitted[c]), now) /\ admitted[c] \in Seq(Nat)
      BY DEF Limiter
    <3>2. Remembers(<<>>, admitted[c], now + 1)
      BY <2>1, <3>1, NothingLeft, LaterRemembers
    <3>3. now + 1 \in Nat
      BY SMTT(30), <2>1
    <3> QED
      BY <2>1, <3>1, <3>2, <3>3, NothingLeft
  <2> QED
    BY <2>1, <2>2, <2>3 DEF Limiter
<1>3. CASE UNCHANGED <<table, admitted, now>>
  BY <1>3 DEF Limiter
<1>4. ASSUME NEW w \in Workers, WorkerStep(w), ~CheckRate(w) PROVE UNCHANGED <<table, admitted, now>>
  BY <1>4 DEF WorkerStep, Receive, WorkerExit, RefuseHead, LoadGate, TakePermit, Dispatch,
       HeavyAction, Overview, OverviewBuilt, DropRefresh, Health, HealthBuilt, Close
<1>5. CASE (\E c \in Clients : Accept(c)) \/ AcceptFails \/ LoopStep
  BY <1>3, <1>5 DEF Accept, AcceptFails, LoopStep, Send, Return
<1> QED
  BY <1>1, <1>2, <1>3, <1>4, <1>5 DEF Next

-----------------------------------------------------------------------------
(* The caches.                                                              *)

Building == {"cold", "rebuild", "checking"}

\* The two caches as records.
LEMMA CacheFacts ==
  ASSUME Caches
  PROVE  /\ overview.lock \in Workers \cup {NoOne} /\ health.lock \in Workers \cup {NoOne}
         /\ overview.entry \in Times /\ health.entry \in Times
         /\ overview.entry.built \in Int /\ health.entry.built \in Int
         /\ Nothing \in Times /\ Nothing.built = -1
BY SMTT(30) DEF Caches, Times, Nothing

\* Steps that start no build and end none.
LEMMA NoBuild ==
  ASSUME Caches, now \in Nat, now' \in Nat, now <= now', UNCHANGED <<overview, health, began>>,
         \A v \in Workers : worker'[v].at = worker[v].at \/ worker'[v].at \notin Building
  PROVE  Caches'
<1>1. \A v \in Workers : BuildOK(v)'
  BY DEF Caches, BuildOK, Building
<1>2. \A v \in Workers : began'[v] <= now'
  BY SMTT(30) DEF Caches
<1>3. overview'.entry.built <= now' /\ health'.entry.built <= now'
  BY SMTT(30), CacheFacts DEF Caches
<1>4. \A v, w \in Workers : worker'[v].at = "rebuild" /\ worker'[w].at = "rebuild" => v = w
  BY DEF Caches, Building
<1> QED
  BY <1>1, <1>2, <1>3, <1>4 DEF Caches

\* Only the steps of the caches lead to a build.
LEMMA OtherPlaces ==
  ASSUME Server, NEW w \in Workers, WorkerStep(w),
         ~(Overview(w) \/ OverviewBuilt(w) \/ Health(w) \/ HealthBuilt(w))
  PROVE  worker'[w].at \notin Building
<1>0. worker[w] \in WorkerState /\ Knows(worker[w])
  BY DEF Server
<1>1. CASE Hangup(w)
  BY <1>1, HangupFacts DEF Building
<1>2. CASE \E g \in Gates : Enter(w, g)
  BY <1>2, EnterFacts DEF Building
<1>3. CASE \E s \in {"exit", "close", "load", "overview"} : Goto(w, s)
  BY <1>3, GotoFacts DEF Building, Steps
<1>4. CASE Receive(w)
  BY <1>0, <1>4 DEF Receive, Server, WorkerState, Building
<1>5. CASE LoadGate(w)
  <2>1. CASE worker' = [worker EXCEPT ![w].at = "cas", ![w].seen = active[worker[w].gate]]
    BY <1>0, <2>1 DEF Server, WorkerState, Building
  <2> QED
    BY <1>1, <1>3, <1>5, <2>1 DEF LoadGate
<1>6. CASE TakePermit(w)
  <2>1. worker[w].gate \in Gates
    BY <1>0, <1>6 DEF TakePermit, At, Knows
  <2>2. CASE worker' = [worker EXCEPT ![w].at = Inside[worker[w].gate], ![w].seen = 0, ![w].gate = "none",
                                      ![w].refresh = (worker[w].gate = "refresh")]
    <3>1. Inside[worker[w].gate] \in {"body", "action", "overview"}
      BY SMTT(30), <2>1 DEF Inside, Gates
    <3>2. worker'[w].at = Inside[worker[w].gate]
      BY <1>0, <2>2 DEF Server, WorkerState
    <3> QED
      BY <3>1, <3>2 DEF Building
  <2> QED
    BY <1>3, <1>6, <2>2 DEF TakePermit
<1>7. CASE Dispatch(w)
  <2>1. CASE \E r \in BOOLEAN : worker' = [worker EXCEPT ![w].at = "health", ![w].refresh = r]
    BY SMTT(30), <1>0, <2>1 DEF Server, WorkerState, Building
  <2> QED
    BY <1>2, <1>3, <1>7, <2>1 DEF Dispatch, Gates
<1>8. CASE WorkerExit(w) \/ HeavyAction(w) \/ DropRefresh(w)
  BY <1>3, <1>8 DEF WorkerExit, HeavyAction, DropRefresh
<1>9. CASE RefuseHead(w) \/ CheckRate(w) \/ Close(w)
  BY <1>1, <1>2, <1>9 DEF RefuseHead, CheckRate, Close, Gates
<1> QED
  BY <1>4, <1>5, <1>6, <1>7, <1>8, <1>9 DEF WorkerStep

\* cached_overview_json: the duty to refresh goes to one, and a first build takes the mutex.
LEMMA OverviewStep ==
  ASSUME Server, Caches, NEW w \in Workers, Overview(w)
  PROVE  Caches' /\ overview'.entry = overview.entry /\ UNCHANGED health
<1>0. now \in Nat /\ UNCHANGED <<now, health>> /\ worker[w].at = "overview"
  BY DEF Server, Overview, At
<1>1. CASE Answer(w) /\ UNCHANGED <<overview, began>>
  <2>1. \A v \in Workers : worker'[v].at = worker[v].at \/ worker'[v].at \notin Building
    BY <1>1, GotoFacts DEF Answer, Steps, Building
  <2> QED
    BY SMTT(30), <1>0, <1>1, <2>1, NoBuild
<1>2. CASE StartRefresh(w, worker[w].refresh, now) /\ Goto(w, "rebuild")
  <2>1. /\ overview.entry # Nothing /\ ~overview.refreshing /\ overview.lock = NoOne
        /\ overview' = [overview EXCEPT !.refreshing = TRUE] /\ began' = [began EXCEPT ![w] = now]
    BY <1>2 DEF StartRefresh, OverviewAnswers, Begin
  <2>2. /\ overview' \in [lock : Workers \cup {NoOne}, entry : Times, refreshing : BOOLEAN, failed : Int]
        /\ overview'.entry = overview.entry /\ overview'.refreshing /\ overview'.lock = NoOne
    BY <2>1 DEF Caches
  <2>3. /\ began' \in [Workers -> Int] /\ began'[w] = now
        /\ \A v \in Workers \ {w} : began'[v] = began[v]
    BY SMTT(30), <1>0, <2>1 DEF Caches
  <2>4. worker'[w].at = "rebuild" /\ \A v \in Workers \ {w} : worker'[v] = worker[v]
    BY <1>2, GotoFacts DEF Steps
  <2>5. \A v \in Workers : worker[v].at # "rebuild" /\ worker[v].at # "cold"
    BY <2>1, TtlAssumption DEF Caches, BuildOK
  <2>6. ASSUME NEW v \in Workers PROVE BuildOK(v)' /\ began'[v] <= now'
    <3>1. CASE v = w
      BY SMTT(30), <1>0, <2>1, <2>2, <2>3, <2>4, <3>1 DEF Caches, BuildOK
    <3>2. CASE v # w
      BY SMTT(30), <1>0, <2>3, <2>4, <2>5, <3>2 DEF Caches, BuildOK
    <3> QED
      BY <3>1, <3>2
  <2>7. \A u, v \in Workers : worker'[u].at = "rebuild" /\ worker'[v].at = "rebuild" => u = v
    BY <2>4, <2>5
  <2> QED
    BY <1>0, <2>2, <2>3, <2>6, <2>7 DEF Caches
<1>3. CASE StartCold(w, now) /\ Goto(w, "cold")
  <2>1. /\ overview.entry = Nothing /\ overview.lock = NoOne
        /\ overview' = [overview EXCEPT !.lock = w, !.failed = -1] /\ began' = [began EXCEPT ![w] = now]
    BY <1>3 DEF StartCold, Begin
  <2>2. /\ overview' \in [lock : Workers \cup {NoOne}, entry : Times, refreshing : BOOLEAN, failed : Int]
        /\ overview'.entry = overview.entry /\ overview'.lock = w
    <3>1. overview' = [[overview EXCEPT !.lock = w] EXCEPT !.failed = -1] /\ -1 \in Int
      BY SMTT(30), <2>1
    <3> QED
      BY <3>1 DEF Caches
  <2>3. /\ began' \in [Workers -> Int] /\ began'[w] = now
        /\ \A v \in Workers \ {w} : began'[v] = began[v]
    BY SMTT(30), <1>0, <2>1 DEF Caches
  <2>4. worker'[w].at = "cold" /\ \A v \in Workers \ {w} : worker'[v] = worker[v]
    BY <1>3, GotoFacts DEF Steps
  <2>5. \A v \in Workers : worker[v].at # "rebuild" /\ worker[v].at # "cold"
    BY <2>1, TtlAssumption DEF Caches, BuildOK
  <2>6. ASSUME NEW v \in Workers PROVE BuildOK(v)' /\ began'[v] <= now'
    <3>1. CASE v = w
      BY SMTT(30), <1>0, <2>1, <2>2, <2>3, <2>4, <3>1 DEF BuildOK
    <3>2. CASE v # w
      BY <1>0, <2>3, <2>4, <2>5, <3>2 DEF Caches, BuildOK
    <3> QED
      BY SMTT(30), <3>1, <3>2
  <2>7. \A u, v \in Workers : worker'[u].at = "rebuild" /\ worker'[v].at = "rebuild" => u = v
    BY <2>4, <2>5
  <2> QED
    BY <1>0, <2>2, <2>3, <2>6, <2>7 DEF Caches
<1> QED
  BY <1>1, <1>2, <1>3 DEF Overview, OverviewAnswered, ColdRefused

\* A build of the overview ends: its value began after the one it replaces.
LEMMA OverviewBuiltStep ==
  ASSUME Server, Caches, NEW w \in Workers, OverviewBuilt(w)
  PROVE  Caches' /\ overview'.entry.built >= overview.entry.built /\ UNCHANGED health
<1>0. now \in Nat /\ UNCHANGED <<now, health>> /\ began[w] \in Int /\ began[w] <= now
  BY DEF Server, OverviewBuilt, Caches
<1>1. PICK ok \in BOOLEAN : \/ worker[w].at = "cold" /\ FinishCold(w, ok, now)
                            \/ worker[w].at = "rebuild" /\ FinishRefresh(w, ok, now)
  BY DEF OverviewBuilt, At
<1>2. began' = [began EXCEPT ![w] = -1]
  BY <1>1 DEF FinishCold, FinishRefresh, End
<1>3. began' \in [Workers -> Int] /\ \A v \in Workers : began'[v] <= now /\ (v # w => began'[v] = began[v])
  BY SMTT(30), <1>0, <1>2 DEF Caches
<1>4. /\ worker'[w].at \notin Building
      /\ \A v \in Workers \ {w} : worker'[v] = worker[v]
  BY GotoFacts DEF OverviewBuilt, Answer, Steps, Building
<1>5. \A v \in Workers \ {w} : worker[v].at # "rebuild" /\ worker[v].at # "cold"
  <2>1. CASE worker[w].at = "cold"
    BY <2>1 DEF Caches, BuildOK
  <2>2. CASE worker[w].at = "rebuild"
    BY <2>2 DEF Caches, BuildOK
  <2> QED
    BY <1>1, <2>1, <2>2
<1>6. /\ overview' \in [lock : Workers \cup {NoOne}, entry : Times, refreshing : BOOLEAN, failed : Int]
      /\ overview'.entry = IF ok THEN [built |-> began[w], stored |-> now] ELSE overview.entry
  <2>1. [built |-> began[w], stored |-> now] \in Times
    BY SMTT(30), <1>0 DEF Times
  <2> DEFINE entry == IF ok THEN [built |-> began[w], stored |-> now] ELSE overview.entry
             failed == IF ok THEN -1 ELSE now
  <2>2. entry \in Times /\ failed \in Int
    BY SMTT(30), <1>0, <2>1, CacheFacts
  <2>3. \/ overview' = [[[overview EXCEPT !.lock = NoOne] EXCEPT !.entry = entry] EXCEPT !.failed = failed]
        \/ overview' = [[overview EXCEPT !.refreshing = FALSE] EXCEPT !.entry = entry]
    BY <1>1 DEF FinishCold, FinishRefresh, Built, Caches
  <2> HIDE DEF entry, failed
  <2>4. overview' \in [lock : Workers \cup {NoOne}, entry : Times, refreshing : BOOLEAN, failed : Int] /\ overview'.entry = entry
    BY <2>2, <2>3 DEF Caches
  <2> QED
    BY <2>4 DEF entry
<1>7. overview.entry.built <= began[w]
  <2>1. CASE worker[w].at = "cold"
    BY SMTT(30), <1>0, <2>1, CacheFacts DEF Caches, BuildOK
  <2>2. CASE worker[w].at = "rebuild"
    BY <2>2 DEF Caches, BuildOK
  <2> QED
    BY <1>1, <2>1, <2>2
<1>8. overview'.entry.built >= overview.entry.built /\ overview'.entry.built <= now
  <2>1. overview.entry.built \in Int /\ overview.entry.built <= now
    BY CacheFacts DEF Caches
  <2>2. CASE ok
    BY SMTT(30), <1>0, <1>6, <1>7, <2>1, <2>2
  <2>3. CASE ~ok
    BY SMTT(30), <1>0, <1>6, <2>1, <2>3
  <2> QED
    BY <2>2, <2>3
<1>9. ASSUME NEW v \in Workers PROVE BuildOK(v)'
  <2>1. CASE v = w
    BY <1>4, <2>1 DEF BuildOK, Building
  <2>2. CASE v # w
    BY <1>0, <1>3, <1>4, <1>5, <2>2 DEF Caches, BuildOK
  <2> QED
    BY <2>1, <2>2
<1>10. \A u, v \in Workers : worker'[u].at = "rebuild" /\ worker'[v].at = "rebuild" => u = v
  BY <1>4, <1>5 DEF Building
<1> QED
  BY <1>0, <1>3, <1>6, <1>8, <1>9, <1>10 DEF Caches

\* The health report is built under its mutex.
LEMMA HealthStep ==
  ASSUME Server, Caches, NEW w \in Workers, Health(w) \/ HealthBuilt(w)
  PROVE  Caches' /\ health'.entry.built >= health.entry.built /\ UNCHANGED overview
<1>0. now \in Nat /\ UNCHANGED <<now, overview>> /\ began[w] \in Int /\ began[w] <= now
  BY DEF Server, Health, HealthBuilt, Caches
<1>1. CASE HealthAnswered(worker[w].refresh, now) /\ Goto(w, "close")
  <2>1. \A v \in Workers : worker'[v].at = worker[v].at \/ worker'[v].at \notin Building
    BY <1>1, GotoFacts DEF Steps, Building
  <2>2. UNCHANGED <<health, began>>
    BY <1>1 DEF HealthAnswered
  <2>3. Caches'
    BY SMTT(30), <1>0, <2>1, <2>2, NoBuild
  <2>4. health'.entry.built >= health.entry.built
    BY SMTT(30), <2>2, CacheFacts
  <2> QED
    BY <1>0, <2>3, <2>4
<1>2. CASE worker[w].at = "health" /\ StartHealth(w, worker[w].refresh, now) /\ Goto(w, "checking")
  <2>1. /\ health.lock = NoOne
        /\ health' = [health EXCEPT !.lock = w] /\ began' = [began EXCEPT ![w] = now]
    BY <1>2 DEF StartHealth, Begin
  <2>2. health' \in [lock : Workers \cup {NoOne}, entry : Times] /\ health'.entry = health.entry /\ health'.lock = w
    BY <2>1 DEF Caches
  <2>3. began' \in [Workers -> Int] /\ began'[w] = now /\ \A v \in Workers \ {w} : began'[v] = began[v]
    BY SMTT(30), <1>0, <2>1 DEF Caches
  <2>4. worker'[w].at = "checking" /\ \A v \in Workers \ {w} : worker'[v] = worker[v]
    BY <1>2, GotoFacts DEF Steps
  <2>5. \A v \in Workers : worker[v].at # "checking"
    BY <2>1, TtlAssumption DEF Caches, BuildOK
  <2>6. ASSUME NEW v \in Workers PROVE BuildOK(v)' /\ began'[v] <= now'
    <3>1. CASE v = w
      <4>1. health.entry.built \in Int /\ health.entry.built <= now
        BY DEF Caches, Times
      <4>2. health'.entry.built <= began'[w] /\ began'[w] <= now'
        BY SMTT(30), <1>0, <2>2, <2>3, <4>1
      <4> QED
        BY <2>2, <2>4, <3>1, <4>2 DEF BuildOK
    <3>2. CASE v # w
      BY <1>0, <2>3, <2>4, <2>5, <3>2 DEF Caches, BuildOK
    <3> QED
      BY <3>1, <3>2
  <2>7. \A u, v \in Workers : worker'[u].at = "rebuild" /\ worker'[v].at = "rebuild" => u = v
    BY <2>4 DEF Caches
  <2>8. health'.entry.built >= health.entry.built /\ health'.entry.built <= now
    BY SMTT(30), <2>2, CacheFacts DEF Caches
  <2> QED
    BY <1>0, <2>2, <2>3, <2>6, <2>7, <2>8 DEF Caches
<1>3. CASE HealthBuilt(w)
  <2>1. PICK ok \in BOOLEAN : FinishHealth(w, ok, now)
    BY <1>3 DEF HealthBuilt
  <2>2. worker[w].at = "checking" /\ Goto(w, "close")
    BY <1>3 DEF HealthBuilt, At
  <2>3. health.lock = w /\ health.entry.built <= began[w]
    BY <2>2 DEF Caches, BuildOK
  <2>4. /\ health' \in [lock : Workers \cup {NoOne}, entry : Times]
        /\ health'.entry = IF ok THEN [built |-> began[w], stored |-> now] ELSE health.entry
    <3>1. [built |-> began[w], stored |-> now] \in Times
      BY SMTT(30), <1>0 DEF Times
    <3> QED
      BY <2>1, <3>1 DEF Caches, FinishHealth, Built
  <2>5. health'.entry.built >= health.entry.built /\ health'.entry.built <= now
    BY SMTT(30), <1>0, <2>3, <2>4, CacheFacts DEF Caches
  <2>6. began' \in [Workers -> Int] /\ \A v \in Workers : began'[v] <= now /\ (v # w => began'[v] = began[v])
    BY SMTT(30), <1>0, <2>1 DEF Caches, FinishHealth, End
  <2>7. worker'[w].at = "close" /\ \A v \in Workers \ {w} : worker'[v] = worker[v]
    BY <2>2, GotoFacts DEF Steps
  <2>8. \A v \in Workers \ {w} : worker[v].at # "checking"
    BY <2>3 DEF Caches, BuildOK
  <2>9. ASSUME NEW v \in Workers PROVE BuildOK(v)'
    <3>1. CASE v = w
      BY <2>7, <3>1 DEF BuildOK
    <3>2. CASE v # w
      BY <1>0, <2>6, <2>7, <2>8, <3>2 DEF Caches, BuildOK
    <3> QED
      BY <3>1, <3>2
  <2>10. \A u, v \in Workers : worker'[u].at = "rebuild" /\ worker'[v].at = "rebuild" => u = v
    BY <2>7 DEF Caches
  <2> QED
    BY <1>0, <2>4, <2>5, <2>6, <2>9, <2>10 DEF Caches
<1> QED
  BY <1>1, <1>2, <1>3 DEF Health, At

\* The caches stay consistent with the builds that run, and never go back.
LEMMA CachesStep ==
  ASSUME Server, Permits, Caches, Next
  PROVE  /\ Caches'
         /\ overview'.entry.built >= overview.entry.built
         /\ health'.entry.built >= health.entry.built
<1>0. now \in Nat
  BY DEF Server
<1>1. CASE (\E c \in Clients : Accept(c)) \/ AcceptFails \/ LoopStep \/ Tick
  <2>1. UNCHANGED <<overview, health, began, worker>> /\ (now' = now \/ now' = now + 1)
    BY <1>1 DEF Accept, AcceptFails, LoopStep, Send, Return, Tick, caches
  <2> QED
    BY SMTT(30), <1>0, <2>1, NoBuild, CacheFacts
<1>2. ASSUME NEW w \in Workers, WorkerStep(w)
      PROVE  /\ Caches'
             /\ overview'.entry.built >= overview.entry.built
             /\ health'.entry.built >= health.entry.built
  <2>1. CASE Overview(w)
    BY SMTT(30), <2>1, OverviewStep, CacheFacts
  <2>2. CASE OverviewBuilt(w)
    BY SMTT(30), <2>2, OverviewBuiltStep, CacheFacts
  <2>3. CASE Health(w) \/ HealthBuilt(w)
    BY SMTT(30), <2>3, HealthStep, CacheFacts
  <2>4. CASE ~(Overview(w) \/ OverviewBuilt(w) \/ Health(w) \/ HealthBuilt(w))
    <3>1. UNCHANGED <<overview, health, began, now>>
      BY <1>2, <2>4 DEF WorkerStep, Receive, WorkerExit, RefuseHead, CheckRate, LoadGate, TakePermit,
           Dispatch, HeavyAction, DropRefresh, Close, caches
    <3>2. \A v \in Workers \ {w} : worker'[v] = worker[v]
      BY <1>2, WorkerMoves DEF Moved
    <3>3. worker'[w].at \notin Building
      BY <1>2, <2>4, OtherPlaces
    <3> QED
      BY SMTT(30), <1>0, <3>1, <3>2, <3>3, NoBuild, CacheFacts
  <2> QED
    BY <2>1, <2>2, <2>3, <2>4
<1> QED
  BY <1>1, <1>2 DEF Next

-----------------------------------------------------------------------------
(* The theorems.                                                            *)

\* The server starts with the invariant.
LEMMA ServerStarts ==
  ASSUME Init
  PROVE  ServerInv
<1>1. Receiving \in WorkerState /\ Knows(Receiving) /\ Receiving.at = "recv"
  BY DEF Receiving, WorkerState, Steps, Knows
<1>2. worker \in [Workers -> WorkerState] /\ \A w \in Workers : worker[w] = Receiving
  BY <1>1 DEF Init
<1>3. limit \in [Gates -> Nat \ {0}]
  BY HttpAssumption DEF Init
<1>4. Server
  BY SMTT(30), <1>1, <1>2, <1>3, HttpAssumption DEF Init, Server
<1>5. Permits
  <2>1. \A g \in Gates, w \in Workers : ~Behind(w, g)
    BY <1>1, <1>2 DEF Behind, Gates
  <2>2. \A g \in Gates : Holders(g) = {}
    BY <2>1 DEF Holders
  <2>3. IsFiniteSet({}) /\ Cardinality({}) = 0
    BY FS_EmptySet
  <2>4. active \in [Gates -> Nat] /\ \A g \in Gates : active[g] = 0 /\ limit[g] \in Nat
    BY <1>3 DEF Init
  <2> QED
    BY SMTT(30), <2>2, <2>3, <2>4 DEF Permits
<1>6. Limiter
  <2>1. DOMAIN table = {} /\ IsFiniteSet({}) /\ Cardinality({}) = 0
    BY FS_EmptySet DEF Init, NoClients
  <2>2. \A c \in Clients : admitted[c] = <<>>
    BY DEF Init
  <2>3. admitted \in [Clients -> Seq(Nat)]
    BY SMTT(30) DEF Init
  <2>4. \A c \in Clients : Gone(admitted[c], Len(admitted[c]), now)
    BY SMTT(30), <2>2 DEF Gone
  <2> QED
    BY SMTT(30), <2>1, <2>3, <2>4, RateAssumption DEF Limiter
<1>7. Caches
  <2>1. Nothing \in Times /\ Nothing.built = -1
    BY SMTT(30) DEF Nothing, Times
  <2>2. \A w \in Workers : BuildOK(w)
    BY <1>1, <1>2 DEF BuildOK
  <2>3. \A v, w \in Workers : worker[v].at = "rebuild" /\ worker[w].at = "rebuild" => v = w
    BY <1>1, <1>2
  <2>4. now \in Nat /\ -1 <= now
    BY SMTT(30), <1>4 DEF Server
  <2> QED
    BY SMTT(30), <2>1, <2>2, <2>3, <2>4 DEF Caches, Init, InitCaches
<1> QED
  BY <1>4, <1>5, <1>6, <1>7 DEF ServerInv

\* A step that changes nothing keeps it.
LEMMA ServerStutters ==
  ASSUME ServerInv, UNCHANGED vars
  PROVE  ServerInv'
<1>1. UNCHANGED <<limit, loop, pending, channel, worker, table, active, now, admitted, overview, health, began>>
  BY DEF vars, main, caches
<1>2. Server'
  BY <1>1 DEF ServerInv, Server, Knows
<1>3. Permits'
  <2>1. \A w \in Workers, g \in Gates : Behind(w, g)' <=> Behind(w, g)
    BY <1>1 DEF Behind
  <2> QED
    BY <1>1, <2>1, NobodyPasses DEF ServerInv
<1>4. Limiter'
  BY <1>1 DEF ServerInv, Limiter
<1>5. Caches'
  BY SMTT(30), <1>1, NoBuild DEF ServerInv, Server
<1> QED
  BY <1>2, <1>3, <1>4, <1>5 DEF ServerInv

\* The inductive invariant of the server: the counters follow the workers, the limiter
\* remembers what counts, and the builds of the caches are the ones the flags say.
THEOREM ServerInvariant == Spec => []ServerInv
<1>1. Init => ServerInv
  BY ServerStarts
<1>2. ServerInv /\ [Next]_vars => ServerInv'
  <2>1. ASSUME ServerInv, Next PROVE ServerInv'
    BY <2>1, ServerStep, PermitsStep, LimiterStep, CachesStep DEF ServerInv
  <2> QED
    BY <2>1, ServerStutters
<1> QED
  BY <1>1, <1>2, PTL DEF Spec

\* However many workers there are and whatever the limits, the counter of a gate is the
\* number of workers behind it and never above its limit: no early return of
\* handle_connection leaks a permit and no compare_exchange gives one twice.
THEOREM PermitsMatchHoldersAlways == Spec => []PermitsMatchHolders
<1>1. ServerInv => PermitsMatchHolders
  <2> SUFFICES ASSUME ServerInv PROVE PermitsMatchHolders
    OBVIOUS
  <2>1. TypeOK
    BY DEF ServerInv, Server, Permits, Limiter, TypeOK, WorkerState, Steps
  <2>2. \A g \in Gates : active[g] = Cardinality({w \in Workers : Behind(w, g)}) /\ active[g] <= limit[g]
    BY DEF ServerInv, Permits, Holders
  <2> QED
    BY <2>1, <2>2 DEF PermitsMatchHolders
<1> QED
  BY <1>1, ServerInvariant, PTL

\* Whatever the window, the maximum and the number of clients tracked, no window holds more
\* requests of a client that check let through than the maximum, unless the client was
\* evicted: prune_window and prune_idle forget nothing that still counts, once the clock
\* has passed the first window it can represent.
THEOREM RateBoundedAlways == Spec => []RateBounded
<1>1. ServerInv => RateBounded
  <2> SUFFICES ASSUME ServerInv, NEW c \in Clients
               PROVE  Cardinality({i \in DOMAIN admitted[c] :
                                     /\ admitted[c][i] >= RateWindow
                                     /\ now - admitted[c][i] < RateWindow}) <= RateMax
    BY DEF RateBounded
  <2> DEFINE past == admitted[c]
             counts == {i \in DOMAIN past : past[i] >= RateWindow /\ now - past[i] < RateWindow}
  <2>1. past \in Seq(Nat) /\ now \in Nat
    BY DEF ServerInv, Server, Limiter
  <2>2. PICK requests : Remembers(requests, past, now)
    <3>1. CASE c \in DOMAIN table
      BY <3>1 DEF ServerInv, Limiter
    <3>2. CASE c \notin DOMAIN table
      <4>1. Gone(past, Len(past), now)
        BY <3>2 DEF ServerInv, Limiter
      <4> QED
        BY <2>1, <4>1, NothingLeft
    <3> QED
      BY <3>1, <3>2
  <2> HIDE DEF past
  <2>3. PICK k \in 0 .. Len(past) : Len(past) = k + Len(requests) /\ Gone(past, k, now)
    BY <2>2 DEF Remembers
  <2>4. Len(requests) \in Nat /\ Len(requests) <= RateMax /\ k \in Nat /\ Len(past) \in Nat
    BY SMTT(30), <2>1, <2>2, <2>3 DEF Remembers
  <2>5. counts \subseteq (k + 1) .. Len(past)
    <3> SUFFICES ASSUME NEW i \in counts PROVE i \in (k + 1) .. Len(past)
      OBVIOUS
    <3>1. /\ i \in 1 .. Len(past) /\ past[i] \in Nat
          /\ past[i] >= RateWindow /\ now - past[i] < RateWindow
      BY SMTT(30), <2>1
    <3>2. ~(i \in 1 .. k)
      BY SMTT(30), <2>1, <2>3, <3>1, RateAssumption DEF Gone
    <3> QED
      BY SMTT(30), <2>4, <3>1, <3>2
  <2>6. IsFiniteSet((k + 1) .. Len(past)) /\ Cardinality((k + 1) .. Len(past)) = Len(requests)
    <3>1. k + 1 \in Int /\ Len(past) \in Int
      BY SMTT(30), <2>4
    <3>2. /\ IsFiniteSet((k + 1) .. Len(past))
          /\ Cardinality((k + 1) .. Len(past)) = IF k + 1 > Len(past) THEN 0 ELSE Len(past) - (k + 1) + 1
      BY <3>1, FS_Interval
    <3> QED
      BY SMTT(30), <2>3, <2>4, <3>2
  <2> HIDE DEF counts
  <2>7. IsFiniteSet(counts) /\ Cardinality(counts) <= Len(requests) /\ Cardinality(counts) \in Nat
    BY <2>5, <2>6, FS_Subset, FS_CardinalityType
  <2>8. Cardinality(counts) <= RateMax
    BY SMTT(30), <2>4, <2>7, RateAssumption
  <2> QED
    BY <2>8 DEF counts, past
<1> QED
  BY <1>1, ServerInvariant, PTL

\* No build that began earlier replaces a value of the overview or of the health report
\* whose build began later, although the overview is rebuilt without its mutex
\* (cached_overview_json, refresh_overview_cache, cached_health_json).
THEOREM CachesMoveForwardAlways == Spec => CachesMoveForward
<1>1. ServerInv /\ [Next]_vars => [/\ overview'.entry.built >= overview.entry.built
                                   /\ health'.entry.built >= health.entry.built]_vars
  <2>1. ASSUME ServerInv, Next
        PROVE  /\ overview'.entry.built >= overview.entry.built
               /\ health'.entry.built >= health.entry.built
    BY <2>1, CachesStep DEF ServerInv
  <2> QED
    BY <2>1
<1> QED
  BY <1>1, ServerInvariant, PTL DEF Spec, CachesMoveForward
=============================================================================
