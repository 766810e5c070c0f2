----------------------------- MODULE HttpServer -----------------------------
(***************************************************************************)
(* The HTTP server of src/src/dashboard.rs: the accept loop, the bounded   *)
(* channel to the workers, and what a worker does with one connection: the *)
(* gates it passes in order (rate limiter, global governor, admission of   *)
(* heavy actions and overview refreshes), the caches, and the way out on   *)
(* every early return.                                                     *)
(*                                                                         *)
(* A request is its client and its route; parsing, headers and bodies are  *)
(* reduced to whether they are accepted.  The MCP route is the subject of  *)
(* HttpSession and the modules below it and is one step here.              *)
(***************************************************************************)
EXTENDS RateLimiter, OverviewCache

CONSTANTS Clients,         \* peer addresses
          ChannelSize,     \* capacity of the channel: max_connections
          Limits,          \* permits of each gate: what the limits may be
          MaxRequests,     \* --max-requests: connections accepted
          StartTimes,      \* what the clock may show when the server starts
          MaxTime          \* bound: the last time of the clock

Gates == {"request", "heavy", "refresh"}

ASSUME HttpAssumption ==
  /\ ChannelSize \in Nat \ {0} /\ StartTimes \subseteq Nat /\ MaxTime \in Nat /\ MaxRequests \in Nat \ {0}
  /\ Limits \subseteq [Gates -> Nat \ {0}]

VARIABLES limit,     \* the limits of this server, set when it starts
          loop,      \* the accept loop: accepting, sending, joining, returned
          pending,   \* the client of the connection being sent
          channel,   \* clients of the connections sent and not received
          accepted,  \* connections accepted
          finished,  \* connections closed
          worker,    \* what each worker is doing
          table,     \* the rate limiter's table
          active,    \* the counters of the gates
          now,       \* the clock
          admitted   \* history: the times of the requests let through, by client

main == <<limit, loop, pending, channel, accepted>>
caches == <<overview, health, began>>
vars == <<main, finished, worker, table, active, now, admitted, caches>>

Receiving == [at |-> "recv", client |-> NoOne, gate |-> "none", seen |-> 0, refresh |-> FALSE]

Init ==
  /\ limit \in Limits
  /\ loop = "accepting" /\ pending = NoOne /\ channel = <<>>
  /\ accepted = 0 /\ finished = 0
  /\ worker = [w \in Workers |-> Receiving]
  /\ table = NoClients
  /\ active = [g \in Gates |-> 0]
  /\ now \in StartTimes
  /\ admitted = [c \in Clients |-> <<>>]
  /\ InitCaches

-----------------------------------------------------------------------------
(* The accept loop.                                                        *)

Accept(c) ==
  /\ loop = "accepting"
  /\ loop' = "sending" /\ pending' = c /\ accepted' = accepted + 1
  /\ UNCHANGED <<limit, channel, finished, worker, table, active, now, admitted, caches>>

AcceptFails ==
  /\ loop = "accepting"
  /\ loop' = "joining"
  /\ UNCHANGED <<limit, pending, channel, accepted, finished, worker, table, active, now, admitted, caches>>

(* send blocks while the channel is full; with --max-requests the loop     *)
(* ends after the last connection.  Leaving the loop drops the sender.     *)
Send ==
  /\ loop = "sending" /\ Len(channel) < ChannelSize
  /\ channel' = Append(channel, pending)
  /\ loop' = IF accepted >= MaxRequests THEN "joining" ELSE "accepting"
  /\ pending' = NoOne
  /\ UNCHANGED <<limit, accepted, finished, worker, table, active, now, admitted, caches>>

(* join_request_workers                                                    *)
Return ==
  /\ loop = "joining" /\ \A w \in Workers : worker[w].at = "exit"
  /\ loop' = "returned"
  /\ UNCHANGED <<limit, pending, channel, accepted, finished, worker, table, active, now, admitted, caches>>

-----------------------------------------------------------------------------
(* A worker.                                                               *)

At(w, step) == worker[w].at = step
Goto(w, step) == worker' = [worker EXCEPT ![w].at = step]
Enter(w, gate) == worker' = [worker EXCEPT ![w].at = "load", ![w].gate = gate,
                                         ![w].client = NoOne]
Hangup(w) == worker' = [worker EXCEPT ![w] = Receiving] /\ finished' = finished + 1

Receive(w) ==
  /\ At(w, "recv") /\ channel # <<>>
  /\ worker' = [worker EXCEPT ![w].at = "head", ![w].client = Head(channel)]
  /\ channel' = Tail(channel)
  /\ UNCHANGED <<limit, loop, pending, accepted, finished, table, active, now, admitted, caches>>

(* The sender is gone and the channel is empty.                            *)
WorkerExit(w) ==
  /\ At(w, "recv") /\ channel = <<>> /\ loop = "joining"
  /\ Goto(w, "exit")
  /\ UNCHANGED <<main, finished, table, active, now, admitted, caches>>

(* The request line, the headers or the Origin are refused, or reading     *)
(* them fails or times out.                                                *)
RefuseHead(w) ==
  /\ At(w, "head")
  /\ Hangup(w)
  /\ UNCHANGED <<main, table, active, now, admitted, caches>>

(* They are accepted: check_http_rate_limit, then                          *)
(* is_authorized_http_request.                                             *)
CheckRate(w) ==
  /\ At(w, "head")
  /\ LET client == worker[w].client
         pruned == PruneIdle(table, now)
     IN  \E gone \in Evicted(pruned, client) :
           LET room == Restrict(pruned, DOMAIN pruned \ gone)
               kept == [c \in Clients |-> IF c \in gone THEN <<>> ELSE admitted[c]]
           IN  /\ table' = Counted(room, client, now)
               /\ IF Allowed(room, client, now)
                  THEN /\ admitted' = [kept EXCEPT ![client] = Append(@, now)]
                       /\ \/ Enter(w, "request") /\ UNCHANGED finished
                          \/ Hangup(w)
                  ELSE admitted' = kept /\ Hangup(w)
  /\ UNCHANGED <<main, active, now, caches>>

(* try_enter_request and try_enter read the counter ...                    *)
LoadGate(w) ==
  LET g == worker[w].gate
  IN  /\ At(w, "load")
      /\ \/ /\ active[g] < limit[g]
            /\ worker' = [worker EXCEPT ![w].at = "cas", ![w].seen = active[g]]
            /\ UNCHANGED finished
         \/ /\ active[g] >= limit[g]
            /\ IF g = "request" THEN Hangup(w) ELSE Goto(w, "close") /\ UNCHANGED finished
      /\ UNCHANGED <<main, table, active, now, admitted, caches>>

Inside == [request |-> "body", heavy |-> "action", refresh |-> "overview"]

(* Mutant of TakePermit: the counter is stored without comparing it.       *)
TakePermitBlindly(w) ==
  LET g == worker[w].gate
  IN  /\ At(w, "cas")
      /\ active' = [active EXCEPT ![g] = worker[w].seen + 1]
      /\ worker' = [worker EXCEPT ![w].at = Inside[g], ![w].seen = 0,
                                  ![w].gate = "none", ![w].refresh = (g = "refresh")]
      /\ UNCHANGED <<main, finished, table, now, admitted, caches>>

(* ... and take a permit with compare_exchange, or read it again.          *)
TakePermit(w) ==
  LET g == worker[w].gate
  IN  /\ At(w, "cas")
      /\ \/ /\ active[g] = worker[w].seen
            /\ active' = [active EXCEPT ![g] = @ + 1]
            /\ worker' = [worker EXCEPT ![w].at = Inside[g], ![w].seen = 0,
                                        ![w].gate = "none", ![w].refresh = (g = "refresh")]
         \/ /\ active[g] # worker[w].seen
            /\ Goto(w, "load")
            /\ UNCHANGED active
      /\ UNCHANGED <<main, finished, table, now, admitted, caches>>

(* The body is read within the deadline, or the connection fails; then     *)
(* handle_http_request: the routes that need no permit and no cache, heavy *)
(* actions, the overview with and without refresh, and health.             *)
Dispatch(w) ==
  /\ At(w, "body")
  /\ \/ Goto(w, "close")
     \/ Enter(w, "heavy")
     \/ Enter(w, "refresh")
     \/ Goto(w, "overview")
     \/ \E r \in BOOLEAN : worker' = [worker EXCEPT ![w].at = "health", ![w].refresh = r]
  /\ UNCHANGED <<main, finished, table, active, now, admitted, caches>>

(* A heavy action runs, well or not, and its permit is dropped.            *)
HeavyAction(w) ==
  /\ At(w, "action")
  /\ active' = [active EXCEPT !["heavy"] = @ - 1]
  /\ Goto(w, "close")
  /\ UNCHANGED <<main, finished, table, now, admitted, caches>>

(* The answer is written; a permit of the refresh gate is dropped after it. *)
Answer(w) == Goto(w, IF worker[w].refresh THEN "drop" ELSE "close")

Overview(w) ==
  LET refresh == worker[w].refresh
  IN  /\ At(w, "overview")
      /\ \/ OverviewAnswered(refresh, now) /\ Answer(w)
         \/ ColdRefused(now) /\ Answer(w)
         \/ StartRefresh(w, refresh, now) /\ Goto(w, "rebuild")
         \/ StartCold(w, now) /\ Goto(w, "cold")
      /\ UNCHANGED <<main, finished, table, active, now, admitted, health>>

OverviewBuilt(w) ==
  /\ \E ok \in BOOLEAN : \/ At(w, "cold") /\ FinishCold(w, ok, now)
                         \/ At(w, "rebuild") /\ FinishRefresh(w, ok, now)
  /\ Answer(w)
  /\ UNCHANGED <<main, finished, table, active, now, admitted, health>>

DropRefresh(w) ==
  /\ At(w, "drop")
  /\ active' = [active EXCEPT !["refresh"] = @ - 1]
  /\ Goto(w, "close")
  /\ UNCHANGED <<main, finished, table, now, admitted, caches>>

Health(w) ==
  LET refresh == worker[w].refresh
  IN  /\ At(w, "health")
      /\ \/ HealthAnswered(refresh, now) /\ Goto(w, "close")
         \/ StartHealth(w, refresh, now) /\ Goto(w, "checking")
      /\ UNCHANGED <<main, finished, table, active, now, admitted, overview>>

HealthBuilt(w) ==
  /\ At(w, "checking")
  /\ \E ok \in BOOLEAN : FinishHealth(w, ok, now)
  /\ Goto(w, "close")
  /\ UNCHANGED <<main, finished, table, active, now, admitted, overview>>

(* handle_connection returns: the governor's permit is dropped.            *)
Close(w) ==
  /\ At(w, "close")
  /\ active' = [active EXCEPT !["request"] = @ - 1]
  /\ Hangup(w)
  /\ UNCHANGED <<main, table, now, admitted, caches>>

Tick ==
  /\ now < MaxTime /\ now' = now + 1
  /\ UNCHANGED <<main, finished, worker, table, active, admitted, caches>>

-----------------------------------------------------------------------------
LoopStep == Send \/ Return

WorkerStep(w) ==
  \/ Receive(w) \/ WorkerExit(w) \/ RefuseHead(w) \/ CheckRate(w)
  \/ LoadGate(w) \/ TakePermit(w) \/ Dispatch(w) \/ HeavyAction(w)
  \/ Overview(w) \/ OverviewBuilt(w) \/ DropRefresh(w)
  \/ Health(w) \/ HealthBuilt(w) \/ Close(w)

Next ==
  \/ \E c \in Clients : Accept(c)
  \/ AcceptFails \/ LoopStep \/ Tick
  \/ \E w \in Workers : WorkerStep(w)

Spec == Init /\ [][Next]_vars

(* The loop and every worker keep running; reads of a connection have a    *)
(* deadline and builds end.  Nothing makes a connection come.              *)
Fairness == WF_vars(LoopStep) /\ \A w \in Workers : WF_vars(WorkerStep(w))

FairSpec == Spec /\ Fairness

-----------------------------------------------------------------------------
(* The shape of the state.                                                 *)
TypeOK ==
  /\ loop \in {"accepting", "sending", "joining", "returned"}
  /\ channel \in Seq(Clients) /\ Len(channel) <= ChannelSize
  /\ worker \in [Workers ->
       [at : {"recv", "head", "load", "cas", "body", "action",
              "overview", "cold", "rebuild", "drop", "health", "checking", "close", "exit"},
        client : Clients \cup {NoOne}, gate : Gates \cup {"none"},
        seen : Nat, refresh : BOOLEAN]]
  /\ DOMAIN table \subseteq Clients /\ Cardinality(DOMAIN table) <= MaxClients
  /\ active \in [Gates -> Nat]

(* The worker is behind the gate: where the code holds the permit.         *)
Behind(w, g) ==
  CASE g = "request" -> \/ worker[w].at \notin {"recv", "head", "load", "cas", "exit"}
                        \/ worker[w].at \in {"load", "cas"} /\ worker[w].gate # "request"
    [] g = "heavy" -> worker[w].at = "action"
    [] g = "refresh" -> /\ worker[w].at \in {"overview", "cold", "rebuild", "drop"}
                        /\ worker[w].refresh

(* Whatever early return a worker takes and however the compare-and-swaps  *)
(* of several workers interleave, the counter of a gate is the number of   *)
(* workers behind it, and never above its limit: no permit leaks, none is  *)
(* given twice (admission.rs, governor.rs).  The state has its type.       *)
PermitsMatchHolders ==
  /\ TypeOK
  /\ \A g \in Gates : /\ active[g] = Cardinality({w \in Workers : Behind(w, g)})
                      /\ active[g] <= limit[g]

(* No window of time holds more requests of one client that the limiter    *)
(* let through than its maximum, as long as the client was not evicted to  *)
(* make room: pruning windows and idle clients forgets nothing that still  *)
(* counts (rate_limit.rs, check and prune_idle).  It does in the first     *)
(* window that can be represented: there every request leaves at the next, *)
(* as a start that cannot be represented is replaced by the present.       *)
RateBounded ==
  \A c \in Clients :
    Cardinality({i \in DOMAIN admitted[c] :
                   /\ admitted[c][i] >= RateWindow
                   /\ now - admitted[c][i] < RateWindow}) <= RateMax

(* The cached values never go back in time: a build that began earlier     *)
(* does not replace one that began later.                                  *)
CachesMoveForward ==
  [][/\ overview'.entry.built >= overview.entry.built
     /\ health'.entry.built >= health.entry.built]_vars

(* Every connection accepted is handled in the end (at most MaxRequests    *)
(* are), those still in the channel when the accept loop stopped included: *)
(* a worker that waits for a cache, a gate or the channel does not wait    *)
(* for ever, and neither does the accept loop.                             *)
EveryConnectionEnds == []<>(finished = accepted)
=============================================================================
