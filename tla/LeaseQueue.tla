----------------------------- MODULE LeaseQueue -----------------------------
(***************************************************************************)
(* The process-local admission queue of src/upstream/lease_queue.rs as     *)
(* acquire_upstream_lease (lease_runtime.rs) drives it: callers of one     *)
(* MCPace process line up in a lane, the head of the lane tries the        *)
(* durable lease store, everybody else sleeps on the lane's condition      *)
(* variable.  Lanes are reference counted objects kept in a registry that  *)
(* every enqueue prunes.  What the store answers is an input here.         *)
(***************************************************************************)
EXTENDS Naturals, FiniteSets

CONSTANTS
    Threads,      \* caller threads of the process
    Keys,         \* lane keys: root, server and affinity, hashed
    Lanes,        \* QueueLane objects the allocator can hand out
    NoLane,       \* no Arc<QueueLane> held
    NoKey,        \* outside any lane
    MaxLanes,     \* MAX_QUEUE_LANES
    MaxDepth,     \* max_queue_depth of the server's execution policy
    MaxArrivals,  \* bound: calls to enqueue in a behaviour
    MaxPoisons    \* bound: panics under a lane lock in a behaviour

ASSUME QueueAssumption ==
    /\ NoLane \notin Lanes
    /\ NoKey \notin Keys
    /\ IsFiniteSet(Threads)
    /\ MaxLanes \in Nat /\ MaxDepth \in Nat
    /\ MaxArrivals \in Nat /\ MaxPoisons \in Nat

VARIABLES
    registry,  \* QueueRegistry.lanes: the lane registered under each key
    lane,      \* QueueLaneState of each lane object, with its mutex's poison flag
    notifying, \* the lanes notify_all_lanes has cloned and not notified yet
    pc,        \* where each caller is in acquire_upstream_lease
    key,       \* its lane key
    at,        \* the lane it holds an Arc of
    ticket,    \* LeaseQueuePosition.ticket
    expired,   \* its deadline has passed
    arrivals,  \* calls to enqueue so far
    poisons    \* panics under a lane lock so far

vars == <<registry, lane, notifying, pc, key, at, ticket, expired, arrivals, poisons>>

QueueLaneState ==
    [next_ticket: Nat, serving_ticket: Nat, waiting: Nat,
     cancelled: SUBSET Nat, poisoned: BOOLEAN]

\* QueueLane::default()
EmptyLane ==
    [next_ticket |-> 0, serving_ticket |-> 0, waiting |-> 0,
     cancelled |-> {}, poisoned |-> FALSE]

\* Where a caller is: outside; holding a lane before its ticket; about to look
\* at the lane in wait_until_head; asleep there; head of the lane and trying the
\* store; refused by the store; asleep in wait_for_retry; granted, before
\* complete(); failed, before the ticket is dropped.
PC == {"idle", "joining", "waiting", "sleeping", "head", "blocked",
       "retrying", "completing", "dropping"}

\* A caller in one of these states owns a LeaseQueueTicket not yet finished.
Queued == PC \ {"idle", "joining"}

Registered == {registry[k] : k \in Keys} \ {NoLane}

\* Arc::strong_count(lane) > 1 for a registered lane
HeldElsewhere(o) == o \in notifying \/ \E t \in Threads : at[t] = o

TypeOK ==
    /\ registry \in [Keys -> Lanes \cup {NoLane}]
    /\ lane \in [Lanes -> QueueLaneState]
    /\ notifying \in SUBSET Lanes
    /\ pc \in [Threads -> PC]
    /\ key \in [Threads -> Keys \cup {NoKey}]
    /\ at \in [Threads -> Lanes \cup {NoLane}]
    /\ ticket \in [Threads -> Nat]
    /\ expired \in [Threads -> BOOLEAN]
    /\ arrivals \in Nat
    /\ poisons \in Nat

Init ==
    /\ registry = [k \in Keys |-> NoLane]
    /\ lane = [o \in Lanes |-> EmptyLane]
    /\ notifying = {}
    /\ pc = [t \in Threads |-> "idle"]
    /\ key = [t \in Threads |-> NoKey]
    /\ at = [t \in Threads |-> NoLane]
    /\ ticket = [t \in Threads |-> 0]
    /\ expired = [t \in Threads |-> FALSE]
    /\ arrivals = 0
    /\ poisons = 0
-----------------------------------------------------------------------------
(* Operations on the state of one lane.                                    *)

\* The first ticket from serving_ticket on that was not cancelled.
FirstLive(l) ==
    CHOOSE s \in l.serving_ticket .. l.next_ticket :
        /\ s \notin l.cancelled
        /\ \A u \in l.serving_ticket .. l.next_ticket :
               u < s => u \in l.cancelled

\* advance_cancelled: skip, and forget, the cancelled tickets at the front.
AdvanceCancelled(l) ==
    LET s == FirstLive(l)
    IN  [l EXCEPT !.serving_ticket = s,
                  !.cancelled = {u \in @ : u \notin l.serving_ticket .. (s - 1)}]

\* usize::saturating_sub
SaturatingSub(a, b) == IF a >= b THEN a - b ELSE 0

\* repair_lane_state: rebuild the counters of a lane whose mutex was poisoned.
RepairLaneState(l) ==
    LET next == IF l.next_ticket >= l.serving_ticket
                THEN l.next_ticket ELSE l.serving_ticket
        kept == AdvanceCancelled(
                  [l EXCEPT !.next_ticket = next,
                            !.cancelled = {u \in @ : u >= l.serving_ticket /\ u < next}])
    IN  [kept EXCEPT !.waiting = SaturatingSub(kept.next_ticket - kept.serving_ticket,
                                               Cardinality(kept.cancelled)),
                     !.poisoned = FALSE]

Repaired(l) == IF l.poisoned THEN RepairLaneState(l) ELSE l

\* Variant: a ticket dropped behind the head is not remembered as cancelled.
FinishedLaneForgetful(l, n, cancelled) ==
    LET m == [l EXCEPT !.waiting = SaturatingSub(@, 1)]
    IN  IF n = m.serving_ticket
        THEN AdvanceCancelled([m EXCEPT !.serving_ticket = @ + 1])
        ELSE m

\* finish(cancelled) on the (repaired) lane of a ticket n
FinishedLane(l, n, cancelled) ==
    LET m == [l EXCEPT !.waiting = SaturatingSub(@, 1)]
    IN  IF n = m.serving_ticket
        THEN AdvanceCancelled([m EXCEPT !.serving_ticket = @ + 1])
        ELSE IF cancelled /\ n > m.serving_ticket
        THEN [m EXCEPT !.cancelled = @ \cup {n}]
        ELSE m

\* Condvar::notify_all on lane o: waiters of wait_until_head look again, a
\* waiter of wait_for_retry goes back to the store.  The wait returns an error
\* when the mutex is found poisoned on the way out.
Notified(o) ==
    [u \in Threads |->
        IF at[u] # o THEN pc[u]
        ELSE IF pc[u] = "sleeping" THEN "waiting"
        ELSE IF pc[u] = "retrying"
             THEN IF lane'[o].poisoned THEN "dropping" ELSE "head"
        ELSE pc[u]]
-----------------------------------------------------------------------------
(* enqueue, in the two critical sections it has.                           *)

\* Variant: the strong count is not looked at.
PrunableWhileHeld(o) == Repaired(lane[o]).waiting = 0

\* prune_empty_lanes: a registered lane nobody waits in and nobody else holds.
Prunable(o) == Repaired(lane[o]).waiting = 0 /\ ~HeldElsewhere(o)

PrunedRegistry ==
    [k \in Keys |-> IF registry[k] # NoLane /\ Prunable(registry[k])
                    THEN NoLane ELSE registry[k]]

\* A registered lane is repaired by the pruning; a lane nobody refers to any
\* more is freed, and the object that is handed out next is a default one.
PrunedLane ==
    [o \in Lanes |->
        IF o \in Registered /\ ~Prunable(o) THEN Repaired(lane[o])
        ELSE IF HeldElsewhere(o) THEN lane[o]
        ELSE EmptyLane]

\* Under the registry lock: prune, then clone or create the lane of k.
EnqueueLookup(t, k) ==
    /\ pc[t] = "idle"
    /\ arrivals < MaxArrivals
    /\ arrivals' = arrivals + 1
    /\ lane' = PrunedLane
    /\ \/ /\ PrunedRegistry[k] # NoLane
          /\ registry' = PrunedRegistry
          /\ at' = [at EXCEPT ![t] = PrunedRegistry[k]]
          /\ pc' = [pc EXCEPT ![t] = "joining"]
          /\ key' = [key EXCEPT ![t] = k]
       \/ \* LeaseQueueError::LaneLimit
          /\ PrunedRegistry[k] = NoLane
          /\ Cardinality({j \in Keys : PrunedRegistry[j] # NoLane}) >= MaxLanes
          /\ registry' = PrunedRegistry
          /\ UNCHANGED <<at, pc, key>>
       \/ /\ PrunedRegistry[k] = NoLane
          /\ Cardinality({j \in Keys : PrunedRegistry[j] # NoLane}) < MaxLanes
          /\ \E o \in Lanes :
                /\ \A j \in Keys : PrunedRegistry[j] # o
                /\ ~HeldElsewhere(o)
                /\ registry' = [PrunedRegistry EXCEPT ![k] = o]
                /\ at' = [at EXCEPT ![t] = o]
          /\ pc' = [pc EXCEPT ![t] = "joining"]
          /\ key' = [key EXCEPT ![t] = k]
    /\ expired' = [expired EXCEPT ![t] = FALSE]
    /\ UNCHANGED <<notifying, ticket, poisons>>

\* max_depth.max(1): a lane always has room for one
Depth == IF MaxDepth = 0 THEN 1 ELSE MaxDepth

LaneFull(l) == l.waiting >= Depth

\* Variant: a poisoned lane is waited for instead of reported.
EnqueueRefusedOnlyWhenFull(t) ==
    /\ pc[t] = "joining"
    /\ ~lane[at[t]].poisoned
    /\ LaneFull(lane[at[t]])
    /\ pc' = [pc EXCEPT ![t] = "idle"]
    /\ key' = [key EXCEPT ![t] = NoKey]
    /\ at' = [at EXCEPT ![t] = NoLane]
    /\ expired' = [expired EXCEPT ![t] = FALSE]
    /\ UNCHANGED <<registry, lane, notifying, ticket, arrivals, poisons>>

\* The Arc is dropped and enqueue returns an error: Full, or a poisoned lane.
EnqueueRefused(t) ==
    /\ pc[t] = "joining"
    /\ \/ lane[at[t]].poisoned
       \/ LaneFull(lane[at[t]])
    /\ pc' = [pc EXCEPT ![t] = "idle"]
    /\ key' = [key EXCEPT ![t] = NoKey]
    /\ at' = [at EXCEPT ![t] = NoLane]
    /\ expired' = [expired EXCEPT ![t] = FALSE]
    /\ UNCHANGED <<registry, lane, notifying, ticket, arrivals, poisons>>

\* Under the lane lock: take the next ticket.
EnqueueTicket(t) ==
    /\ pc[t] = "joining"
    /\ ~lane[at[t]].poisoned
    /\ ~LaneFull(lane[at[t]])
    /\ LET l == AdvanceCancelled(lane[at[t]])
       IN  /\ ticket' = [ticket EXCEPT ![t] = l.next_ticket]
           /\ lane' = [lane EXCEPT ![at[t]] =
                          [l EXCEPT !.next_ticket = @ + 1, !.waiting = @ + 1]]
    /\ pc' = [pc EXCEPT ![t] = "waiting"]
    /\ UNCHANGED <<registry, notifying, key, at, expired, arrivals, poisons>>
-----------------------------------------------------------------------------
(* wait_until_head                                                         *)

\* One turn of the loop, under the lane lock, up to the wait.
WaitUntilHead(t) ==
    /\ pc[t] = "waiting"
    /\ \/ /\ lane[at[t]].poisoned
          /\ pc' = [pc EXCEPT ![t] = "dropping"]
          /\ UNCHANGED lane
       \/ /\ ~lane[at[t]].poisoned
          /\ lane' = [lane EXCEPT ![at[t]] = AdvanceCancelled(@)]
          /\ pc' = [pc EXCEPT ![t] =
                      IF lane'[at[t]].serving_ticket = ticket[t] THEN "head"
                      ELSE IF expired[t] THEN "dropping"
                      ELSE "sleeping"]
    /\ UNCHANGED <<registry, notifying, key, at, ticket, expired, arrivals, poisons>>

\* The wait slice (MAX_WAIT_SLICE) ends without a notification: past the
\* deadline the caller gives up without another look at the lane.
WaitSliceEnds(t) ==
    /\ pc[t] = "sleeping"
    /\ pc' = [pc EXCEPT ![t] =
                 IF expired[t] \/ lane[at[t]].poisoned THEN "dropping" ELSE "waiting"]
    /\ UNCHANGED <<registry, lane, notifying, key, at, ticket, expired, arrivals, poisons>>
-----------------------------------------------------------------------------
(* The head's attempts at the lease store, and wait_for_retry.             *)

\* The store granted the lease.
AttemptAcquired(t) ==
    /\ pc[t] = "head"
    /\ pc' = [pc EXCEPT ![t] = "completing"]
    /\ UNCHANGED <<registry, lane, notifying, key, at, ticket, expired, arrivals, poisons>>

\* The store refused it: past the deadline the caller gives up.
AttemptBlocked(t) ==
    /\ pc[t] = "head"
    /\ pc' = [pc EXCEPT ![t] = IF expired[t] THEN "dropping" ELSE "blocked"]
    /\ UNCHANGED <<registry, lane, notifying, key, at, ticket, expired, arrivals, poisons>>

\* The store could not be read, locked or written: `?` drops the ticket.
AttemptFailed(t) ==
    /\ pc[t] = "head"
    /\ pc' = [pc EXCEPT ![t] = "dropping"]
    /\ UNCHANGED <<registry, lane, notifying, key, at, ticket, expired, arrivals, poisons>>

\* wait_for_retry up to the wait.  A notification sent since the attempt is lost.
WaitForRetry(t) ==
    /\ pc[t] = "blocked"
    /\ pc' = [pc EXCEPT ![t] =
                 IF expired[t] \/ lane[at[t]].poisoned THEN "dropping" ELSE "retrying"]
    /\ UNCHANGED <<registry, lane, notifying, key, at, ticket, expired, arrivals, poisons>>

\* The retry interval ends without a notification.
RetryIntervalEnds(t) ==
    /\ pc[t] = "retrying"
    /\ pc' = [pc EXCEPT ![t] =
                 IF expired[t] \/ lane[at[t]].poisoned THEN "dropping" ELSE "head"]
    /\ UNCHANGED <<registry, lane, notifying, key, at, ticket, expired, arrivals, poisons>>
-----------------------------------------------------------------------------
(* finish: complete() after a grant, Drop otherwise.                       *)

\* Variant: the condition variable is not signalled.
FinishSilently(t, cancelled) ==
    /\ lane' = [lane EXCEPT ![at[t]] = FinishedLane(Repaired(@), ticket[t], cancelled)]
    /\ pc' = [pc EXCEPT ![t] = "idle"]
    /\ key' = [key EXCEPT ![t] = NoKey]
    /\ at' = [at EXCEPT ![t] = NoLane]
    /\ ticket' = [ticket EXCEPT ![t] = 0]
    /\ expired' = [expired EXCEPT ![t] = FALSE]
    /\ UNCHANGED <<registry, notifying, arrivals, poisons>>

Finish(t, cancelled) ==
    /\ lane' = [lane EXCEPT ![at[t]] = FinishedLane(Repaired(@), ticket[t], cancelled)]
    /\ pc' = [Notified(at[t]) EXCEPT ![t] = "idle"]
    /\ key' = [key EXCEPT ![t] = NoKey]
    /\ at' = [at EXCEPT ![t] = NoLane]
    /\ ticket' = [ticket EXCEPT ![t] = 0]
    /\ expired' = [expired EXCEPT ![t] = FALSE]
    /\ UNCHANGED <<registry, notifying, arrivals, poisons>>

Complete(t) ==
    /\ pc[t] = "completing"
    /\ Finish(t, FALSE)

DropTicket(t) ==
    /\ pc[t] = "dropping"
    /\ Finish(t, TRUE)
-----------------------------------------------------------------------------
(* notify_all_lanes, called by whoever released a lease.                   *)

NotifySnapshot ==
    /\ notifying = {}
    /\ notifying' = Registered
    /\ UNCHANGED <<registry, lane, pc, key, at, ticket, expired, arrivals, poisons>>

NotifyLane(o) ==
    /\ o \in notifying
    /\ notifying' = notifying \ {o}
    /\ lane' = lane
    /\ pc' = Notified(o)
    /\ UNCHANGED <<registry, key, at, ticket, expired, arrivals, poisons>>
-----------------------------------------------------------------------------
(* The environment: time, and a panic under a lane's lock.                 *)

DeadlinePasses(t) ==
    /\ pc[t] # "idle"
    /\ ~expired[t]
    /\ expired' = [expired EXCEPT ![t] = TRUE]
    /\ UNCHANGED <<registry, lane, notifying, pc, key, at, ticket, arrivals, poisons>>

LanePoisoned(o) ==
    /\ poisons < MaxPoisons
    /\ o \in Registered
    /\ ~lane[o].poisoned
    /\ poisons' = poisons + 1
    /\ lane' = [lane EXCEPT ![o].poisoned = TRUE]
    /\ UNCHANGED <<registry, notifying, pc, key, at, ticket, expired, arrivals>>
-----------------------------------------------------------------------------
CallerStep(t) ==
    \/ EnqueueRefused(t)
    \/ EnqueueTicket(t)
    \/ WaitUntilHead(t)
    \/ WaitSliceEnds(t)
    \/ AttemptAcquired(t)
    \/ AttemptBlocked(t)
    \/ AttemptFailed(t)
    \/ WaitForRetry(t)
    \/ RetryIntervalEnds(t)
    \/ Complete(t)
    \/ DropTicket(t)

Next ==
    \/ \E t \in Threads :
          \/ \E k \in Keys : EnqueueLookup(t, k)
          \/ CallerStep(t)
          \/ DeadlinePasses(t)
    \/ NotifySnapshot
    \/ \E o \in Lanes : NotifyLane(o) \/ LanePoisoned(o)

Spec == Init /\ [][Next]_vars

\* A caller's thread keeps running (its waits are bounded slices), and time
\* passes; nothing is assumed of arrivals, notifications or the store's answer.
FairSpec ==
    /\ Spec
    /\ \A t \in Threads : WF_vars(CallerStep(t)) /\ WF_vars(DeadlinePasses(t))
-----------------------------------------------------------------------------
(* Properties.                                                             *)

\* The caller has been told it is the head and has not yet failed or left.
Admitted == {"head", "blocked", "retrying", "completing"}

Owners(o) == {t \in Threads : at[t] = o /\ pc[t] \in Queued}

\* A caller that wait_until_head let through is the oldest caller queued under
\* its lane key: it shares one lane object with every other caller queued under
\* that key and has the smallest ticket.  So at most one caller per key tries
\* the lease store, in order of arrival, although lanes are pruned, created and
\* cloned while callers are between the registry lock and the lane lock.
HeadIsOldest ==
    \A t, u \in Threads :
        (/\ t # u
         /\ pc[t] \in Admitted
         /\ pc[u] \in Queued
         /\ key[t] = key[u])
        => at[t] = at[u] /\ ticket[t] < ticket[u]

\* The waiting counter of a lane, which the depth limit and the pruning read, is
\* the number of unfinished tickets of that lane: after every enqueue, complete
\* and drop, and after the counters of a poisoned lane were rebuilt.
WaitingCountsTickets ==
    \A o \in Lanes : lane[o].waiting = Cardinality(Owners(o))

\* No more than max_queue_depth callers are queued under one lane key.
DepthBounded ==
    \A k \in Keys :
        Cardinality({t \in Threads : key[t] = k /\ pc[t] \in Queued}) <= Depth

\* A caller asleep in wait_until_head is never the one being served: whatever
\* moves serving_ticket to a ticket wakes its owner in the same critical
\* section, so the 250 ms slice is never what a served caller waits for.
SleeperNotServed ==
    \A t \in Threads :
        pc[t] = "sleeping" => lane[at[t]].serving_ticket # ticket[t]

\* The ticket a lane is serving belongs to a caller that is still queued, unless
\* the lane is empty: a cancelled ticket never holds up the callers behind it.
ServedTicketHasOwner ==
    \A o \in Lanes :
        lane[o].serving_ticket < lane[o].next_ticket
            => \E t \in Owners(o) : ticket[t] = lane[o].serving_ticket

\* Why the above hold, as an inductive invariant.  A caller keeps its lane
\* registered under its key; tickets of a lane are distinct and lie between
\* serving_ticket and next_ticket; every ticket in that range is either owned or
\* cancelled, and the one being served is never a cancelled one.
CallerOK(t) ==
    /\ pc[t] = "idle" => at[t] = NoLane /\ key[t] = NoKey
    /\ pc[t] # "idle" => /\ key[t] \in Keys
                         /\ at[t] \in Lanes
                         /\ registry[key[t]] = at[t]
    /\ pc[t] \in Queued => /\ lane[at[t]].serving_ticket <= ticket[t]
                           /\ ticket[t] < lane[at[t]].next_ticket
                           /\ ticket[t] \notin lane[at[t]].cancelled
    /\ pc[t] \in Admitted => ticket[t] = lane[at[t]].serving_ticket
    /\ pc[t] = "sleeping" => ticket[t] # lane[at[t]].serving_ticket

LaneOK(o) ==
    /\ lane[o].serving_ticket <= lane[o].next_ticket
    /\ \A n \in lane[o].cancelled :
           lane[o].serving_ticket < n /\ n < lane[o].next_ticket
    /\ \A n \in lane[o].serving_ticket .. (lane[o].next_ticket - 1) :
           n \in lane[o].cancelled \/ \E t \in Owners(o) : ticket[t] = n

QueueInv ==
    /\ \A t \in Threads : CallerOK(t)
    /\ \A o \in Lanes : LaneOK(o)
    /\ \A t, u \in Threads :
          (t # u /\ at[t] = at[u] /\ pc[t] \in Queued /\ pc[u] \in Queued)
              => ticket[t] # ticket[u]
    /\ \A j, k \in Keys : registry[j] = registry[k] /\ registry[j] # NoLane => j = k
    /\ notifying \subseteq Registered

\* The queue implements the abstract line: refinement mapping and property.
LineStatus(p) ==
    CASE p \in {"idle", "joining"} -> "out"
      [] p \in {"waiting", "sleeping"} -> "waiting"
      [] p \in Admitted -> "admitted"
      [] p = "dropping" -> "leaving"

LineOf(t) == IF pc[t] \in Queued THEN key[t] ELSE NoKey

AheadOf(t) ==
    {u \in Threads : /\ pc[t] \in Queued /\ pc[u] \in Queued
                     /\ key[u] = key[t] /\ ticket[u] < ticket[t]}

Line == INSTANCE FifoLine
            WITH line <- [t \in Threads |-> LineOf(t)],
                 ahead <- [t \in Threads |-> AheadOf(t)],
                 status <- [t \in Threads |-> LineStatus(pc[t])]

\* enqueue, wait_until_head, complete and drop of the queue are the join, admit
\* and leave of a bounded first-come first-served line per key.
ImplementsFifoLine == Line!Spec

\* Every caller leaves acquire_upstream_lease: granted, refused or timed out,
\* whatever the store answers and whether or not notifications arrive.  (At
\* most MaxArrivals calls are made, so the queue empties again and again.)
EveryCallerLeaves == []<>(\A t \in Threads : pc[t] = "idle")
=============================================================================
