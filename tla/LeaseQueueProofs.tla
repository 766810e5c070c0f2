-------------------------- MODULE LeaseQueueProofs --------------------------
(***************************************************************************)
(* Proofs about the lease queue, for any sets of callers, keys and lane    *)
(* objects and any bounds.                                                 *)
(***************************************************************************)
EXTENDS LeaseQueue, FiniteSetTheorems, WellFoundedInduction, TLAPS

\* The backend of every step that names no other.
USE ZenonT(30)

-----------------------------------------------------------------------------
(* Lemmas about the operations on one lane.                                *)

\* A non-empty set of natural numbers has a least element.
LEMMA LeastNatural ==
    ASSUME NEW S \in SUBSET Nat, S # {}
    PROVE  \E m \in S : \A n \in S : m <= n
<1>1. \E m \in S : \A n \in S : ~ (<<n, m>> \in OpToRel(<, Nat))
  BY NatLessThanWellFounded, WFMin
<1>2. PICK m \in S : \A n \in S : ~ (<<n, m>> \in OpToRel(<, Nat))
  BY <1>1
<1>3. \A n \in S : ~ (n < m)
  BY <1>2 DEF OpToRel
<1> QED
  BY SMTT(30), <1>3

\* The loop of advance_cancelled stops at the first ticket that is not
\* cancelled, at the latest at next_ticket, which was never issued.
LEMMA FirstLiveExists ==
    ASSUME NEW l \in QueueLaneState,
           l.serving_ticket <= l.next_ticket,
           l.next_ticket \notin l.cancelled
    PROVE  /\ FirstLive(l) \in Nat
           /\ l.serving_ticket <= FirstLive(l)
           /\ FirstLive(l) <= l.next_ticket
           /\ FirstLive(l) \notin l.cancelled
           /\ \A u \in Nat : l.serving_ticket <= u /\ u < FirstLive(l) => u \in l.cancelled
<1> DEFINE S == {s \in l.serving_ticket .. l.next_ticket : s \notin l.cancelled}
<1>0. l.serving_ticket \in Nat /\ l.next_ticket \in Nat
  BY DEF QueueLaneState
<1>1. S \in SUBSET Nat /\ S # {}
  BY SMTT(30), <1>0
<1>2. PICK m \in S : \A n \in S : m <= n
  BY <1>1, LeastNatural
<1>3. \A u \in l.serving_ticket .. l.next_ticket : u < m => u \in l.cancelled
  BY SMTT(30), <1>0, <1>2
<1>4. \E s \in l.serving_ticket .. l.next_ticket :
          /\ s \notin l.cancelled
          /\ \A u \in l.serving_ticket .. l.next_ticket : u < s => u \in l.cancelled
  BY <1>2, <1>3
<1>5. /\ FirstLive(l) \in l.serving_ticket .. l.next_ticket
      /\ FirstLive(l) \notin l.cancelled
      /\ \A u \in l.serving_ticket .. l.next_ticket : u < FirstLive(l) => u \in l.cancelled
  BY <1>4 DEF FirstLive
<1> HIDE DEF S
<1> QED
  BY SMTT(30), <1>0, <1>5

\* What advance_cancelled returns.
LEMMA AdvanceCancelledFields ==
    ASSUME NEW l \in QueueLaneState,
           l.serving_ticket <= l.next_ticket,
           l.next_ticket \notin l.cancelled
    PROVE  /\ AdvanceCancelled(l) \in QueueLaneState
           /\ AdvanceCancelled(l).next_ticket = l.next_ticket
           /\ AdvanceCancelled(l).serving_ticket = FirstLive(l)
           /\ AdvanceCancelled(l).waiting = l.waiting
           /\ AdvanceCancelled(l).poisoned = l.poisoned
           /\ AdvanceCancelled(l).cancelled
                = {u \in l.cancelled : u \notin l.serving_ticket .. (FirstLive(l) - 1)}
  BY FirstLiveExists DEF AdvanceCancelled, QueueLaneState

\* advance_cancelled changes nothing while the served ticket is a live one.
LEMMA AdvanceCancelledIdle ==
    ASSUME NEW l \in QueueLaneState,
           l.serving_ticket <= l.next_ticket,
           \A n \in l.cancelled : l.serving_ticket < n /\ n < l.next_ticket
    PROVE  AdvanceCancelled(l) = l
<1>0. /\ l.serving_ticket \in Nat /\ l.next_ticket \in Nat
      /\ l.next_ticket \notin l.cancelled
      /\ l.serving_ticket \notin l.cancelled
  BY SMTT(30) DEF QueueLaneState
<1>1. FirstLive(l) = l.serving_ticket
  BY SMTT(30), <1>0, FirstLiveExists
<1>2. {u \in l.cancelled : u \notin l.serving_ticket .. (FirstLive(l) - 1)} = l.cancelled
  BY SMTT(30), <1>0, <1>1 DEF QueueLaneState
<1> QED
  BY <1>1, <1>2 DEF AdvanceCancelled, QueueLaneState

\* Repairing a poisoned lane whose tickets are in order rebuilds its waiting
\* count and changes nothing else.
LEMMA RepairedFields ==
    ASSUME NEW l \in QueueLaneState,
           l.serving_ticket <= l.next_ticket,
           \A n \in l.cancelled : l.serving_ticket < n /\ n < l.next_ticket
    PROVE  /\ Repaired(l) \in QueueLaneState
           /\ Repaired(l).next_ticket = l.next_ticket
           /\ Repaired(l).serving_ticket = l.serving_ticket
           /\ Repaired(l).cancelled = l.cancelled
           /\ Repaired(l).poisoned = FALSE
           /\ Repaired(l).waiting =
                IF l.poisoned
                THEN SaturatingSub(l.next_ticket - l.serving_ticket, Cardinality(l.cancelled))
                ELSE l.waiting
<1>0. /\ l.serving_ticket \in Nat /\ l.next_ticket \in Nat
      /\ l.cancelled \in SUBSET Nat
      /\ l.poisoned \in BOOLEAN
      /\ l.waiting \in Nat
  BY DEF QueueLaneState
<1>1. Cardinality(l.cancelled) \in Nat
  <2>1. \A n \in l.cancelled : n <= l.next_ticket
    BY SMTT(30), <1>0
  <2>2. IsFiniteSet(l.cancelled)
    BY <1>0, <2>1, FS_BoundedSetOfNaturals
  <2> QED
    BY <2>2, FS_CardinalityType
<1>2. (IF l.next_ticket >= l.serving_ticket THEN l.next_ticket ELSE l.serving_ticket)
        = l.next_ticket
  BY <1>0
<1>3. {u \in l.cancelled : u >= l.serving_ticket /\ u < l.next_ticket} = l.cancelled
  BY SMTT(30), <1>0
<1>4. [l EXCEPT !.next_ticket = l.next_ticket, !.cancelled = l.cancelled] = l
  BY DEF QueueLaneState
<1>5. RepairLaneState(l) =
        [l EXCEPT !.waiting = SaturatingSub(l.next_ticket - l.serving_ticket,
                                            Cardinality(l.cancelled)),
                  !.poisoned = FALSE]
  BY <1>2, <1>3, <1>4, AdvanceCancelledIdle DEF RepairLaneState
<1>6. SaturatingSub(l.next_ticket - l.serving_ticket, Cardinality(l.cancelled)) \in Nat
  BY SMTT(30), <1>0, <1>1 DEF SaturatingSub
<1> QED
  BY <1>0, <1>5, <1>6 DEF Repaired, QueueLaneState

\* What finish leaves behind: the finished ticket n is passed or remembered as
\* cancelled, and the served ticket moves only over n and cancelled tickets.
LEMMA FinishedLaneFields ==
    ASSUME NEW l \in QueueLaneState, NEW n \in Nat, NEW c \in BOOLEAN,
           l.serving_ticket <= l.next_ticket,
           \A x \in l.cancelled : l.serving_ticket < x /\ x < l.next_ticket,
           l.serving_ticket <= n, n < l.next_ticket, n \notin l.cancelled,
           n = l.serving_ticket \/ c
    PROVE  LET r == FinishedLane(l, n, c)
           IN  /\ r \in QueueLaneState
               /\ r.next_ticket = l.next_ticket
               /\ r.poisoned = l.poisoned
               /\ r.waiting = SaturatingSub(l.waiting, 1)
               /\ l.serving_ticket <= r.serving_ticket
               /\ r.serving_ticket <= r.next_ticket
               /\ \A x \in r.cancelled : r.serving_ticket < x /\ x < r.next_ticket
               /\ r.serving_ticket > n \/ n \in r.cancelled
               /\ n > l.serving_ticket => r.serving_ticket = l.serving_ticket
               /\ r.cancelled \subseteq l.cancelled \cup {n}
               /\ \A x \in l.cancelled : r.serving_ticket <= x => x \in r.cancelled
               /\ \A x \in Nat : l.serving_ticket <= x /\ x < r.serving_ticket
                                     => x = n \/ x \in l.cancelled
<1> DEFINE m == [l EXCEPT !.waiting = SaturatingSub(@, 1)]
           a == [m EXCEPT !.serving_ticket = @ + 1]
           r == FinishedLane(l, n, c)
<1>0. /\ l.serving_ticket \in Nat /\ l.next_ticket \in Nat
      /\ l.cancelled \in SUBSET Nat /\ l.waiting \in Nat
  BY DEF QueueLaneState
<1>1. SaturatingSub(l.waiting, 1) \in Nat
  BY SMTT(30), <1>0 DEF SaturatingSub
<1>2. /\ m \in QueueLaneState
      /\ m.serving_ticket = l.serving_ticket /\ m.next_ticket = l.next_ticket
      /\ m.cancelled = l.cancelled /\ m.poisoned = l.poisoned
      /\ m.waiting = SaturatingSub(l.waiting, 1)
  BY <1>1 DEF QueueLaneState
<1> HIDE DEF m
<1>3. CASE n = l.serving_ticket
  <2>1. /\ a \in QueueLaneState
        /\ a.serving_ticket = l.serving_ticket + 1 /\ a.next_ticket = l.next_ticket
        /\ a.cancelled = l.cancelled /\ a.poisoned = l.poisoned
        /\ a.waiting = SaturatingSub(l.waiting, 1)
    BY SMTT(30), <1>0, <1>1, <1>2 DEF QueueLaneState
  <2>2. r = AdvanceCancelled(a)
    BY <1>2, <1>3 DEF FinishedLane, m
  <2> HIDE DEF a, r
  <2>3. a.serving_ticket <= a.next_ticket /\ a.next_ticket \notin a.cancelled
    BY SMTT(30), <1>0, <1>3, <2>1
  <2>4. /\ FirstLive(a) \in Nat
        /\ a.serving_ticket <= FirstLive(a)
        /\ FirstLive(a) <= a.next_ticket
        /\ FirstLive(a) \notin a.cancelled
        /\ \A u \in Nat : a.serving_ticket <= u /\ u < FirstLive(a) => u \in a.cancelled
    BY <2>1, <2>3, FirstLiveExists
  <2>5. /\ r \in QueueLaneState
        /\ r.next_ticket = l.next_ticket
        /\ r.serving_ticket = FirstLive(a)
        /\ r.waiting = SaturatingSub(l.waiting, 1)
        /\ r.poisoned = l.poisoned
        /\ r.cancelled = {u \in l.cancelled : u \notin a.serving_ticket .. (FirstLive(a) - 1)}
    BY <2>1, <2>2, <2>3, AdvanceCancelledFields
  <2>6. \A x \in r.cancelled : r.serving_ticket < x /\ x < r.next_ticket
    BY SMTT(30), <1>0, <1>3, <2>1, <2>4, <2>5
  <2>7. \A x \in Nat : l.serving_ticket <= x /\ x < r.serving_ticket
                           => x = n \/ x \in l.cancelled
    BY SMTT(30), <1>0, <1>3, <2>1, <2>4, <2>5
  <2>8. /\ l.serving_ticket <= r.serving_ticket
        /\ r.serving_ticket <= r.next_ticket
        /\ r.serving_ticket > n
        /\ r.cancelled \subseteq l.cancelled \cup {n}
        /\ \A x \in l.cancelled : r.serving_ticket <= x => x \in r.cancelled
    BY SMTT(30), <1>0, <1>3, <2>1, <2>4, <2>5
  <2> QED
    BY SMTT(30), <1>0, <1>3, <2>5, <2>6, <2>7, <2>8 DEF r
<1>4. CASE n # l.serving_ticket
  <2>1. n > l.serving_ticket /\ c
    BY SMTT(30), <1>0, <1>4
  <2>2. r = [m EXCEPT !.cancelled = @ \cup {n}]
    BY <1>2, <1>4, <2>1 DEF FinishedLane, m
  <2>3. /\ r \in QueueLaneState
        /\ r.serving_ticket = l.serving_ticket /\ r.next_ticket = l.next_ticket
        /\ r.cancelled = l.cancelled \cup {n} /\ r.poisoned = l.poisoned
        /\ r.waiting = SaturatingSub(l.waiting, 1)
    BY SMTT(30), <1>2, <2>2 DEF QueueLaneState
  <2> HIDE DEF a, r
  <2>4. /\ l.serving_ticket <= r.serving_ticket
        /\ r.serving_ticket <= r.next_ticket
        /\ \A x \in r.cancelled : r.serving_ticket < x /\ x < r.next_ticket
        /\ n \in r.cancelled
        /\ r.cancelled \subseteq l.cancelled \cup {n}
        /\ \A x \in l.cancelled : r.serving_ticket <= x => x \in r.cancelled
        /\ \A x \in Nat : ~(l.serving_ticket <= x /\ x < r.serving_ticket)
    BY SMTT(30), <1>0, <2>1, <2>3
  <2> QED
    BY <2>1, <2>3, <2>4 DEF r
<1> QED
  BY <1>3, <1>4

-----------------------------------------------------------------------------
(* The inductive invariant.                                                *)

IInv == TypeOK /\ QueueInv

\* The invariant holds when the process starts.
LEMMA InitIInv == Init => IInv
<1> SUFFICES ASSUME Init PROVE IInv
  OBVIOUS
<1>1. TypeOK
  BY DEF Init, TypeOK, EmptyLane, QueueLaneState, PC
<1>2. \A o \in Lanes : LaneOK(o)
  BY SMTT(30) DEF Init, LaneOK, EmptyLane
<1> QED
  BY <1>1, <1>2 DEF Init, IInv, QueueInv, CallerOK, Registered, Queued, Admitted, PC

\* What the invariant says of a caller survives a step that leaves the caller's
\* own variables alone and, if it holds a ticket, its lane's tickets too.
LEMMA CallerKept ==
    ASSUME NEW u, CallerOK(u),
           pc'[u] = pc[u], key'[u] = key[u], at'[u] = at[u], ticket'[u] = ticket[u],
           pc[u] # "idle" => registry'[key[u]] = registry[key[u]],
           pc[u] \in Queued =>
               /\ lane'[at[u]].next_ticket = lane[at[u]].next_ticket
               /\ lane'[at[u]].serving_ticket = lane[at[u]].serving_ticket
               /\ lane'[at[u]].cancelled = lane[at[u]].cancelled
    PROVE  CallerOK(u)'
<1>1. pc[u] \in Admitted \/ pc[u] = "sleeping" => pc[u] \in Queued
  BY DEF Admitted, Queued, PC
<1>2. /\ pc'[u] = "idle" => at'[u] = NoLane /\ key'[u] = NoKey
      /\ pc'[u] # "idle" => /\ key'[u] \in Keys
                            /\ at'[u] \in Lanes
                            /\ registry'[key'[u]] = at'[u]
  BY DEF CallerOK
<1>3. pc'[u] \in Queued => /\ lane'[at'[u]].serving_ticket <= ticket'[u]
                            /\ ticket'[u] < lane'[at'[u]].next_ticket
                            /\ ticket'[u] \notin lane'[at'[u]].cancelled
  BY DEF CallerOK
<1>4. /\ pc'[u] \in Admitted => ticket'[u] = lane'[at'[u]].serving_ticket
      /\ pc'[u] = "sleeping" => ticket'[u] # lane'[at'[u]].serving_ticket
  BY <1>1 DEF CallerOK
<1> QED
  BY <1>2, <1>3, <1>4 DEF CallerOK

\* A step that moves callers along without touching lanes, tickets or the
\* registry keeps the invariant, when it admits only the owner of the served
\* ticket and lets nobody fall asleep who is being served.
LEMMA PcStep ==
    ASSUME IInv,
           UNCHANGED <<registry, lane, notifying, key, at, ticket, arrivals, poisons>>,
           expired' \in [Threads -> BOOLEAN],
           pc' \in [Threads -> PC],
           \A t \in Threads :
               \/ pc'[t] = pc[t]
               \/ /\ pc[t] \in Queued
                  /\ pc'[t] \in Queued
                  /\ pc'[t] \in Admitted => ticket[t] = lane[at[t]].serving_ticket
                  /\ pc'[t] = "sleeping" => ticket[t] # lane[at[t]].serving_ticket
    PROVE  IInv'
<1>1. TypeOK'
  BY DEF IInv, TypeOK
<1>2. \A t \in Threads : pc'[t] \in Queued <=> pc[t] \in Queued
  OBVIOUS
<1>3. \A o \in Lanes : Owners(o)' = Owners(o)
  BY <1>2 DEF Owners
<1>4. \A o \in Lanes : LaneOK(o)'
  BY SMTT(30), <1>3 DEF IInv, QueueInv, LaneOK
<1>5. ASSUME NEW t \in Threads PROVE CallerOK(t)'
  <2>1. CallerOK(t)
    BY DEF IInv, QueueInv
  <2> QED
    BY <2>1 DEF CallerOK, Queued, Admitted, PC
<1>6. /\ \A t, u \in Threads :
            (t # u /\ at[t] = at[u] /\ pc[t] \in Queued /\ pc[u] \in Queued)
                => ticket[t] # ticket[u]
      /\ \A j, k \in Keys : registry[j] = registry[k] /\ registry[j] # NoLane => j = k
      /\ notifying \subseteq Registered
  BY DEF IInv, QueueInv
<1>7. Registered' = Registered
  BY DEF Registered
<1> QED
  BY <1>1, <1>2, <1>4, <1>5, <1>6, <1>7 DEF IInv, QueueInv

\* What the invariant says of a lane on its own.
LEMMA LaneShape ==
    ASSUME IInv, NEW o \in Lanes
    PROVE  /\ lane[o] \in QueueLaneState
           /\ lane[o].serving_ticket \in Nat /\ lane[o].next_ticket \in Nat
           /\ lane[o].serving_ticket <= lane[o].next_ticket
           /\ \A n \in lane[o].cancelled :
                  lane[o].serving_ticket < n /\ n < lane[o].next_ticket
           /\ AdvanceCancelled(lane[o]) = lane[o]
<1>1. lane[o] \in QueueLaneState
  BY DEF IInv, TypeOK
<1>2. LaneOK(o)
  BY DEF IInv, QueueInv
<1> QED
  BY <1>1, <1>2, AdvanceCancelledIdle DEF LaneOK, QueueLaneState

\* A turn of the loop of wait_until_head keeps the invariant.
LEMMA WaitUntilHeadIInv ==
    ASSUME IInv, NEW t \in Threads, WaitUntilHead(t)
    PROVE  IInv'
<1>1. at[t] \in Lanes /\ pc[t] \in Queued
  BY DEF IInv, QueueInv, CallerOK, WaitUntilHead, Queued, PC
<1>2. lane' = lane
  <2>1. CASE lane[at[t]].poisoned
    BY <2>1 DEF WaitUntilHead
  <2>2. CASE ~lane[at[t]].poisoned
    <3>1. lane' = [lane EXCEPT ![at[t]] = lane[at[t]]]
      BY <1>1, <2>2, LaneShape DEF WaitUntilHead
    <3> QED
      BY <3>1 DEF IInv, TypeOK
  <2> QED
    BY <2>1, <2>2
<1>3. /\ UNCHANGED <<registry, notifying, key, at, ticket, arrivals, poisons, expired>>
      /\ \E p \in {"head", "dropping", "sleeping"} :
            /\ pc' = [pc EXCEPT ![t] = p]
            /\ p = "head" => ticket[t] = lane[at[t]].serving_ticket
            /\ p = "sleeping" => ticket[t] # lane[at[t]].serving_ticket
  BY <1>2 DEF WaitUntilHead
<1>4. pc \in [Threads -> PC] /\ expired' \in [Threads -> BOOLEAN]
  BY <1>3 DEF IInv, TypeOK
<1> QED
  BY SMTT(30), <1>1, <1>2, <1>3, <1>4, PcStep DEF Queued, Admitted, PC

\* The steps of a queued caller that only move it along.
LEMMA CallerMovesIInv ==
    ASSUME IInv, NEW t \in Threads,
           \/ WaitSliceEnds(t) \/ AttemptAcquired(t) \/ AttemptBlocked(t)
           \/ AttemptFailed(t) \/ WaitForRetry(t) \/ RetryIntervalEnds(t)
    PROVE  IInv'
<1> USE DEF WaitSliceEnds, AttemptAcquired, AttemptBlocked, AttemptFailed,
            WaitForRetry, RetryIntervalEnds
<1>1. CallerOK(t)
  BY DEF IInv, QueueInv
<1>2. /\ UNCHANGED <<registry, lane, notifying, key, at, ticket, arrivals, poisons, expired>>
      /\ \E p \in {"waiting", "dropping", "completing", "blocked", "retrying", "head"} :
            /\ pc' = [pc EXCEPT ![t] = p]
            /\ p \in Admitted => pc[t] \in Admitted
      /\ pc[t] \in {"sleeping", "head", "blocked", "retrying"}
  BY DEF Admitted
<1>3. pc \in [Threads -> PC] /\ expired' \in [Threads -> BOOLEAN]
  BY <1>2 DEF IInv, TypeOK
<1> QED
  BY SMTT(30), <1>1, <1>2, <1>3, PcStep DEF CallerOK, Queued, Admitted, PC

\* notify_all on one lane keeps the invariant.
LEMMA NotifyLaneIInv ==
    ASSUME IInv, NEW o \in Lanes, NotifyLane(o)
    PROVE  IInv'
<1>1. \A u \in Threads : CallerOK(u)
  BY DEF IInv, QueueInv
<1>2. /\ UNCHANGED <<registry, lane, key, at, ticket, arrivals, poisons, expired>>
      /\ pc' \in [Threads -> PC]
      /\ \A u \in Threads :
            \/ pc'[u] = pc[u]
            \/ pc[u] = "sleeping" /\ pc'[u] = "waiting"
            \/ pc[u] = "retrying" /\ pc'[u] \in {"dropping", "head"}
  BY DEF NotifyLane, Notified, IInv, TypeOK, PC
<1>3. \A u \in Threads : pc'[u] \in Queued <=> pc[u] \in Queued
  BY <1>2 DEF Queued, PC
<1>4. TypeOK'
  BY <1>2 DEF IInv, TypeOK, NotifyLane
<1>5. \A x \in Lanes : Owners(x)' = Owners(x)
  BY <1>2, <1>3 DEF Owners
<1>6. \A x \in Lanes : LaneOK(x)'
  BY SMTT(30), <1>2, <1>5 DEF IInv, QueueInv, LaneOK
<1>7. ASSUME NEW u \in Threads PROVE CallerOK(u)'
  BY <1>1, <1>2 DEF CallerOK, Queued, Admitted, PC
<1>8. notifying' \subseteq Registered'
  BY SMTT(30), <1>2 DEF IInv, QueueInv, NotifyLane, Registered
<1> QED
  BY <1>2, <1>3, <1>4, <1>6, <1>7, <1>8 DEF IInv, QueueInv

\* prune_empty_lanes takes no lane away that a caller or a notifier holds, and
\* changes the tickets of no lane it keeps.
LEMMA PruningKeepsHeldLanes ==
    ASSUME IInv
    PROVE  /\ PrunedRegistry \in [Keys -> Lanes \cup {NoLane}]
           /\ PrunedLane \in [Lanes -> QueueLaneState]
           /\ \A k \in Keys : PrunedRegistry[k] \in {registry[k], NoLane}
           /\ \A k \in Keys : HeldElsewhere(registry[k]) => PrunedRegistry[k] = registry[k]
           /\ \A o \in Lanes : HeldElsewhere(o) =>
                 /\ PrunedLane[o].next_ticket = lane[o].next_ticket
                 /\ PrunedLane[o].serving_ticket = lane[o].serving_ticket
                 /\ PrunedLane[o].cancelled = lane[o].cancelled
           /\ \A o \in Lanes :
                 \/ /\ PrunedLane[o].next_ticket = lane[o].next_ticket
                    /\ PrunedLane[o].serving_ticket = lane[o].serving_ticket
                    /\ PrunedLane[o].cancelled = lane[o].cancelled
                 \/ PrunedLane[o] = EmptyLane /\ ~HeldElsewhere(o)
<1>1. ASSUME NEW o \in Lanes
      PROVE  /\ lane[o] \in QueueLaneState
             /\ Repaired(lane[o]) \in QueueLaneState
             /\ Repaired(lane[o]).next_ticket = lane[o].next_ticket
             /\ Repaired(lane[o]).serving_ticket = lane[o].serving_ticket
             /\ Repaired(lane[o]).cancelled = lane[o].cancelled
  BY LaneShape, RepairedFields
<1>2. EmptyLane \in QueueLaneState
  BY DEF EmptyLane, QueueLaneState
<1>3. /\ PrunedRegistry \in [Keys -> Lanes \cup {NoLane}]
      /\ \A k \in Keys : PrunedRegistry[k] \in {registry[k], NoLane}
  BY DEF PrunedRegistry, IInv, TypeOK
<1>4. \A k \in Keys : HeldElsewhere(registry[k]) => PrunedRegistry[k] = registry[k]
  BY DEF PrunedRegistry, Prunable
<1>5. ASSUME NEW o \in Lanes
      PROVE  PrunedLane[o] \in {lane[o], Repaired(lane[o])}
             \/ (PrunedLane[o] = EmptyLane /\ ~HeldElsewhere(o))
  BY DEF PrunedLane
<1>6. PrunedLane \in [Lanes -> QueueLaneState]
  <2>1. \A o \in Lanes : PrunedLane[o] \in QueueLaneState
    BY <1>1, <1>2, <1>5
  <2> QED
    BY <2>1 DEF PrunedLane
<1> QED
  BY <1>1, <1>3, <1>4, <1>5, <1>6

\* The first critical section of enqueue keeps the invariant.
LEMMA EnqueueLookupIInv ==
    ASSUME IInv, NEW t \in Threads, NEW k \in Keys, EnqueueLookup(t, k)
    PROVE  IInv'
<1> USE QueueAssumption
<1>1. /\ pc[t] = "idle" /\ at[t] = NoLane /\ key[t] = NoKey
      /\ UNCHANGED <<notifying, ticket, poisons>>
      /\ lane' = PrunedLane
      /\ arrivals' = arrivals + 1
      /\ expired' = [expired EXCEPT ![t] = FALSE]
  BY DEF EnqueueLookup, IInv, QueueInv, CallerOK
<1>2. \/ /\ registry' = PrunedRegistry
         /\ UNCHANGED <<at, pc, key>>
      \/ /\ pc' = [pc EXCEPT ![t] = "joining"]
         /\ key' = [key EXCEPT ![t] = k]
         /\ PrunedRegistry[k] # NoLane
         /\ registry' = PrunedRegistry
         /\ at' = [at EXCEPT ![t] = PrunedRegistry[k]]
      \/ /\ pc' = [pc EXCEPT ![t] = "joining"]
         /\ key' = [key EXCEPT ![t] = k]
         /\ PrunedRegistry[k] = NoLane
         /\ \E o \in Lanes :
               /\ \A j \in Keys : PrunedRegistry[j] # o
               /\ registry' = [PrunedRegistry EXCEPT ![k] = o]
               /\ at' = [at EXCEPT ![t] = o]
  BY DEF EnqueueLookup
<1>3. /\ PrunedRegistry \in [Keys -> Lanes \cup {NoLane}]
      /\ \A j \in Keys : PrunedRegistry[j] \in {registry[j], NoLane}
      /\ \A j \in Keys : HeldElsewhere(registry[j]) => PrunedRegistry[j] = registry[j]
  BY PruningKeepsHeldLanes
<1>4. TypeOK'
  <2>1. PrunedLane \in [Lanes -> QueueLaneState]
    BY PruningKeepsHeldLanes
  <2>2. TypeOK
    BY DEF IInv
  <2> QED
    BY SMTT(30), <1>1, <1>2, <1>3, <2>1, <2>2 DEF TypeOK, PC
<1>5. \A u \in Threads : u # t => pc'[u] = pc[u] /\ key'[u] = key[u] /\ at'[u] = at[u]
  BY <1>2 DEF IInv, TypeOK
<1>6. pc'[t] \notin Queued /\ pc[t] \notin Queued
  BY SMTT(30), <1>1, <1>2 DEF IInv, TypeOK, Queued
<1>7. \A o \in Lanes : Owners(o)' = Owners(o)
  BY <1>5, <1>6 DEF Owners
<1>8. \A j \in Keys : PrunedRegistry[j] # NoLane => registry'[j] = PrunedRegistry[j]
  BY <1>2, <1>3
<1>9. ASSUME NEW o \in Lanes PROVE LaneOK(o)'
  <2>1. LaneOK(o)
    BY DEF IInv, QueueInv
  <2>2. CASE /\ lane'[o].next_ticket = lane[o].next_ticket
             /\ lane'[o].serving_ticket = lane[o].serving_ticket
             /\ lane'[o].cancelled = lane[o].cancelled
    BY SMTT(30), <1>1, <1>7, <2>1, <2>2 DEF LaneOK
  <2>3. CASE lane'[o] = EmptyLane
    BY SMTT(30), <2>3 DEF LaneOK, EmptyLane
  <2> QED
    BY <1>1, <2>2, <2>3, PruningKeepsHeldLanes
<1>10. ASSUME NEW u \in Threads, u # t PROVE CallerOK(u)'
  <2>1. CallerOK(u)
    BY DEF IInv, QueueInv
  <2>2. pc'[u] = pc[u] /\ key'[u] = key[u] /\ at'[u] = at[u] /\ ticket'[u] = ticket[u]
    BY <1>1, <1>5, <1>10
  <2>3. CASE pc[u] = "idle"
    BY <2>1, <2>2, <2>3 DEF CallerOK, Queued, Admitted
  <2>4. CASE pc[u] # "idle"
    <3>1. /\ key[u] \in Keys /\ at[u] \in Lanes /\ registry[key[u]] = at[u]
          /\ HeldElsewhere(at[u])
      BY <2>1, <2>4 DEF CallerOK, HeldElsewhere
    <3>2. registry'[key[u]] = at[u]
      BY <1>3, <1>8, <3>1
    <3>3. /\ lane'[at[u]].next_ticket = lane[at[u]].next_ticket
          /\ lane'[at[u]].serving_ticket = lane[at[u]].serving_ticket
          /\ lane'[at[u]].cancelled = lane[at[u]].cancelled
      BY <1>1, <3>1, PruningKeepsHeldLanes
    <3> QED
      BY <2>1, <2>2, <3>1, <3>2, <3>3, CallerKept
  <2> QED
    BY <2>3, <2>4
<1>11. CallerOK(t)'
  <2>1. pc'[t] = "idle" => at'[t] = NoLane /\ key'[t] = NoKey
    BY <1>1, <1>2 DEF IInv, TypeOK
  <2>2. pc'[t] # "idle" => /\ key'[t] \in Keys
                           /\ at'[t] \in Lanes
                           /\ registry'[key'[t]] = at'[t]
    BY SMTT(30), <1>1, <1>2, <1>3 DEF IInv, TypeOK
  <2>3. pc'[t] \in {"idle", "joining"}
    BY <1>1, <1>2 DEF IInv, TypeOK
  <2> QED
    BY <2>1, <2>2, <2>3 DEF CallerOK, Queued, Admitted
<1>12. \A x, y \in Keys : registry'[x] = registry'[y] /\ registry'[x] # NoLane => x = y
  <2>1. \A x, y \in Keys : registry[x] = registry[y] /\ registry[x] # NoLane => x = y
    BY DEF IInv, QueueInv
  <2>2. \A x, y \in Keys : PrunedRegistry[x] = PrunedRegistry[y] /\ PrunedRegistry[x] # NoLane => x = y
    BY <1>3, <2>1
  <2> QED
    BY SMTT(30), <1>2, <1>3, <2>2
<1>13. notifying' \subseteq Registered'
  <2>1. ASSUME NEW o \in notifying PROVE o \in Registered'
    <3>1. PICK j \in Keys : registry[j] = o /\ o # NoLane
      BY SMTT(30) DEF IInv, QueueInv, Registered
    <3>2. registry'[j] = o
      BY <1>3, <1>8, <3>1, <2>1 DEF HeldElsewhere
    <3> QED
      BY <3>1, <3>2 DEF Registered
  <2> QED
    BY <1>1, <2>1
<1>14. \A x, y \in Threads :
          (x # y /\ at'[x] = at'[y] /\ pc'[x] \in Queued /\ pc'[y] \in Queued)
              => ticket'[x] # ticket'[y]
  BY SMTT(30), <1>1, <1>5, <1>6 DEF IInv, QueueInv
<1> QED
  BY <1>4, <1>9, <1>10, <1>11, <1>12, <1>13, <1>14 DEF IInv, QueueInv

\* A refused enqueue keeps the invariant.
LEMMA EnqueueRefusedIInv ==
    ASSUME IInv, NEW t \in Threads, EnqueueRefused(t)
    PROVE  IInv'
<1>1. /\ pc[t] = "joining"
      /\ pc' = [pc EXCEPT ![t] = "idle"]
      /\ key' = [key EXCEPT ![t] = NoKey]
      /\ at' = [at EXCEPT ![t] = NoLane]
      /\ expired' = [expired EXCEPT ![t] = FALSE]
      /\ UNCHANGED <<registry, lane, notifying, ticket, arrivals, poisons>>
  BY DEF EnqueueRefused
<1>2. TypeOK'
  BY <1>1 DEF IInv, TypeOK, PC
<1>3. /\ \A u \in Threads : u # t => pc'[u] = pc[u] /\ key'[u] = key[u] /\ at'[u] = at[u]
      /\ pc'[t] = "idle" /\ at'[t] = NoLane /\ key'[t] = NoKey
  BY <1>1 DEF IInv, TypeOK
<1>4. pc'[t] \notin Queued /\ pc[t] \notin Queued
  BY <1>1, <1>3 DEF Queued
<1>5. \A o \in Lanes : Owners(o)' = Owners(o)
  BY <1>3, <1>4 DEF Owners
<1>6. \A o \in Lanes : LaneOK(o)'
  BY SMTT(30), <1>1, <1>5 DEF IInv, QueueInv, LaneOK
<1>7. ASSUME NEW u \in Threads PROVE CallerOK(u)'
  <2>1. CallerOK(u)
    BY DEF IInv, QueueInv
  <2>2. CASE u = t
    BY <1>1, <1>3, <1>4, <2>2 DEF CallerOK, Queued, Admitted
  <2>3. CASE u # t
    BY <1>1, <1>3, <2>1, <2>3, CallerKept
  <2> QED
    BY <2>2, <2>3
<1>8. Registered' = Registered
  BY <1>1 DEF Registered
<1> QED
  BY SMTT(30), <1>1, <1>2, <1>3, <1>4, <1>6, <1>7, <1>8 DEF IInv, QueueInv

\* Issuing a ticket keeps the invariant.
LEMMA EnqueueTicketIInv ==
    ASSUME IInv, NEW t \in Threads, EnqueueTicket(t)
    PROVE  IInv'
<1> DEFINE o == at[t]
           l == lane[at[t]]
           r == [l EXCEPT !.next_ticket = @ + 1, !.waiting = @ + 1]
<1>1. /\ pc[t] = "joining"
      /\ o \in Lanes /\ key[t] \in Keys /\ registry[key[t]] = o
  BY DEF EnqueueTicket, IInv, QueueInv, CallerOK
<1>2. /\ l \in QueueLaneState /\ AdvanceCancelled(l) = l
      /\ l.serving_ticket \in Nat /\ l.next_ticket \in Nat
      /\ l.serving_ticket <= l.next_ticket
      /\ \A n \in l.cancelled : l.serving_ticket < n /\ n < l.next_ticket
  BY <1>1, LaneShape
<1>3. /\ ticket' = [ticket EXCEPT ![t] = l.next_ticket]
      /\ lane' = [lane EXCEPT ![o] = r]
      /\ pc' = [pc EXCEPT ![t] = "waiting"]
      /\ UNCHANGED <<registry, notifying, key, at, expired, arrivals, poisons>>
  BY <1>2 DEF EnqueueTicket
<1>4. /\ r \in QueueLaneState
      /\ r.next_ticket = l.next_ticket + 1
      /\ r.serving_ticket = l.serving_ticket
      /\ r.cancelled = l.cancelled
  <2> HIDE DEF l
  <2>1. l.next_ticket + 1 \in Nat /\ l.waiting + 1 \in Nat
    BY SMTT(30), <1>2 DEF QueueLaneState
  <2> QED
    BY <1>2, <2>1 DEF QueueLaneState
<1> HIDE DEF r
<1>5. TypeOK'
  BY <1>1, <1>2, <1>3, <1>4 DEF IInv, TypeOK, PC
<1>6. /\ \A x \in Lanes : x # o => lane'[x] = lane[x]
      /\ lane'[o] = r
      /\ \A u \in Threads : u # t => pc'[u] = pc[u] /\ ticket'[u] = ticket[u]
      /\ pc'[t] = "waiting" /\ ticket'[t] = l.next_ticket
  BY <1>1, <1>3 DEF IInv, TypeOK
<1>7. pc'[t] \in Queued /\ pc[t] \notin Queued
  BY <1>1, <1>6 DEF Queued, PC
<1>8. /\ \A x \in Lanes : x # o => Owners(x)' = Owners(x)
      /\ Owners(o)' = Owners(o) \cup {t}
      /\ t \notin Owners(o)
  BY <1>3, <1>6, <1>7 DEF Owners
<1>9. ASSUME NEW x \in Lanes PROVE LaneOK(x)'
  <2>1. LaneOK(x)
    BY DEF IInv, QueueInv
  <2>2. CASE x # o
    <3>1. \A u \in Owners(x) : ticket'[u] = ticket[u]
      BY <1>6, <1>7 DEF Owners
    <3> QED
      BY SMTT(30), <1>6, <1>8, <2>1, <2>2, <3>1 DEF LaneOK
  <2>3. CASE x = o
    <3>1. ASSUME NEW n \in l.serving_ticket .. ((l.next_ticket + 1) - 1)
          PROVE  n \in l.cancelled \/ \E u \in Owners(o)' : ticket'[u] = n
      <4>1. CASE n = l.next_ticket
        BY <1>6, <1>8, <4>1
      <4>2. CASE n # l.next_ticket
        <5>1. n \in l.serving_ticket .. (l.next_ticket - 1)
          BY SMTT(30), <1>2, <4>2
        <5>2. n \in l.cancelled \/ \E u \in Owners(o) : ticket[u] = n
          BY <2>1, <2>3, <5>1 DEF LaneOK
        <5>3. \A u \in Owners(o) : u \in Threads /\ u # t
          BY <1>8 DEF Owners
        <5> QED
          BY <1>6, <1>8, <5>2, <5>3
      <4> QED
        BY <4>1, <4>2
    <3>2. \A n \in r.serving_ticket .. (r.next_ticket - 1) :
              n \in r.cancelled \/ \E u \in Owners(o)' : ticket'[u] = n
      BY <1>4, <3>1
    <3>3. /\ r.serving_ticket <= r.next_ticket
          /\ \A n \in r.cancelled : r.serving_ticket < n /\ n < r.next_ticket
      <4> HIDE DEF l
      <4>1. l.cancelled \in SUBSET Nat
        BY <1>2 DEF QueueLaneState
      <4> QED
        BY SMTT(30), <1>2, <1>4, <4>1
    <3> QED
      BY <1>3, <1>6, <2>3, <3>2, <3>3 DEF LaneOK, Owners
  <2> QED
    BY <2>2, <2>3
<1>10. ASSUME NEW u \in Threads PROVE CallerOK(u)'
  <2>1. CallerOK(u)
    BY DEF IInv, QueueInv
  <2>2. CASE u = t
    <3>1. l.next_ticket \notin l.cancelled
      BY SMTT(30), <1>2
    <3>2. /\ r.serving_ticket <= l.next_ticket
          /\ l.next_ticket < r.next_ticket
          /\ l.next_ticket \notin r.cancelled
      <4> HIDE DEF l
      <4> QED
        BY SMTT(30), <1>2, <1>4, <3>1
    <3>3. at'[t] = o /\ key'[t] = key[t] /\ registry' = registry
      BY <1>3
    <3>4. "waiting" \notin Admitted
      BY DEF Admitted
    <3> HIDE DEF o, l
    <3> QED
      BY <1>1, <1>6, <2>2, <3>2, <3>3, <3>4 DEF CallerOK
  <2>3. CASE u # t
    <3>1. CASE at[u] = o /\ pc[u] \in Queued
      <4>1. ticket[u] \in Nat
        BY DEF IInv, TypeOK
      <4>2. /\ l.serving_ticket <= ticket[u]
            /\ ticket[u] < l.next_ticket
            /\ ticket[u] \notin l.cancelled
        BY <2>1, <3>1 DEF CallerOK
      <4>3. /\ r.serving_ticket <= ticket[u]
            /\ ticket[u] < r.next_ticket
            /\ ticket[u] \notin r.cancelled
        <5> HIDE DEF l
        <5> QED
          BY SMTT(30), <1>2, <1>4, <4>1, <4>2
      <4>4. /\ pc'[u] = pc[u] /\ key'[u] = key[u] /\ at'[u] = o /\ ticket'[u] = ticket[u]
            /\ registry' = registry /\ lane'[o] = r
        BY <1>3, <1>6, <2>3, <3>1
      <4> QED
        BY <1>4, <2>1, <3>1, <4>3, <4>4 DEF CallerOK
    <3>0. /\ pc'[u] = pc[u] /\ key'[u] = key[u] /\ at'[u] = at[u] /\ ticket'[u] = ticket[u]
          /\ registry' = registry
      BY <1>3, <1>6, <2>3
    <3>2. CASE pc[u] \notin Queued
      BY <2>1, <3>0, <3>2, CallerKept
    <3>3. CASE at[u] # o /\ pc[u] \in Queued
      <4>1. at[u] \in Lanes
        BY <2>1, <3>3 DEF CallerOK, Queued
      <4>2. lane'[at[u]] = lane[at[u]]
        BY <1>3, <1>6, <3>3, <4>1
      <4> QED
        BY <2>1, <3>0, <4>2, CallerKept
    <3> QED
      BY <3>1, <3>2, <3>3
  <2> QED
    BY SMTT(30), <2>2, <2>3
<1>11. \A x, y \in Threads :
          (x # y /\ at'[x] = at'[y] /\ pc'[x] \in Queued /\ pc'[y] \in Queued)
              => ticket'[x] # ticket'[y]
  <2>0. ticket \in [Threads -> Nat]
    BY DEF IInv, TypeOK
  <2>1. \A u \in Threads : u # t /\ at[u] = o /\ pc[u] \in Queued => ticket[u] < l.next_ticket
    BY DEF IInv, QueueInv, CallerOK
  <2>2. \A u \in Threads : u # t /\ at[u] = o /\ pc[u] \in Queued => ticket[u] # l.next_ticket
    <3> HIDE DEF o, l
    <3> QED
      BY SMTT(30), <1>2, <2>0, <2>1
  <2> QED
    BY SMTT(30), <1>3, <1>6, <2>2 DEF IInv, QueueInv
<1>12. notifying' \subseteq Registered'
  BY <1>3 DEF IInv, QueueInv, Registered
<1> QED
  BY <1>3, <1>5, <1>9, <1>10, <1>11, <1>12 DEF IInv, QueueInv

-----------------------------------------------------------------------------
(* Leaving a lane and notifying keep the invariant; what follows from it.  *)

\* finish keeps the invariant, for the head of the lane and for a caller that
\* gives up anywhere in it.
LEMMA FinishIInv ==
    ASSUME IInv, NEW t \in Threads, NEW c \in BOOLEAN,
           pc[t] \in Queued, c \/ pc[t] \in Admitted,
           Finish(t, c)
    PROVE  IInv'
<1>0. CallerOK(t)
  BY DEF IInv, QueueInv
<1>1. PICK o \in Lanes : o = at[t]
  BY <1>0 DEF CallerOK, Queued
<1> DEFINE n == ticket[t]
           s == lane[o]
           l == Repaired(s)
           r == FinishedLane(l, n, c)
<1>2. /\ n \in Nat
      /\ s.serving_ticket <= n /\ n < s.next_ticket /\ n \notin s.cancelled
      /\ n = s.serving_ticket \/ c
  BY <1>0, <1>1 DEF CallerOK, IInv, TypeOK
<1>3. /\ s \in QueueLaneState
      /\ s.serving_ticket \in Nat /\ s.next_ticket \in Nat
      /\ s.serving_ticket <= s.next_ticket
      /\ \A x \in s.cancelled : s.serving_ticket < x /\ x < s.next_ticket
  BY <1>1, LaneShape
<1>4. /\ l \in QueueLaneState
      /\ l.serving_ticket = s.serving_ticket /\ l.next_ticket = s.next_ticket
      /\ l.cancelled = s.cancelled
  <2> HIDE DEF s
  <2> QED
    BY <1>3, RepairedFields
<1>5. /\ r \in QueueLaneState
      /\ r.next_ticket = s.next_ticket
      /\ s.serving_ticket <= r.serving_ticket
      /\ r.serving_ticket <= r.next_ticket
      /\ \A x \in r.cancelled : r.serving_ticket < x /\ x < r.next_ticket
      /\ r.serving_ticket > n \/ n \in r.cancelled
      /\ n > s.serving_ticket => r.serving_ticket = s.serving_ticket
      /\ r.cancelled \subseteq s.cancelled \cup {n}
      /\ \A x \in s.cancelled : r.serving_ticket <= x => x \in r.cancelled
      /\ \A x \in Nat : s.serving_ticket <= x /\ x < r.serving_ticket
                            => x = n \/ x \in s.cancelled
  <2> HIDE DEF s, l, n
  <2> QED
    BY SMTT(30), <1>2, <1>3, <1>4, FinishedLaneFields
<1>6. /\ lane' = [lane EXCEPT ![o] = r]
      /\ pc' = [Notified(o) EXCEPT ![t] = "idle"]
      /\ key' = [key EXCEPT ![t] = NoKey]
      /\ at' = [at EXCEPT ![t] = NoLane]
      /\ ticket' = [ticket EXCEPT ![t] = 0]
      /\ expired' = [expired EXCEPT ![t] = FALSE]
      /\ UNCHANGED <<registry, notifying, arrivals, poisons>>
  BY <1>1 DEF Finish
<1> HIDE DEF l, r
<1>7. /\ lane'[o] = r
      /\ \A x \in Lanes : x # o => lane'[x] = lane[x]
      /\ pc'[t] = "idle" /\ at'[t] = NoLane /\ key'[t] = NoKey
      /\ \A u \in Threads : u # t => /\ key'[u] = key[u] /\ at'[u] = at[u]
                                     /\ ticket'[u] = ticket[u]
  BY <1>6 DEF IInv, TypeOK, Notified
<1>8. ASSUME NEW u \in Threads, u # t
      PROVE  \/ pc'[u] = pc[u] /\ (at[u] = o => pc[u] # "sleeping")
             \/ at[u] = o /\ pc[u] = "sleeping" /\ pc'[u] = "waiting"
             \/ at[u] = o /\ pc[u] = "retrying" /\ pc'[u] \in {"head", "dropping"}
  BY <1>6, <1>8 DEF Notified
<1>9. \A u \in Threads : u # t => (pc'[u] \in Queued <=> pc[u] \in Queued)
  BY <1>8 DEF Queued, PC
<1>10. TypeOK'
  <2>1. \A u \in Threads : pc'[u] \in PC
    BY <1>7, <1>8 DEF IInv, TypeOK, PC
  <2>2. pc' \in [Threads -> PC]
    BY <1>6, <2>1 DEF Notified
  <2> QED
    BY <1>5, <1>6, <2>2 DEF IInv, TypeOK
<1>11. /\ \A x \in Lanes : x # o => Owners(x)' = Owners(x)
       /\ Owners(o)' = Owners(o) \ {t}
  BY <1>1, <1>7, <1>9, QueueAssumption DEF Owners, Queued
<1>12. ASSUME NEW x \in Lanes PROVE LaneOK(x)'
  <2>1. LaneOK(x)
    BY DEF IInv, QueueInv
  <2>2. CASE x # o
    <3>1. \A u \in Owners(x) : ticket'[u] = ticket[u]
      BY <1>1, <1>7, <2>2 DEF Owners
    <3> QED
      BY SMTT(30), <1>7, <1>11, <2>1, <2>2, <3>1 DEF LaneOK
  <2>3. CASE x = o
    <3>1. ASSUME NEW m \in r.serving_ticket .. (r.next_ticket - 1)
          PROVE  m \in r.cancelled \/ \E u \in Owners(o)' : ticket'[u] = m
      <4>0. m \in Nat /\ r.serving_ticket \in Nat /\ r.serving_ticket <= m
        BY SMTT(30), <1>5 DEF QueueLaneState
      <4>1. m \in s.serving_ticket .. (s.next_ticket - 1)
        BY SMTT(30), <1>3, <1>5, <4>0
      <4>2. m \in s.cancelled \/ \E u \in Owners(o) : ticket[u] = m
        BY <2>1, <2>3, <4>1 DEF LaneOK
      <4>3. CASE m \in s.cancelled
        BY <1>5, <4>0, <4>3
      <4>4. CASE \E u \in Owners(o) : ticket[u] = m
        <5>1. PICK u \in Owners(o) : ticket[u] = m
          BY <4>4
        <5>2. CASE u = t
          BY SMTT(30), <1>2, <1>5, <4>0, <5>1, <5>2
        <5>3. CASE u # t
          <6>1. u \in Owners(o)' /\ u \in Threads
            BY <1>11, <5>3 DEF Owners
          <6> QED
            BY <1>7, <5>1, <5>3, <6>1
        <5> QED
          BY <5>2, <5>3
      <4> QED
        BY <4>2, <4>3, <4>4
    <3> QED
      BY <1>5, <1>7, <2>3, <3>1 DEF LaneOK
  <2> QED
    BY <2>2, <2>3
<1>13. ASSUME NEW u \in Threads PROVE CallerOK(u)'
  <2>1. CallerOK(u)
    BY DEF IInv, QueueInv
  <2>2. CASE u = t
    BY <1>7, <2>2 DEF CallerOK, Queued, Admitted
  <2>3. CASE u # t /\ pc[u] \notin Queued
    <3>1. pc[u] # "sleeping" /\ pc[u] # "retrying"
      BY <2>3 DEF Queued, PC
    <3>2. /\ pc'[u] = pc[u] /\ key'[u] = key[u] /\ at'[u] = at[u] /\ ticket'[u] = ticket[u]
      BY <1>7, <1>8, <2>3, <3>1
    <3>3. registry' = registry
      BY <1>6
    <3> QED
      BY <2>1, <2>3, <3>2, <3>3, CallerKept
  <2>4. CASE u # t /\ pc[u] \in Queued /\ at[u] # o
    <3>1. /\ pc'[u] = pc[u] /\ key'[u] = key[u] /\ at'[u] = at[u] /\ ticket'[u] = ticket[u]
      BY <1>7, <1>8, <2>4
    <3>2. at[u] \in Lanes
      BY <2>1, <2>4 DEF CallerOK, Queued
    <3>3. lane'[at[u]] = lane[at[u]]
      BY <1>7, <2>4, <3>2
    <3>4. registry' = registry
      BY SMTT(30), <1>6
    <3> QED
      BY <2>1, <3>1, <3>3, <3>4, CallerKept
  <2>5. CASE u # t /\ pc[u] \in Queued /\ at[u] = o
    <3>1. /\ ticket[u] \in Nat /\ s.serving_ticket <= ticket[u]
          /\ ticket[u] < s.next_ticket /\ ticket[u] \notin s.cancelled
      BY <2>1, <2>5 DEF CallerOK, IInv, TypeOK
    <3>2. ticket[u] # n
      BY <1>1, <2>5 DEF IInv, QueueInv
    <3>3. r.serving_ticket \in Nat
      BY <1>5 DEF QueueLaneState
    <3>4. /\ r.serving_ticket <= ticket[u]
          /\ ticket[u] < r.next_ticket
          /\ ticket[u] \notin r.cancelled
      BY SMTT(30), <1>3, <1>5, <3>1, <3>2, <3>3
    <3>5. pc[u] \in Admitted => ticket[u] = r.serving_ticket
      <4>1. pc[u] \in Admitted => ticket[u] = s.serving_ticket
        BY <2>1, <2>5 DEF CallerOK
      <4> QED
        BY SMTT(30), <1>2, <1>3, <1>5, <3>2, <4>1
    <3>6. /\ pc'[u] \in Queued /\ pc'[u] # "sleeping"
          /\ pc'[u] \in Admitted => pc[u] \in Admitted
      BY <1>8, <2>5 DEF Queued, PC, Admitted
    <3>7. /\ key'[u] = key[u] /\ at'[u] = o /\ ticket'[u] = ticket[u]
      BY <1>7, <2>5
    <3>8. /\ key[u] \in Keys /\ registry'[key[u]] = o
      BY <1>6, <2>1, <2>5 DEF CallerOK, Queued
    <3> QED
      BY <1>7, <3>4, <3>5, <3>6, <3>7, <3>8 DEF CallerOK, Queued
  <2> QED
    BY <2>2, <2>3, <2>4, <2>5
<1>14. \A x, y \in Threads :
          (x # y /\ at'[x] = at'[y] /\ pc'[x] \in Queued /\ pc'[y] \in Queued)
              => ticket'[x] # ticket'[y]
  <2> SUFFICES ASSUME NEW x \in Threads, NEW y \in Threads, x # y,
                      at'[x] = at'[y], pc'[x] \in Queued, pc'[y] \in Queued
               PROVE  ticket'[x] # ticket'[y]
    OBVIOUS
  <2>1. x # t /\ y # t
    BY <1>7 DEF Queued
  <2>2. /\ at[x] = at[y] /\ pc[x] \in Queued /\ pc[y] \in Queued
        /\ ticket'[x] = ticket[x] /\ ticket'[y] = ticket[y]
    BY <1>7, <1>9, <2>1
  <2> QED
    BY <2>2 DEF IInv, QueueInv
<1>15. notifying' \subseteq Registered'
  BY <1>6 DEF IInv, QueueInv, Registered
<1> QED
  BY <1>6, <1>10, <1>12, <1>13, <1>14, <1>15 DEF IInv, QueueInv

\* Cloning the registered lanes in notify_all_lanes keeps the invariant.
LEMMA NotifySnapshotIInv ==
    ASSUME IInv, NotifySnapshot
    PROVE  IInv'
<1>1. TypeOK'
  BY SMTT(30) DEF IInv, TypeOK, NotifySnapshot, Registered
<1>2. \A o \in Lanes : LaneOK(o)'
  BY SMTT(30) DEF IInv, QueueInv, NotifySnapshot, LaneOK, Owners
<1>3. \A t \in Threads : CallerOK(t)'
  BY DEF IInv, QueueInv, NotifySnapshot, CallerOK
<1>4. notifying' \subseteq Registered'
  <2>1. Registered' = Registered
    BY DEF NotifySnapshot, Registered
  <2>2. notifying' = Registered
    BY DEF NotifySnapshot
  <2> QED
    BY <2>1, <2>2
<1>5. UNCHANGED <<pc, key, at, ticket, registry>>
  BY DEF NotifySnapshot
<1> QED
  BY <1>1, <1>2, <1>3, <1>4, <1>5 DEF IInv, QueueInv

\* A panic under a lane's lock keeps the invariant: it leaves a poisoned mutex.
LEMMA LanePoisonedIInv ==
    ASSUME IInv, NEW o \in Lanes, LanePoisoned(o)
    PROVE  IInv'
<1>1. /\ lane' = [lane EXCEPT ![o].poisoned = TRUE]
      /\ poisons' = poisons + 1
      /\ UNCHANGED <<registry, notifying, pc, key, at, ticket, expired, arrivals>>
  BY DEF LanePoisoned
<1>2. \A x \in Lanes :
         /\ lane'[x] \in QueueLaneState
         /\ lane'[x].next_ticket = lane[x].next_ticket
         /\ lane'[x].serving_ticket = lane[x].serving_ticket
         /\ lane'[x].cancelled = lane[x].cancelled
  BY <1>1 DEF IInv, TypeOK, QueueLaneState
<1>3. TypeOK'
  <2>1. DOMAIN lane' = Lanes /\ lane' = [x \in Lanes |-> lane'[x]]
    BY <1>1 DEF IInv, TypeOK
  <2>2. lane' \in [Lanes -> QueueLaneState]
    BY <1>2, <2>1
  <2> QED
    BY SMTT(30), <1>1, <2>2 DEF IInv, TypeOK
<1>4. \A x \in Lanes : LaneOK(x)'
  BY SMTT(30), <1>1, <1>2 DEF IInv, QueueInv, LaneOK, Owners
<1>5. ASSUME NEW u \in Threads PROVE CallerOK(u)'
  <2>1. CallerOK(u)
    BY DEF IInv, QueueInv
  <2>2. pc[u] \in Queued => at[u] \in Lanes
    BY <2>1 DEF CallerOK, Queued
  <2> QED
    BY <1>1, <1>2, <2>1, <2>2, CallerKept
<1> QED
  BY <1>1, <1>3, <1>4, <1>5 DEF IInv, QueueInv, Registered

\* Every step of the queue keeps the invariant.
LEMMA StepIInv == IInv /\ [Next]_vars => IInv'
<1> SUFFICES ASSUME IInv, [Next]_vars PROVE IInv'
  OBVIOUS
<1>1. CASE \E t \in Threads, k \in Keys : EnqueueLookup(t, k)
  BY <1>1, EnqueueLookupIInv
<1>2. CASE \E t \in Threads : CallerStep(t)
  <2>1. PICK t \in Threads : CallerStep(t)
    BY <1>2
  <2>2. CASE EnqueueRefused(t)
    BY <2>2, EnqueueRefusedIInv
  <2>3. CASE EnqueueTicket(t)
    BY <2>3, EnqueueTicketIInv
  <2>4. CASE WaitUntilHead(t)
    BY SMTT(30), <2>4, WaitUntilHeadIInv
  <2>5. CASE \/ WaitSliceEnds(t) \/ AttemptAcquired(t) \/ AttemptBlocked(t)
             \/ AttemptFailed(t) \/ WaitForRetry(t) \/ RetryIntervalEnds(t)
    BY <2>5, CallerMovesIInv
  <2>6. CASE Complete(t)
    BY <2>6, FinishIInv DEF Complete, Queued, Admitted, PC
  <2>7. CASE DropTicket(t)
    BY <2>7, FinishIInv DEF DropTicket, Queued, PC
  <2> QED
    BY <2>1, <2>2, <2>3, <2>4, <2>5, <2>6, <2>7 DEF CallerStep
<1>3. CASE \E t \in Threads : DeadlinePasses(t)
  BY <1>3, PcStep DEF DeadlinePasses, IInv, TypeOK
<1>4. CASE NotifySnapshot
  BY <1>4, NotifySnapshotIInv
<1>5. CASE \E o \in Lanes : NotifyLane(o) \/ LanePoisoned(o)
  BY <1>5, NotifyLaneIInv, LanePoisonedIInv
<1>6. CASE UNCHANGED vars
  BY <1>6, PcStep DEF vars, IInv, TypeOK
<1> QED
  BY <1>1, <1>2, <1>3, <1>4, <1>5, <1>6 DEF Next

\* The inductive invariant holds in every state of the queue.
THEOREM QueueInvariant == Spec => []IInv
  BY InitIInv, StepIInv, PTL DEF Spec

\* The state of the queue keeps its type: in particular no counter underflows.
THEOREM QueueTypes == Spec => []TypeOK
<1>1. IInv => TypeOK
  BY DEF IInv
<1> QED
  BY <1>1, QueueInvariant, PTL

\* Callers under one key are let through one at a time, oldest first, whatever
\* is pruned, created, cancelled, notified or poisoned meanwhile.
THEOREM HeadIsOldestAlways == Spec => []HeadIsOldest
<1>1. IInv => HeadIsOldest
  <2> SUFFICES ASSUME IInv, NEW t \in Threads, NEW u \in Threads,
                      t # u, pc[t] \in Admitted, pc[u] \in Queued, key[t] = key[u]
               PROVE  at[t] = at[u] /\ ticket[t] < ticket[u]
    BY DEF HeadIsOldest
  <2>1. CallerOK(t) /\ CallerOK(u) /\ pc[t] \in Queued
    BY DEF IInv, QueueInv, Admitted, Queued, PC
  <2>2. at[t] = at[u] /\ at[t] \in Lanes
    BY <2>1 DEF CallerOK, Queued
  <2>3. ticket[t] # ticket[u]
    BY <2>1, <2>2 DEF IInv, QueueInv
  <2>4. ticket[t] <= ticket[u]
    BY <2>1, <2>2 DEF CallerOK
  <2>5. ticket[t] \in Nat /\ ticket[u] \in Nat
    BY DEF IInv, TypeOK
  <2> QED
    BY SMTT(30), <2>2, <2>3, <2>4, <2>5
<1> QED
  BY <1>1, QueueInvariant, PTL

\* No caller sleeps through its own turn.
THEOREM SleeperNotServedAlways == Spec => []SleeperNotServed
<1>1. IInv => SleeperNotServed
  BY DEF IInv, QueueInv, CallerOK, SleeperNotServed
<1> QED
  BY <1>1, QueueInvariant, PTL

\* A lane with tickets left always serves one that somebody still owns.
THEOREM ServedTicketHasOwnerAlways == Spec => []ServedTicketHasOwner
<1>1. IInv => ServedTicketHasOwner
  <2> SUFFICES ASSUME IInv, NEW o \in Lanes,
                      lane[o].serving_ticket < lane[o].next_ticket
               PROVE  \E t \in Owners(o) : ticket[t] = lane[o].serving_ticket
    BY DEF ServedTicketHasOwner
  <2>1. lane[o].serving_ticket \in lane[o].serving_ticket .. (lane[o].next_ticket - 1)
    BY SMTT(30), LaneShape
  <2>2. lane[o].serving_ticket \notin lane[o].cancelled
    BY SMTT(30), LaneShape
  <2> QED
    BY <2>1, <2>2 DEF IInv, QueueInv, LaneOK
<1> QED
  BY <1>1, QueueInvariant, PTL

-----------------------------------------------------------------------------
(* The waiting counter.                                                    *)

\* The owners of a lane are finitely many.
LEMMA OwnersFinite ==
    ASSUME NEW o
    PROVE  IsFiniteSet(Owners(o)) /\ Cardinality(Owners(o)) \in Nat
<1>1. Owners(o) \in SUBSET Threads
  BY DEF Owners
<1>2. IsFiniteSet(Owners(o))
  BY <1>1, FS_Subset, QueueAssumption
<1> QED
  BY <1>2, FS_CardinalityType

\* What repair_lane_state computes from next_ticket, serving_ticket and the
\* cancelled set is the number of unfinished tickets: the owners' tickets are
\* exactly those of the range that were not cancelled.
LEMMA RebuiltCountIsOwners ==
    ASSUME IInv, NEW o \in Lanes
    PROVE  SaturatingSub(lane[o].next_ticket - lane[o].serving_ticket,
                         Cardinality(lane[o].cancelled)) = Cardinality(Owners(o))
<1> DEFINE a == lane[o].serving_ticket
           b == lane[o].next_ticket
           C == lane[o].cancelled
           R == a .. (b - 1)
           T == R \ C
           f == [u \in Owners(o) |-> ticket[u]]
<1>1. /\ a \in Nat /\ b \in Nat /\ a <= b
      /\ C \subseteq R
      /\ \A n \in R : n \in C \/ \E u \in Owners(o) : ticket[u] = n
  <2>1. LaneOK(o)
    BY SMTT(30) DEF IInv, QueueInv
  <2>2. C \in SUBSET Nat
    BY LaneShape DEF QueueLaneState
  <2> QED
    BY SMTT(30), <2>1, <2>2, LaneShape DEF LaneOK
<1>2. \A u \in Owners(o) : ticket[u] \in T
  <2> SUFFICES ASSUME NEW u \in Owners(o) PROVE ticket[u] \in T
    OBVIOUS
  <2>1. u \in Threads /\ at[u] = o /\ pc[u] \in Queued
    BY DEF Owners
  <2>2. ticket[u] \in Nat /\ a <= ticket[u] /\ ticket[u] < b /\ ticket[u] \notin C
    BY <2>1 DEF IInv, QueueInv, TypeOK, CallerOK
  <2> QED
    BY SMTT(30), <1>1, <2>2
<1>3. f \in Surjection(Owners(o), T)
  BY <1>1, <1>2 DEF Surjection
<1>4. f \in Injection(Owners(o), T)
  BY SMTT(30), <1>2 DEF Injection, IsInjective, IInv, QueueInv, Owners
<1>5. Cardinality(T) = Cardinality(Owners(o))
  <2> HIDE DEF f, T
  <2> QED
    BY <1>3, <1>4, OwnersFinite, FS_Surjection
<1>6. /\ IsFiniteSet(R) /\ Cardinality(R) = b - a
  <2>1. a \in Int /\ b - 1 \in Int
    BY SMTT(30), <1>1
  <2>2. IsFiniteSet(R) /\ Cardinality(R) = IF a > b - 1 THEN 0 ELSE (b - 1) - a + 1
    <3> HIDE DEF a, b
    <3> QED
      BY <2>1, FS_Interval
  <2> QED
    BY SMTT(30), <1>1, <2>2
<1>7. Cardinality(T) = Cardinality(R) - Cardinality(C)
  <2>1. R \cap C = C
    BY <1>1
  <2>2. IsFiniteSet(R)
    BY <1>6
  <2> HIDE DEF R, C
  <2>3. Cardinality(R \ C) = Cardinality(R) - Cardinality(R \cap C)
    BY ONLY Zenon, <2>2, FS_Difference
  <2> QED
    BY <2>1, <2>3 DEF T
<1>8. Cardinality(C) \in Nat /\ Cardinality(C) <= b - a
  <2>1. C \in SUBSET R
    BY <1>1
  <2> HIDE DEF R, C, a, b
  <2>2. IsFiniteSet(C) /\ Cardinality(C) <= Cardinality(R)
    BY <1>6, <2>1, FS_Subset
  <2> QED
    BY <1>6, <2>2, FS_CardinalityType
<1>9. Cardinality(Owners(o)) = (b - a) - Cardinality(C)
  BY <1>5, <1>6, <1>7
<1> HIDE DEF a, b, C
<1>10. SaturatingSub(b - a, Cardinality(C)) = Cardinality(Owners(o))
  BY <1>1, <1>8, <1>9 DEF SaturatingSub
<1> QED
  BY <1>10 DEF a, b, C

CountInv ==
    \A o \in Lanes : lane[o].waiting = Cardinality(Owners(o)) /\ lane[o].waiting <= Depth

\* A step that moves no caller in or out of a lane and leaves the counters
\* alone keeps them right.
LEMMA CountUnchanged ==
    ASSUME CountInv,
           \A o \in Lanes : Owners(o)' = Owners(o) /\ lane'[o].waiting = lane[o].waiting
    PROVE  CountInv'
  BY DEF CountInv, Depth

\* Pruning keeps the counters right: it rebuilds them from the tickets, and
\* resets those of a freed lane, which nobody is queued in.
LEMMA EnqueueLookupCount ==
    ASSUME IInv, CountInv, NEW t \in Threads, NEW k \in Keys, EnqueueLookup(t, k)
    PROVE  CountInv'
<1>1. /\ pc[t] = "idle" /\ lane' = PrunedLane
      /\ \/ UNCHANGED <<at, pc>>
         \/ /\ pc' = [pc EXCEPT ![t] = "joining"]
            /\ \E o : at' = [at EXCEPT ![t] = o]
  BY DEF EnqueueLookup
<1>2. /\ \A u \in Threads : u # t => pc'[u] = pc[u] /\ at'[u] = at[u]
      /\ pc'[t] \notin Queued /\ pc[t] \notin Queued
  BY <1>1 DEF IInv, TypeOK, Queued
<1>3. \A o \in Lanes : Owners(o)' = Owners(o)
  BY <1>2 DEF Owners
<1>4. ASSUME NEW o \in Lanes PROVE PrunedLane[o].waiting = Cardinality(Owners(o))
  <2>1. Repaired(lane[o]).waiting = Cardinality(Owners(o))
    <3>1. Repaired(lane[o]).waiting =
            IF lane[o].poisoned
            THEN SaturatingSub(lane[o].next_ticket - lane[o].serving_ticket,
                               Cardinality(lane[o].cancelled))
            ELSE lane[o].waiting
      BY LaneShape, RepairedFields
    <3> QED
      BY <3>1, RebuiltCountIsOwners DEF CountInv
  <2>2. CASE HeldElsewhere(o)
    BY <2>1, <2>2 DEF PrunedLane, CountInv
  <2>3. CASE ~HeldElsewhere(o)
    <3>1. Owners(o) = {}
      BY <2>3 DEF Owners, HeldElsewhere
    <3>2. PrunedLane[o] = Repaired(lane[o]) \/ PrunedLane[o] = EmptyLane
      BY <2>3 DEF PrunedLane
    <3> QED
      BY SMTT(30), <2>1, <3>1, <3>2, FS_EmptySet DEF EmptyLane
  <2> QED
    BY <2>2, <2>3
<1> QED
  BY <1>1, <1>3, <1>4 DEF CountInv, Depth

\* Issuing a ticket counts it.
LEMMA EnqueueTicketCount ==
    ASSUME IInv, CountInv, NEW t \in Threads, EnqueueTicket(t)
    PROVE  CountInv'
<1>1. PICK o \in Lanes : o = at[t] /\ pc[t] = "joining"
  BY DEF EnqueueTicket, IInv, QueueInv, CallerOK
<1>2. /\ lane[o] \in QueueLaneState /\ AdvanceCancelled(lane[o]) = lane[o]
  BY LaneShape
<1>3. /\ lane' = [lane EXCEPT ![o] = [lane[o] EXCEPT !.next_ticket = @ + 1, !.waiting = @ + 1]]
      /\ pc' = [pc EXCEPT ![t] = "waiting"]
      /\ at' = at
      /\ ~LaneFull(lane[o])
  BY <1>1, <1>2 DEF EnqueueTicket
<1>4. /\ \A x \in Lanes : x # o => lane'[x] = lane[x]
      /\ lane'[o].waiting = lane[o].waiting + 1
      /\ \A u \in Threads : u # t => pc'[u] = pc[u]
      /\ pc'[t] \in Queued /\ pc[t] \notin Queued
  BY <1>1, <1>2, <1>3 DEF IInv, TypeOK, QueueLaneState, Queued, PC
<1>5. /\ \A x \in Lanes : x # o => Owners(x)' = Owners(x)
      /\ Owners(o)' = Owners(o) \cup {t}
      /\ t \notin Owners(o)
  BY <1>1, <1>3, <1>4 DEF Owners
<1>6. Cardinality(Owners(o)') = Cardinality(Owners(o)) + 1
  BY <1>5, OwnersFinite, FS_AddElement
<1>7. lane[o].waiting \in Nat /\ Depth \in Nat
  BY <1>2, QueueAssumption DEF QueueLaneState, Depth
<1>8. lane[o].waiting + 1 <= Depth
  BY SMTT(30), <1>3, <1>7 DEF LaneFull
<1>9. \A x \in Lanes : lane'[x].waiting = Cardinality(Owners(x)') /\ lane'[x].waiting <= Depth
  BY <1>4, <1>5, <1>6, <1>8 DEF CountInv
<1> QED
  BY <1>9 DEF CountInv, Depth

\* finish counts its ticket off, exactly once.
LEMMA FinishCount ==
    ASSUME IInv, CountInv, NEW t \in Threads, NEW c \in BOOLEAN,
           pc[t] \in Queued, c \/ pc[t] \in Admitted,
           Finish(t, c)
    PROVE  CountInv'
<1>0. CallerOK(t)
  BY DEF IInv, QueueInv
<1>1. PICK o \in Lanes : o = at[t]
  BY <1>0 DEF CallerOK, Queued
<1> DEFINE l == Repaired(lane[o])
<1>2. /\ l \in QueueLaneState
      /\ l.serving_ticket = lane[o].serving_ticket /\ l.next_ticket = lane[o].next_ticket
      /\ l.cancelled = lane[o].cancelled
      /\ l.waiting = IF lane[o].poisoned
                     THEN SaturatingSub(lane[o].next_ticket - lane[o].serving_ticket,
                                        Cardinality(lane[o].cancelled))
                     ELSE lane[o].waiting
  BY LaneShape, RepairedFields
<1>3. l.waiting = Cardinality(Owners(o))
  BY <1>2, RebuiltCountIsOwners DEF CountInv
<1>4. /\ lane' = [lane EXCEPT ![o] = FinishedLane(l, ticket[t], c)]
      /\ pc' = [Notified(o) EXCEPT ![t] = "idle"]
      /\ at' = [at EXCEPT ![t] = NoLane]
  BY <1>1 DEF Finish
<1> HIDE DEF l
<1>5. FinishedLane(l, ticket[t], c).waiting = SaturatingSub(l.waiting, 1)
  <2>0. PICK n \in Nat : n = ticket[t]
    BY DEF IInv, TypeOK
  <2>1. /\ l.serving_ticket <= l.next_ticket
        /\ \A x \in l.cancelled : l.serving_ticket < x /\ x < l.next_ticket
    BY <1>2, LaneShape
  <2>2. /\ l.serving_ticket <= n /\ n < l.next_ticket
        /\ n \notin l.cancelled
        /\ n = l.serving_ticket \/ c
    BY <1>0, <1>1, <1>2, <2>0 DEF CallerOK
  <2>3. l \in QueueLaneState
    BY <1>2
  <2>4. FinishedLane(l, n, c).waiting = SaturatingSub(l.waiting, 1)
    BY ONLY SMTT(30), <2>1, <2>2, <2>3, n \in Nat, c \in BOOLEAN, FinishedLaneFields
  <2> QED
    BY <2>0, <2>4
<1>6. ASSUME NEW u \in Threads, u # t
      PROVE  (pc'[u] \in Queued <=> pc[u] \in Queued) /\ at'[u] = at[u]
  BY <1>4, <1>6 DEF Notified, Queued, PC, IInv, TypeOK
<1>7. pc'[t] \notin Queued
  BY <1>4 DEF Notified, Queued
<1>8. /\ \A x \in Lanes : x # o => Owners(x)' = Owners(x)
      /\ Owners(o)' = Owners(o) \ {t}
      /\ t \in Owners(o)
  BY <1>1, <1>6, <1>7 DEF Owners
<1>9. Cardinality(Owners(o)') = Cardinality(Owners(o)) - 1
  BY <1>8, OwnersFinite, FS_RemoveElement
<1>10. Cardinality(Owners(o)') \in Nat
  <2>1. IsFiniteSet(Owners(o) \ {t})
    BY OwnersFinite, FS_RemoveElement
  <2> QED
    BY <1>8, <2>1, FS_CardinalityType
<1>11. SaturatingSub(l.waiting, 1) = Cardinality(Owners(o)')
  BY SMTT(30), <1>3, <1>9, <1>10, OwnersFinite DEF SaturatingSub
<1>12. Cardinality(Owners(o)') <= Depth
  <2>1. Cardinality(Owners(o)) <= Depth
    BY DEF CountInv
  <2>2. Depth \in Nat
    BY QueueAssumption DEF Depth
  <2> QED
    BY SMTT(30), <1>9, <2>1, <2>2, OwnersFinite
<1>13. /\ lane'[o] = FinishedLane(l, ticket[t], c)
       /\ \A x \in Lanes : x # o => lane'[x] = lane[x]
  BY <1>4 DEF IInv, TypeOK
<1>14. \A x \in Lanes : lane'[x].waiting = Cardinality(Owners(x)') /\ lane'[x].waiting <= Depth
  BY <1>5, <1>8, <1>11, <1>12, <1>13 DEF CountInv
<1> QED
  BY <1>14 DEF CountInv, Depth

\* Every step keeps the counters right.
LEMMA StepCount == IInv /\ CountInv /\ [Next]_vars => CountInv'
<1> SUFFICES ASSUME IInv, CountInv, [Next]_vars PROVE CountInv'
  OBVIOUS
<1>1. CASE \E t \in Threads, k \in Keys : EnqueueLookup(t, k)
  BY <1>1, EnqueueLookupCount
<1>2. CASE \E t \in Threads : CallerStep(t)
  <2>1. PICK t \in Threads : CallerStep(t)
    BY <1>2
  <2>2. CASE EnqueueRefused(t)
    <3>1. \A o \in Lanes : Owners(o)' = Owners(o)
      BY <2>2 DEF EnqueueRefused, Owners, Queued, PC, IInv, TypeOK
    <3> QED
      BY <2>2, <3>1, CountUnchanged DEF EnqueueRefused
  <2>3. CASE EnqueueTicket(t)
    BY <2>3, EnqueueTicketCount
  <2>4. CASE WaitUntilHead(t)
    <3>1. \A o \in Lanes : Owners(o)' = Owners(o)
      BY SMTT(30), <2>4 DEF WaitUntilHead, Owners, Queued, PC, IInv, TypeOK
    <3>2. \A o \in Lanes : lane'[o].waiting = lane[o].waiting
      <4>1. at[t] \in Lanes
        BY <2>4 DEF WaitUntilHead, IInv, QueueInv, CallerOK
      <4>2. AdvanceCancelled(lane[at[t]]) = lane[at[t]]
        BY <4>1, LaneShape
      <4> QED
        BY <2>4, <4>1, <4>2 DEF WaitUntilHead, IInv, TypeOK
    <3> QED
      BY <3>1, <3>2, CountUnchanged
  <2>5. CASE \/ WaitSliceEnds(t) \/ AttemptAcquired(t) \/ AttemptBlocked(t)
             \/ AttemptFailed(t) \/ WaitForRetry(t) \/ RetryIntervalEnds(t)
    <3> USE DEF WaitSliceEnds, AttemptAcquired, AttemptBlocked, AttemptFailed,
                WaitForRetry, RetryIntervalEnds
    <3>1. lane' = lane /\ at' = at
      BY <2>5
    <3>2. \A u \in Threads : pc'[u] \in Queued <=> pc[u] \in Queued
      BY SMTT(30), <2>5 DEF Queued, PC, IInv, TypeOK
    <3>3. \A o \in Lanes : Owners(o)' = Owners(o)
      BY <3>1, <3>2 DEF Owners
    <3> QED
      BY <3>1, <3>3, CountUnchanged
  <2>6. CASE Complete(t)
    BY <2>6, FinishCount DEF Complete, Queued, Admitted, PC
  <2>7. CASE DropTicket(t)
    BY <2>7, FinishCount DEF DropTicket, Queued, PC
  <2> QED
    BY <2>1, <2>2, <2>3, <2>4, <2>5, <2>6, <2>7 DEF CallerStep
<1>3. CASE (\E t \in Threads : DeadlinePasses(t)) \/ NotifySnapshot \/ UNCHANGED vars
  <2>1. UNCHANGED <<lane, at, pc>>
    BY <1>3 DEF DeadlinePasses, NotifySnapshot, vars
  <2> QED
    BY <2>1, CountUnchanged DEF Owners
<1>4. CASE \E o \in Lanes : NotifyLane(o)
  <2>1. lane' = lane /\ at' = at
    BY <1>4 DEF NotifyLane
  <2>2. \A u \in Threads : pc'[u] \in Queued <=> pc[u] \in Queued
    BY <1>4 DEF NotifyLane, Notified, Queued, PC
  <2>3. \A o \in Lanes : Owners(o)' = Owners(o)
    BY <2>1, <2>2 DEF Owners
  <2> QED
    BY <2>1, <2>3, CountUnchanged
<1>5. CASE \E o \in Lanes : LanePoisoned(o)
  <2>1. UNCHANGED <<at, pc>> /\ \A o \in Lanes : lane'[o].waiting = lane[o].waiting
    BY SMTT(30), <1>5 DEF LanePoisoned, IInv, TypeOK, QueueLaneState
  <2> QED
    BY <2>1, CountUnchanged DEF Owners
<1> QED
  BY <1>1, <1>2, <1>3, <1>4, <1>5 DEF Next

\* The counters are right in every state of the queue.
LEMMA CountInvariant == Spec => []CountInv
<1>1. Init => CountInv
  <2> SUFFICES ASSUME Init, NEW o \in Lanes
               PROVE  lane[o].waiting = Cardinality(Owners(o)) /\ lane[o].waiting <= Depth
    BY DEF CountInv
  <2>1. Owners(o) = {}
    BY DEF Init, Owners, Queued
  <2>2. lane[o].waiting = 0
    BY DEF Init, EmptyLane
  <2>3. 0 <= Depth
    BY SMTT(30), QueueAssumption DEF Depth
  <2> QED
    BY <2>1, <2>2, <2>3, FS_EmptySet
<1> QED
  BY <1>1, StepCount, QueueInvariant, PTL DEF Spec

\* The waiting counter the limit and the pruning read is the number of callers
\* queued in the lane, also after a poisoned lane was repaired.
THEOREM WaitingCountsTicketsAlways == Spec => []WaitingCountsTickets
<1>1. CountInv => WaitingCountsTickets
  BY DEF CountInv, WaitingCountsTickets
<1> QED
  BY <1>1, CountInvariant, PTL

\* No more than max_queue_depth callers are queued under one key.
THEOREM DepthBoundedAlways == Spec => []DepthBounded
<1>1. IInv /\ CountInv => DepthBounded
  <2> SUFFICES ASSUME IInv, CountInv, NEW k \in Keys
               PROVE  Cardinality({t \in Threads : key[t] = k /\ pc[t] \in Queued}) <= Depth
    BY DEF DepthBounded
  <2> DEFINE S == {t \in Threads : key[t] = k /\ pc[t] \in Queued}
  <2>1. CASE S = {}
    BY SMTT(30), <2>1, FS_EmptySet, QueueAssumption DEF Depth
  <2>2. CASE S # {}
    <3>1. PICK u \in Threads : key[u] = k /\ pc[u] \in Queued
      BY <2>2
    <3>2. \A t \in Threads : pc[t] \in Queued =>
              key[t] \in Keys /\ at[t] \in Lanes /\ registry[key[t]] = at[t]
      BY DEF IInv, QueueInv, CallerOK, Queued
    <3>3. registry[k] \in Lanes
      BY <3>1, <3>2
    <3>4. S \in SUBSET Owners(registry[k])
      BY <3>2 DEF Owners
    <3> HIDE DEF S
    <3>5. Cardinality(S) <= Cardinality(Owners(registry[k]))
      BY <3>4, OwnersFinite, FS_Subset
    <3>6. Cardinality(Owners(registry[k])) <= Depth
      BY <3>3 DEF CountInv
    <3>7. /\ Cardinality(S) \in Nat /\ Cardinality(Owners(registry[k])) \in Nat
          /\ Depth \in Nat
      <4>1. IsFiniteSet(S)
        BY <3>4, OwnersFinite, FS_Subset
      <4> QED
        BY <4>1, FS_CardinalityType, OwnersFinite, QueueAssumption DEF Depth
    <3> QED
      BY SMTT(30), <3>5, <3>6, <3>7 DEF S
  <2> QED
    BY <2>1, <2>2
<1> QED
  BY <1>1, CountInvariant, QueueInvariant, PTL

-----------------------------------------------------------------------------
(* The queue implements the line.                                          *)

\* What FifoLine calls the places a caller can be.
LEMMA StatusFacts ==
    ASSUME NEW p \in PC
    PROVE  /\ p \in {"idle", "joining"} => LineStatus(p) = "out"
           /\ p \in {"waiting", "sleeping"} => LineStatus(p) = "waiting"
           /\ p \in Admitted => LineStatus(p) = "admitted"
           /\ p = "dropping" => LineStatus(p) = "leaving"
           /\ p \in Queued <=> LineStatus(p) # "out"
           /\ p \in Queued <=> p \notin {"idle", "joining"}
  BY DEF LineStatus, PC, Queued, Admitted

\* The lines stay as they are when nobody joins or leaves them.
LEMMA LinesKept ==
    ASSUME \A u \in Threads : pc'[u] \in Queued <=> pc[u] \in Queued,
           \A u \in Threads : pc[u] \in Queued => key'[u] = key[u] /\ ticket'[u] = ticket[u]
    PROVE  \A u \in Threads : LineOf(u)' = LineOf(u) /\ AheadOf(u)' = AheadOf(u)
  BY DEF LineOf, AheadOf

\* Nobody is ahead of a caller that is let through.
NobodyAhead == \A t \in Threads : pc[t] \in Admitted => AheadOf(t) = {}

\* A caller that is let through holds the served ticket, which no waiter of the lane precedes.
LEMMA HeadHasNobodyAhead == IInv => NobodyAhead
<1> SUFFICES ASSUME IInv, NEW t \in Threads, pc[t] \in Admitted, NEW u \in Threads,
                    pc[t] \in Queued, pc[u] \in Queued, key[u] = key[t], ticket[u] < ticket[t]
             PROVE  FALSE
  BY DEF NobodyAhead, AheadOf
<1>1. CallerOK(t) /\ CallerOK(u)
  BY DEF IInv, QueueInv
<1>2. at[t] = at[u] /\ at[t] \in Lanes
  BY <1>1 DEF CallerOK, Queued
<1>3. lane[at[t]].serving_ticket \in Nat /\ ticket[u] \in Nat /\ ticket[t] \in Nat
  BY <1>2 DEF IInv, TypeOK, QueueLaneState
<1>4. ticket[t] = lane[at[t]].serving_ticket /\ lane[at[t]].serving_ticket <= ticket[u]
  BY <1>1, <1>2 DEF CallerOK
<1> QED
  BY SMTT(30), <1>3, <1>4

\* A step after which every caller is where FifoLine saw it before is a stutter.
LEMMA StutterIsLineStep ==
    ASSUME IInv, IInv',
           \A u \in Threads : LineStatus(pc'[u]) = LineStatus(pc[u]),
           \A u \in Threads : pc[u] \in Queued => key'[u] = key[u] /\ ticket'[u] = ticket[u]
    PROVE  UNCHANGED Line!lineVars
<1>1. \A u \in Threads : pc[u] \in PC /\ pc'[u] \in PC
  BY DEF IInv, TypeOK
<1>2. \A u \in Threads : pc'[u] \in Queued <=> pc[u] \in Queued
  BY SMTT(30), <1>1, StatusFacts
<1>3. \A u \in Threads : LineOf(u)' = LineOf(u) /\ AheadOf(u)' = AheadOf(u)
  BY <1>2, LinesKept
<1> QED
  BY <1>3 DEF Line!lineVars

\* A caller that stays in its line is admitted, gives up or has not moved.
LEMMA MoveIsLineStep ==
    ASSUME IInv, IInv', NobodyAhead', NEW t \in Threads, UNCHANGED <<key, ticket>>,
           \A u \in Threads \ {t} : LineStatus(pc'[u]) = LineStatus(pc[u]),
           \/ LineStatus(pc'[t]) = LineStatus(pc[t])
           \/ pc[t] \in {"waiting", "sleeping"} /\ pc'[t] \in Admitted
           \/ pc[t] \in {"waiting", "sleeping"} \cup Admitted /\ pc'[t] = "dropping"
    PROVE  [Line!Next]_(Line!lineVars)
<1>1. \A u \in Threads : pc[u] \in PC /\ pc'[u] \in PC
  BY DEF IInv, TypeOK
<1>2. CASE LineStatus(pc'[t]) = LineStatus(pc[t])
  <2>1. UNCHANGED Line!lineVars
    BY <1>2, StutterIsLineStep
  <2> QED
    BY <2>1
<1>3. ASSUME \/ pc[t] \in {"waiting", "sleeping"} /\ pc'[t] \in Admitted
             \/ pc[t] \in {"waiting", "sleeping"} \cup Admitted /\ pc'[t] = "dropping"
      PROVE  \A u \in Threads : LineOf(u)' = LineOf(u) /\ AheadOf(u)' = AheadOf(u)
  <2>1. pc[t] \in Queued /\ pc'[t] \in Queued
    BY <1>3 DEF Queued, PC, Admitted
  <2>2. \A u \in Threads : pc'[u] \in Queued <=> pc[u] \in Queued
    BY SMTT(30), <1>1, <2>1, StatusFacts
  <2> QED
    BY <2>2, LinesKept
<1>4. CASE pc[t] \in {"waiting", "sleeping"} /\ pc'[t] \in Admitted
  <2>1. LineStatus(pc[t]) = "waiting" /\ LineStatus(pc'[t]) = "admitted"
    BY <1>1, <1>4, StatusFacts
  <2>2. AheadOf(t)' = {}
    BY <1>4 DEF NobodyAhead
  <2>3. AheadOf(t) = {}
    BY <1>3, <1>4, <2>2
  <2>4. Line!Admit(t)
    BY <1>3, <1>4, <2>1, <2>3 DEF Line!Admit
  <2> QED
    BY <2>4 DEF Line!Next
<1>5. CASE pc[t] \in {"waiting", "sleeping"} \cup Admitted /\ pc'[t] = "dropping"
  <2>1. LineStatus(pc[t]) \in {"waiting", "admitted"} /\ LineStatus(pc'[t]) = "leaving"
    BY <1>1, <1>5, StatusFacts
  <2>2. Line!GiveUp(t)
    BY <1>3, <1>5, <2>1 DEF Line!GiveUp
  <2> QED
    BY <2>2 DEF Line!Next
<1> QED
  BY <1>2, <1>4, <1>5

\* The moves of a caller that touch nothing but where it is.
LEMMA CallerMovesLine ==
    ASSUME IInv, IInv', NobodyAhead', NEW t \in Threads,
           \/ WaitUntilHead(t) \/ WaitSliceEnds(t) \/ AttemptAcquired(t)
           \/ AttemptBlocked(t) \/ AttemptFailed(t) \/ WaitForRetry(t)
           \/ RetryIntervalEnds(t)
    PROVE  [Line!Next]_(Line!lineVars)
<1>1. UNCHANGED <<key, ticket>>
  BY DEF WaitUntilHead, WaitSliceEnds, AttemptAcquired, AttemptBlocked, AttemptFailed,
         WaitForRetry, RetryIntervalEnds
<1>2. PICK p : /\ pc' = [pc EXCEPT ![t] = p]
               /\ \/ pc[t] = "waiting" /\ p \in {"dropping", "head", "sleeping"}
                  \/ pc[t] = "sleeping" /\ p \in {"dropping", "waiting"}
                  \/ pc[t] \in Admitted /\ p \in {"dropping", "head", "blocked", "retrying", "completing"}
  BY DEF WaitUntilHead, WaitSliceEnds, AttemptAcquired, AttemptBlocked, AttemptFailed,
         WaitForRetry, RetryIntervalEnds, Admitted
<1>3. pc'[t] = p /\ \A u \in Threads \ {t} : pc'[u] = pc[u]
  BY <1>2 DEF IInv, TypeOK
<1>4. p \in PC /\ pc[t] \in PC
  BY <1>3 DEF IInv, TypeOK
<1>5. \/ LineStatus(p) = LineStatus(pc[t])
      \/ pc[t] \in {"waiting", "sleeping"} /\ p \in Admitted
      \/ pc[t] \in {"waiting", "sleeping"} \cup Admitted /\ p = "dropping"
  BY <1>2, <1>4, StatusFacts DEF Admitted
<1> QED
  BY <1>1, <1>3, <1>5, MoveIsLineStep

\* The callers of one key are those of one lane.
LEMMA LineIsLane ==
    ASSUME IInv, NEW t \in Threads, pc[t] # "idle"
    PROVE  /\ at[t] \in Lanes /\ key[t] \in Keys
           /\ \A u \in Threads : pc[u] \in Queued => (key[u] = key[t] <=> at[u] = at[t])
<1>1. \A u \in Threads : CallerOK(u)
  BY DEF IInv, QueueInv
<1>2. \A u \in Threads : pc[u] # "idle" =>
         key[u] \in Keys /\ at[u] \in Lanes /\ registry[key[u]] = at[u]
  BY <1>1 DEF CallerOK
<1>3. \A j, k \in Keys : registry[j] = registry[k] /\ registry[j] # NoLane => j = k
  BY DEF IInv, QueueInv
<1>4. \A u \in Threads : pc[u] \in Queued => pc[u] # "idle"
  BY DEF Queued
<1> QED
  BY <1>2, <1>3, <1>4, QueueAssumption

\* Taking a ticket is joining the line of the key.
LEMMA EnqueueTicketLine ==
    ASSUME IInv, CountInv, IInv', NEW t \in Threads, EnqueueTicket(t)
    PROVE  Line!Next
<1>1. PICK o \in Lanes, k \in Keys : o = at[t] /\ k = key[t]
  BY LineIsLane DEF EnqueueTicket
<1>2. /\ pc[t] = "joining" /\ ~LaneFull(lane[o])
      /\ pc' = [pc EXCEPT ![t] = "waiting"]
      /\ UNCHANGED <<key, at>>
      /\ ticket' = [ticket EXCEPT ![t] = lane[o].next_ticket]
  BY <1>1, LaneShape DEF EnqueueTicket
<1>3. /\ pc'[t] = "waiting" /\ pc'[t] \in Queued /\ pc[t] \notin Queued
      /\ ticket'[t] = lane[o].next_ticket
      /\ \A u \in Threads \ {t} : pc'[u] = pc[u] /\ ticket'[u] = ticket[u]
  BY <1>2 DEF IInv, TypeOK, Queued, PC
<1>4. \A u \in Threads : pc[u] \in Queued => (key[u] = k <=> at[u] = o)
  BY <1>1, <1>2, LineIsLane
<1>5. {u \in Threads : LineOf(u) = k} = Owners(o)
  BY <1>4, QueueAssumption DEF LineOf, Owners
<1>6. Cardinality(Owners(o)) < Depth
  <2>1. lane[o].waiting \in Nat /\ Depth \in Nat
    BY QueueAssumption DEF IInv, TypeOK, QueueLaneState, Depth
  <2> QED
    BY SMTT(30), <1>2, <2>1 DEF LaneFull, CountInv
<1>7. \A u \in Owners(o) : ticket[u] < lane[o].next_ticket
  BY DEF Owners, IInv, QueueInv, CallerOK
<1>8. lane[o].next_ticket \in Nat /\ ticket \in [Threads -> Nat]
  BY DEF IInv, TypeOK, QueueLaneState
<1>9. LineOf(t)' = k /\ AheadOf(t)' = Owners(o)
  <2>1. LineOf(t)' = k
    BY <1>1, <1>2, <1>3 DEF LineOf
  <2>2. \A u \in Threads : u \in AheadOf(t)' <=>
           pc'[u] \in Queued /\ key[u] = k /\ ticket'[u] < lane[o].next_ticket
    BY <1>1, <1>2, <1>3 DEF AheadOf
  <2>3. ASSUME NEW u \in Threads PROVE u \in AheadOf(t)' <=> u \in Owners(o)
    <3>1. CASE u = t
      BY SMTT(30), <1>3, <1>8, <2>2, <3>1 DEF Owners
    <3>2. CASE u # t
      BY <1>3, <1>4, <1>7, <2>2, <3>2 DEF Owners
    <3> QED
      BY <3>1, <3>2
  <2>4. AheadOf(t)' \subseteq Threads /\ Owners(o) \subseteq Threads
    BY DEF AheadOf, Owners
  <2> QED
    BY <2>1, <2>3, <2>4
<1>10. ASSUME NEW u \in Threads, u # t PROVE LineOf(u)' = LineOf(u) /\ AheadOf(u)' = AheadOf(u)
  <2>1. LineOf(u)' = LineOf(u)
    BY <1>2, <1>3, <1>10 DEF LineOf
  <2>2. t \notin AheadOf(u)
    BY <1>3 DEF AheadOf
  <2>3. t \notin AheadOf(u)'
    <3>1. CASE pc[u] \in Queued /\ key[u] = k
      <4>1. u \in Owners(o) /\ ticket'[u] = ticket[u]
        BY <1>3, <1>4, <1>10, <3>1 DEF Owners
      <4>2. ~(ticket'[t] < ticket'[u])
        BY SMTT(30), <1>3, <1>7, <1>8, <4>1
      <4> QED
        BY <4>2 DEF AheadOf
    <3>2. CASE ~(pc[u] \in Queued /\ key[u] = k)
      BY <1>1, <1>2, <1>3, <1>10, <3>2 DEF AheadOf
    <3> QED
      BY <3>1, <3>2
  <2>4. \A v \in Threads \ {t} : v \in AheadOf(u)' <=> v \in AheadOf(u)
    BY <1>2, <1>3, <1>10 DEF AheadOf
  <2>5. AheadOf(u)' \subseteq Threads /\ AheadOf(u) \subseteq Threads
    BY DEF AheadOf
  <2> QED
    BY SMTT(30), <2>1, <2>2, <2>3, <2>4, <2>5
<1>11. LineStatus(pc[t]) = "out" /\ LineStatus(pc'[t]) = "waiting"
  BY <1>2, <1>3, StatusFacts DEF PC
<1>12. Line!InLine(k) = Owners(o)
  BY <1>5 DEF Line!InLine
<1>c. Line!Cardinality(Owners(o)) = Cardinality(Owners(o))
  BY DEF Line!Cardinality, Cardinality
<1>13. Line!Join(t, k)
  BY <1>3, <1>6, <1>9, <1>10, <1>11, <1>12, <1>c DEF Line!Join
<1> QED
  BY <1>13 DEF Line!Next

\* Finishing a ticket is leaving the line.  The lane has been repaired, so the
\* notification sends nobody else away.
LEMMA FinishLine ==
    ASSUME IInv, IInv', NEW t \in Threads, NEW c \in BOOLEAN,
           pc[t] \in Admitted \cup {"dropping"}, c \/ pc[t] \in Admitted, Finish(t, c)
    PROVE  Line!Next
<1>1. PICK o \in Lanes : o = at[t]
  BY LineIsLane DEF Admitted
<1>2. ~lane'[o].poisoned
  <2>0. CallerOK(t) /\ pc[t] \in Queued
    BY DEF IInv, QueueInv, Queued, PC, Admitted
  <2>1. PICK l \in QueueLaneState :
           /\ l = Repaired(lane[o]) /\ l.poisoned = FALSE
           /\ l.serving_ticket = lane[o].serving_ticket /\ l.next_ticket = lane[o].next_ticket
           /\ l.cancelled = lane[o].cancelled
    BY LaneShape, RepairedFields
  <2>2. PICK n \in Nat : n = ticket[t]
    BY DEF IInv, TypeOK
  <2>3. /\ l.serving_ticket <= l.next_ticket
        /\ \A x \in l.cancelled : l.serving_ticket < x /\ x < l.next_ticket
    BY SMTT(30), <2>1, LaneShape
  <2>4. /\ l.serving_ticket <= n /\ n < l.next_ticket
        /\ n \notin l.cancelled
        /\ n = l.serving_ticket \/ c
    BY <1>1, <2>0, <2>1, <2>2 DEF CallerOK
  <2>5. FinishedLane(l, n, c).poisoned = l.poisoned
    BY ONLY SMTT(30), <2>3, <2>4, n \in Nat, c \in BOOLEAN, l \in QueueLaneState, FinishedLaneFields
  <2>6. lane'[o] = FinishedLane(l, n, c)
    BY <1>1, <2>1, <2>2 DEF Finish, IInv, TypeOK
  <2> QED
    BY <2>1, <2>5, <2>6
<1>3. /\ pc' = [Notified(o) EXCEPT ![t] = "idle"]
      /\ key' = [key EXCEPT ![t] = NoKey] /\ ticket' = [ticket EXCEPT ![t] = 0]
  BY <1>1 DEF Finish
<1>4. pc'[t] = "idle" /\ \A u \in Threads \ {t} : key'[u] = key[u] /\ ticket'[u] = ticket[u]
  BY <1>3 DEF IInv, TypeOK, Notified
<1>5. ASSUME NEW u \in Threads \ {t}
      PROVE  \/ pc'[u] = pc[u]
             \/ pc[u] = "sleeping" /\ pc'[u] = "waiting"
             \/ pc[u] = "retrying" /\ pc'[u] = "head"
  BY <1>2, <1>3 DEF Notified
<1>6. \A u \in Threads : pc[u] \in PC /\ pc'[u] \in PC
  BY DEF IInv, TypeOK
<1>7. \A u \in Threads \ {t} : LineStatus(pc'[u]) = LineStatus(pc[u])
  BY SMTT(30), <1>5, <1>6, StatusFacts DEF Admitted
<1>8. /\ LineStatus(pc'[t]) = "out" /\ pc'[t] \notin Queued
      /\ LineStatus(pc[t]) \in {"admitted", "leaving"}
  BY <1>4, <1>6, StatusFacts
<1>9. \A u \in Threads \ {t} : pc'[u] \in Queued <=> pc[u] \in Queued
  BY SMTT(30), <1>6, <1>7, StatusFacts
<1>10. LineOf(t)' = NoKey /\ AheadOf(t)' = {}
  BY <1>8 DEF LineOf, AheadOf
<1>11. ASSUME NEW u \in Threads \ {t}
       PROVE  LineOf(u)' = LineOf(u) /\ AheadOf(u)' = AheadOf(u) \ {t}
  <2>1. LineOf(u)' = LineOf(u)
    BY <1>4, <1>9 DEF LineOf
  <2>2. t \notin AheadOf(u)'
    BY <1>8 DEF AheadOf
  <2>3. \A v \in Threads \ {t} : v \in AheadOf(u)' <=> v \in AheadOf(u)
    BY <1>4, <1>9 DEF AheadOf
  <2>4. AheadOf(u)' \subseteq Threads /\ AheadOf(u) \subseteq Threads
    BY DEF AheadOf
  <2> QED
    BY <2>1, <2>2, <2>3, <2>4
<1>12. Line!Leave(t)
  BY <1>7, <1>8, <1>10, <1>11 DEF Line!Leave
<1> QED
  BY <1>12 DEF Line!Next

\* A notification wakes sleepers and sends the head back to the store, or away when
\* the lane is poisoned; there is at most one head.
LEMMA NotifyLaneLine ==
    ASSUME IInv, IInv', NobodyAhead', NEW o \in Lanes, NotifyLane(o)
    PROVE  [Line!Next]_(Line!lineVars)
<1>1. UNCHANGED <<key, ticket>> /\ pc' = Notified(o)
  BY DEF NotifyLane
<1>2. \A u \in Threads : pc[u] \in PC /\ pc'[u] \in PC
  BY DEF IInv, TypeOK
<1>3. ASSUME NEW u \in Threads
      PROVE  \/ pc'[u] = pc[u]
             \/ pc[u] = "sleeping" /\ pc'[u] = "waiting"
             \/ pc[u] = "retrying" /\ pc'[u] = "head"
             \/ pc[u] = "retrying" /\ at[u] = o /\ pc'[u] = "dropping"
  BY <1>1 DEF Notified
<1>4. \A u \in Threads : ~(pc[u] = "retrying" /\ at[u] = o) => LineStatus(pc'[u]) = LineStatus(pc[u])
  BY SMTT(30), <1>2, <1>3, StatusFacts DEF Admitted
<1>5. CASE \E t \in Threads : pc[t] = "retrying" /\ at[t] = o
  <2>1. PICK t \in Threads : pc[t] = "retrying" /\ at[t] = o
    BY <1>5
  <2>2. ASSUME NEW u \in Threads \ {t}, pc[u] = "retrying", at[u] = o PROVE FALSE
    <3>1. CallerOK(t) /\ CallerOK(u) /\ pc[t] \in Admitted /\ pc[u] \in Admitted
      BY <2>1, <2>2 DEF IInv, QueueInv, Admitted
    <3>2. ticket[t] = ticket[u]
      BY <2>1, <2>2, <3>1 DEF CallerOK
    <3> QED
      BY <2>1, <2>2, <3>2 DEF IInv, QueueInv, Queued, PC
  <2>3. \A u \in Threads \ {t} : LineStatus(pc'[u]) = LineStatus(pc[u])
    BY <1>4, <2>2
  <2>4. \/ LineStatus(pc'[t]) = LineStatus(pc[t])
        \/ pc[t] \in {"waiting", "sleeping"} \cup Admitted /\ pc'[t] = "dropping"
    BY SMTT(30), <1>2, <1>3, <2>1, StatusFacts DEF Admitted
  <2> QED
    BY <1>1, <2>3, <2>4, MoveIsLineStep
<1>6. CASE ~ \E t \in Threads : pc[t] = "retrying" /\ at[t] = o
  <2>1. UNCHANGED Line!lineVars
    BY <1>1, <1>4, <1>6, StutterIsLineStep
  <2> QED
    BY <2>1
<1> QED
  BY <1>5, <1>6

\* Every step of the queue is a step of the line, or the line does not see it.
LEMMA StepLine ==
    IInv /\ CountInv /\ (IInv /\ NobodyAhead)' /\ [Next]_vars => [Line!Next]_(Line!lineVars)
<1> SUFFICES ASSUME IInv, CountInv, IInv', NobodyAhead', [Next]_vars PROVE [Line!Next]_(Line!lineVars)
  OBVIOUS
<1>0. \A u \in Threads : pc[u] \in PC /\ pc'[u] \in PC
  BY DEF IInv, TypeOK
<1>1. CASE \E t \in Threads : (\E k \in Keys : EnqueueLookup(t, k)) \/ EnqueueRefused(t)
  <2>1. PICK t \in Threads : (\E k \in Keys : EnqueueLookup(t, k)) \/ EnqueueRefused(t)
    BY <1>1
  <2>2. /\ pc[t] \in {"idle", "joining"} /\ ticket' = ticket
        /\ \/ UNCHANGED <<pc, key>>
           \/ \E p \in {"idle", "joining"} : \E k : pc' = [pc EXCEPT ![t] = p] /\ key' = [key EXCEPT ![t] = k]
    BY <2>1 DEF EnqueueLookup, EnqueueRefused
  <2>3. /\ pc'[t] \in {"idle", "joining"} /\ pc[t] \notin Queued
        /\ \A u \in Threads \ {t} : pc'[u] = pc[u] /\ key'[u] = key[u]
    BY <2>2 DEF IInv, TypeOK, Queued
  <2>4. \A u \in Threads : LineStatus(pc'[u]) = LineStatus(pc[u])
    BY <1>0, <2>2, <2>3, StatusFacts
  <2>5. UNCHANGED Line!lineVars
    BY <2>2, <2>3, <2>4, StutterIsLineStep
  <2> QED
    BY <2>5
<1>2. CASE \E t \in Threads : CallerStep(t) /\ ~EnqueueRefused(t)
  <2>1. PICK t \in Threads : CallerStep(t) /\ ~EnqueueRefused(t)
    BY <1>2
  <2>2. CASE EnqueueTicket(t)
    BY <2>2, EnqueueTicketLine
  <2>3. CASE Complete(t)
    BY <2>3, FinishLine DEF Complete, Admitted
  <2>4. CASE DropTicket(t)
    BY <2>4, FinishLine DEF DropTicket
  <2>5. CASE \/ WaitUntilHead(t) \/ WaitSliceEnds(t) \/ AttemptAcquired(t)
             \/ AttemptBlocked(t) \/ AttemptFailed(t) \/ WaitForRetry(t)
             \/ RetryIntervalEnds(t)
    BY <2>5, CallerMovesLine
  <2> QED
    BY <2>1, <2>2, <2>3, <2>4, <2>5 DEF CallerStep
<1>3. CASE \/ \E t \in Threads : DeadlinePasses(t)
           \/ NotifySnapshot \/ UNCHANGED vars
           \/ \E o \in Lanes : LanePoisoned(o)
  <2>1. UNCHANGED <<pc, key, ticket>>
    BY <1>3 DEF DeadlinePasses, NotifySnapshot, LanePoisoned, vars
  <2>2. UNCHANGED Line!lineVars
    BY <2>1, StutterIsLineStep
  <2> QED
    BY <2>2
<1>4. CASE \E o \in Lanes : NotifyLane(o)
  BY <1>4, NotifyLaneLine
<1> QED
  BY <1>1, <1>2, <1>3, <1>4 DEF Next

\* The queue of lanes, tickets, locks and wake-ups implements the bounded
\* first-come first-served line that FifoLine describes.
THEOREM QueueImplementsLine == Spec => ImplementsFifoLine
<1>1. Init => Line!Init
  <2> SUFFICES ASSUME Init PROVE Line!Init
    BY SMTT(30)
  <2>1. \A t \in Threads : pc[t] = "idle" /\ pc[t] \notin Queued /\ pc[t] \in PC
    BY DEF Init, Queued, PC
  <2>2. \A t \in Threads : LineOf(t) = NoKey /\ AheadOf(t) = {}
    BY <2>1 DEF LineOf, AheadOf
  <2>3. \A t \in Threads : LineStatus(pc[t]) = "out"
    BY <2>1, StatusFacts
  <2> QED
    BY <2>2, <2>3 DEF Line!Init
<1> QED
  BY <1>1, StepLine, HeadHasNobodyAhead, QueueInvariant, CountInvariant, PTL DEF Spec, ImplementsFifoLine, Line!Spec

=============================================================================
