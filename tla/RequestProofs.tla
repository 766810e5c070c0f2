---------------------------- MODULE RequestProofs ---------------------------
(***************************************************************************)
(* Proofs about the way of a client's request.  First the upstream call it *)
(* is forwarded by: the call works under its lease and leaves nothing      *)
(* behind, for any number of callers and any lifetimes and time bounds     *)
(* that satisfy the assumptions of UpstreamCall.  Then the HTTP session it *)
(* belongs to, for any number of sessions and request ids, any limits and  *)
(* any movement of the clock.                                              *)
(***************************************************************************)
EXTENDS HttpSession, UpstreamCall, FiniteSetTheorems, TLAPS

\* The backend of every step that names no other.
USE ZenonT(30)

-----------------------------------------------------------------------------
(* The upstream call.                                                       *)

\* The caller's lease stands and has at least n to go.
Holds(c, n) == holder = c /\ expiry >= n

\* What goes with where a call is.
Shape(c) ==
    /\ pc[c] \in {"idle", "queue"} => holder # c
    /\ pc[c] \in {"idle", "queue", "finalize", "drop"} => beat[c] = "none"
    /\ pc[c] \in {"verify", "spawn", "init", "send", "await", "stop", "join"} => beat[c] # "none"
    /\ pc[c] \in {"idle", "queue", "verify", "spawn", "init"} => ~sent[c]
    /\ pc[c] = "await" => sent[c]
    /\ pc[c] \in {"verify", "spawn", "init", "send", "await"} => left[c] <= Timeout
    /\ pc[c] = "spawn" => slack[c] <= SpawnTime
    /\ pc[c] = "stop" => slack[c] <= KillTime

\* A lifetime that is longer than the call with the start and the termination of its
\* process outlasts it without any renewal, if the start is swift.
Outlasts(c) ==
    swift /\ Timeout + SpawnTime + KillTime < ttl[c] =>
       /\ pc[c] = "verify" /\ left[c] > 0 => Holds(c, left[c] + SpawnTime + KillTime + 1)
       /\ pc[c] = "spawn" => Holds(c, left[c] + KillTime + 1 + slack[c])
       /\ pc[c] \in {"init", "send", "await"} => Holds(c, left[c] + KillTime + 1)
       /\ pc[c] = "stop" /\ sent[c] => Holds(c, 1 + slack[c])

\* What a lease has to go at least after its heartbeat has used n of it.
Room(c, n) == ttl[c] - LeaseHeartbeatInterval(ttl[c]) - n

\* A roomy lifetime is kept up by a heartbeat that is on time, and after a failed
\* renewal lasts until the call has noticed and its process is gone.
KeptUp(c) ==
    Watches /\ prompt /\ Roomy(ttl[c]) =>
       /\ beat[c] = "sleep" => Holds(c, Room(c, 0) + wait[c])
       /\ beat[c] = "renew" => Holds(c, Room(c, Lag) + wait[c])
       /\ beat[c] = "lost" /\ sent[c] /\ pc[c] \in {"send", "await"} =>
             Holds(c, Room(c, Lag + Slice) + wait[c])
       /\ beat[c] = "lost" /\ sent[c] /\ pc[c] = "stop" =>
             Holds(c, Room(c, Lag + Slice + KillTime) + slack[c])

Good(c) == Shape(c) /\ Outlasts(c) /\ KeptUp(c)

CallInv == CallTypeOK /\ \A c \in Callers : Good(c)

\* The interval between two renewals is a time.
LEMMA IntervalIsTime == \A t \in Nat \ {0} : LeaseHeartbeatInterval(t) \in Nat
<1> SUFFICES ASSUME NEW t \in Nat \ {0} PROVE LeaseHeartbeatInterval(t) \in Nat
  OBVIOUS
<1>1. t \div 3 \in Nat
  BY SMTT(30)
<1> QED
  BY SMTT(30), <1>1, TimeAssumption DEF LeaseHeartbeatInterval, Least, Greatest

\* Every step keeps the types.
LEMMA TypeStep == CallTypeOK /\ [CallNext]_callVars => CallTypeOK'
<1> SUFFICES ASSUME CallTypeOK, [CallNext]_callVars PROVE CallTypeOK'
  OBVIOUS
<1> USE TimeAssumption, IntervalIsTime DEF CallTypeOK
<1>1. CASE UNCHANGED callVars
  BY <1>1 DEF callVars
<1>2. ASSUME NEW c \in Callers, NEW asked \in Ttls \cup {0}, Start(c, asked) PROVE CallTypeOK'
  BY SMTT(30), <1>2 DEF Start, EffectiveTtl, lease
<1>3. ASSUME NEW c \in Callers, Acquire(c) PROVE CallTypeOK'
  BY SMTT(30), <1>3 DEF Acquire, request
<1>4. ASSUME NEW c \in Callers, AcquireFails(c) PROVE CallTypeOK'
  BY SMTT(30), <1>4 DEF AcquireFails, EffectiveTtl, lease
<1>5. ASSUME NEW c \in Callers, Abandon(c) PROVE CallTypeOK'
  BY <1>5 DEF Abandon, StopTime, Least, lease, request
<1>6. ASSUME NEW c \in Callers, Verified(c) PROVE CallTypeOK'
  BY <1>6 DEF Verified, lease, request
<1>7. ASSUME NEW c \in Callers, Spawn(c) \/ Initialized(c) \/ AnswerOne(c) \/ Stopped(c)
      PROVE CallTypeOK'
  BY SMTT(30), <1>7 DEF Spawn, Initialized, AnswerOne, Stopped, lease, request
<1>8. ASSUME NEW c \in Callers, Send(c) PROVE CallTypeOK'
  BY <1>8 DEF Send, lease
<1>9. ASSUME NEW c \in Callers, AnswerLast(c) PROVE CallTypeOK'
  BY <1>9 DEF AnswerLast, StopTime, Least, lease, request
<1>10. ASSUME NEW c \in Callers, Join(c) PROVE CallTypeOK'
  BY <1>10 DEF Join, lease, request
<1>11. ASSUME NEW c \in Callers, Release(c) \/ DropFails(c) PROVE CallTypeOK'
  <2>1. holder' \in Callers \cup {NoCaller, Orphan} /\ expiry' \in Nat
    BY SMTT(30), <1>11 DEF Release, DropFails
  <2>2. Returned(c)
    BY <1>11 DEF Release, DropFails
  <2> QED
    BY SMTT(30), <2>1, <2>2 DEF Returned, EffectiveTtl
<1>12. ASSUME NEW c \in Callers, FinalizeFails(c) PROVE CallTypeOK'
  BY <1>12 DEF FinalizeFails, lease, request
<1>13. ASSUME NEW c \in Callers, Beat(c) PROVE CallTypeOK'
  BY SMTT(30), <1>13 DEF Beat, BeatWakes, BeatRenews, BeatLost, lease, request
<1>14. ASSUME NEW c \in Callers, Crash(c) PROVE CallTypeOK'
  BY SMTT(30), <1>14 DEF Crash, EffectiveTtl
<1>15. CASE Tick
  BY SMTT(30), <1>15 DEF Tick, Down, request
<1> QED
  BY <1>1, <1>2, <1>3, <1>4, <1>5, <1>6, <1>7, <1>8, <1>9, <1>10, <1>11, <1>12, <1>13,
     <1>14, <1>15 DEF CallNext, Work, NotVerified, SpawnFails, ExchangeFails

\* Nothing of caller d changes.
Same(d) ==
    /\ transport' = transport /\ prompt' = prompt /\ swift' = swift
    /\ pc'[d] = pc[d] /\ left'[d] = left[d] /\ slack'[d] = slack[d] /\ ttl'[d] = ttl[d]
    /\ sent'[d] = sent[d] /\ beat'[d] = beat[d] /\ wait'[d] = wait[d]

\* What a step of another caller may do to the lease.
Unhurt(d) == \/ holder' = holder /\ expiry' = expiry
             \/ ~(holder = d /\ expiry > 0) /\ holder' # d

\* A step of another caller that leaves d's lease alone while it stands keeps what
\* is known of d: every bound in the invariant is at least one.
LEMMA Elsewhere ==
    ASSUME CallInv, NEW d \in Callers, Same(d), Unhurt(d)
    PROVE  Good(d)'
<1>1. /\ left[d] \in Nat /\ slack[d] \in Nat /\ wait[d] \in Nat /\ ttl[d] \in Nat \ {0}
      /\ expiry \in Nat /\ LeaseHeartbeatInterval(ttl[d]) \in Nat
  BY IntervalIsTime DEF CallInv, CallTypeOK
<1>2. Shape(d) /\ Outlasts(d) /\ KeptUp(d)
  BY DEF CallInv, Good
<1>3. Shape(d)'
  BY <1>2 DEF Shape, Same, Unhurt
<1>4. ASSUME NEW n \in Int, Holds(d, n), n > 0 PROVE holder' = d /\ expiry' >= n
  BY SMTT(30), <1>1, <1>4 DEF Holds, Unhurt
<1>5. Outlasts(d)'
  BY SMTT(30), <1>1, <1>2, <1>4, TimeAssumption DEF Outlasts, Same, Holds, Shape
<1>6. KeptUp(d)'
  <2> SUFFICES ASSUME Watches, prompt, Roomy(ttl[d]) PROVE KeptUp(d)'
    BY DEF KeptUp, Same, Watches, Roomy, LeaseHeartbeatInterval
  <2>1. /\ Room(d, 0) \in Int /\ Room(d, Lag) \in Int /\ Room(d, Lag + Slice) \in Int
        /\ Room(d, Lag + Slice + KillTime) \in Int
        /\ Room(d, 0) > 0 /\ Room(d, Lag) > 0 /\ Room(d, Lag + Slice) > 0
        /\ Room(d, Lag + Slice + KillTime) > 0
    BY SMTT(30), <1>1, TimeAssumption DEF Room, Roomy
  <2>2. /\ Room(d, 0)' = Room(d, 0) /\ Room(d, Lag)' = Room(d, Lag)
        /\ Room(d, Lag + Slice)' = Room(d, Lag + Slice)
        /\ Room(d, Lag + Slice + KillTime)' = Room(d, Lag + Slice + KillTime)
    BY DEF Room, Same, LeaseHeartbeatInterval
  <2> QED
    BY SMTT(30), <1>1, <1>2, <1>4, <2>1, <2>2 DEF KeptUp, Same, Holds
<1> QED
  BY <1>3, <1>5, <1>6 DEF Good

\* The numbers of a caller, and the room a roomy lifetime leaves.
LEMMA Numbers ==
    ASSUME CallInv, NEW c \in Callers
    PROVE  /\ left[c] \in Nat /\ slack[c] \in Nat /\ wait[c] \in Nat /\ ttl[c] \in Nat \ {0}
           /\ expiry \in Nat /\ LeaseHeartbeatInterval(ttl[c]) \in Nat
           /\ Good(c)
  BY IntervalIsTime DEF CallInv, CallTypeOK

\* Getting the lease: it has its whole lifetime to go.
LEMMA AcquireStep ==
    ASSUME CallInv, NEW c \in Callers, Acquire(c)
    PROVE  \A d \in Callers : Good(d)'
<1> SUFFICES ASSUME NEW d \in Callers PROVE Good(d)'
  OBVIOUS
<1>1. CASE d # c
  <2>1. Same(d)
    BY <1>1 DEF Acquire, Same, request, CallInv, CallTypeOK
  <2>2. Unhurt(d)
    BY <1>1, CallerAssumption DEF Acquire, Unhurt, LeaseStands
  <2> QED
    BY <2>1, <2>2, Elsewhere
<1>2. CASE d = c
  <2>1. /\ holder' = c /\ expiry' = ttl[c] /\ pc'[c] = "verify" /\ left'[c] = Timeout
        /\ beat'[c] = "sleep" /\ wait'[c] = LeaseHeartbeatInterval(ttl[c])
        /\ ttl'[c] = ttl[c] /\ ~sent'[c]
    BY Numbers DEF Acquire, request, CallInv, CallTypeOK, Good, Shape
  <2>2. Shape(c)' /\ Outlasts(c)'
    BY SMTT(30), <2>1, Numbers, TimeAssumption DEF Shape, Outlasts, Holds
  <2>3. Room(c, 0)' = ttl[c] - LeaseHeartbeatInterval(ttl[c])
    BY SMTT(30), <2>1, Numbers DEF Room, LeaseHeartbeatInterval
  <2>4. KeptUp(c)'
    BY SMTT(30), <2>1, <2>3, Numbers DEF KeptUp, Holds
  <2> QED
    BY <1>2, <2>2, <2>4 DEF Good
<1> QED
  BY <1>1, <1>2

\* A renewal gives the lease its whole lifetime again.
LEMMA RenewStep ==
    ASSUME CallInv, NEW c \in Callers, BeatRenews(c)
    PROVE  \A d \in Callers : Good(d)'
<1> SUFFICES ASSUME NEW d \in Callers PROVE Good(d)'
  BY SMTT(30)
<1>1. CASE d # c
  <2>1. Same(d)
    BY <1>1 DEF BeatRenews, Same, request, CallInv, CallTypeOK
  <2>2. Unhurt(d)
    BY <1>1 DEF BeatRenews, Unhurt
  <2> QED
    BY SMTT(30), <2>1, <2>2, Elsewhere
<1>2. CASE d = c
  <2>1. /\ holder' = c /\ expiry' = ttl[c] /\ pc'[c] = pc[c] /\ left'[c] = left[c]
        /\ slack'[c] = slack[c] /\ beat[c] = "renew" /\ beat'[c] = "sleep"
        /\ wait'[c] = LeaseHeartbeatInterval(ttl[c]) /\ ttl'[c] = ttl[c] /\ sent'[c] = sent[c]
        /\ holder = c
    BY DEF BeatRenews, request, CallInv, CallTypeOK
  <2>2. Shape(c)'
    BY <2>1, Numbers DEF Good, Shape
  <2>3. Outlasts(c)'
    BY SMTT(30), <2>1, Numbers, TimeAssumption DEF Good, Shape, Outlasts, Holds
  <2>4. Room(c, 0)' = ttl[c] - LeaseHeartbeatInterval(ttl[c])
    BY SMTT(30), <2>1, Numbers DEF Room, LeaseHeartbeatInterval
  <2>5. KeptUp(c)'
    BY SMTT(30), <2>1, <2>4, Numbers DEF KeptUp, Holds
  <2> QED
    BY <1>2, <2>2, <2>3, <2>5 DEF Good
<1> QED
  BY SMTT(30), <1>1, <1>2

\* The end of a call, by return or by death, whatever becomes of its lease.
LEMMA EndStep ==
    ASSUME CallInv, NEW c \in Callers,
           Release(c) \/ DropFails(c) \/ Crash(c)
    PROVE  \A d \in Callers : Good(d)'
<1> SUFFICES ASSUME NEW d \in Callers PROVE Good(d)'
  OBVIOUS
<1>1. CASE d # c
  <2>1. Same(d)
    BY <1>1 DEF Release, DropFails, Crash, Returned, Same, CallInv, CallTypeOK
  <2>2. Unhurt(d)
    BY SMTT(30), <1>1, CallerAssumption DEF Release, DropFails, Crash, Unhurt
  <2> QED
    BY <2>1, <2>2, Elsewhere
<1>2. CASE d = c
  <2>1. /\ holder' # c /\ pc'[c] = "idle" /\ beat'[c] = "none" /\ ~sent'[c]
    BY SMTT(30), Numbers, CallerAssumption
       DEF Release, DropFails, Crash, Returned, CallInv, CallTypeOK, Good, Shape
  <2> QED
    BY <1>2, <2>1 DEF Good, Shape, Outlasts, KeptUp
<1> QED
  BY <1>1, <1>2

\* A step of a call that leaves the lease as it is.
Quiet(c) == \/ \E asked \in Ttls \cup {0} : Start(c, asked)
            \/ AcquireFails(c) \/ BeatWakes(c) \/ BeatLost(c)
            \/ Verified(c) \/ Spawn(c) \/ Initialized(c) \/ Send(c) \/ AnswerOne(c)
            \/ AnswerLast(c) \/ Stopped(c) \/ Join(c) \/ FinalizeFails(c)
            \/ pc[c] \in {"verify", "spawn", "init", "send", "await"} /\ Abandon(c)

\* Such a step keeps what is known of its own caller: the times it starts fit into
\* what the step before has left of the lease.
LEMMA QuietHere ==
    ASSUME CallInv, NEW c \in Callers, Quiet(c)
    PROVE  Good(c)'
<1>n. /\ left[c] \in Nat /\ slack[c] \in Nat /\ wait[c] \in Nat /\ ttl[c] \in Nat \ {0}
      /\ expiry \in Nat /\ LeaseHeartbeatInterval(ttl[c]) \in Nat
  BY Numbers
<1>g. Shape(c) /\ Outlasts(c) /\ KeptUp(c)
  BY Numbers DEF Good
<1>0. /\ UNCHANGED <<transport, prompt, swift, holder, expiry>>
      /\ Room(c, 0) = ttl[c] - LeaseHeartbeatInterval(ttl[c])
      /\ Room(c, Lag) = Room(c, 0) - Lag
      /\ Room(c, Lag + Slice) = Room(c, 0) - Lag - Slice
      /\ Room(c, Lag + Slice + KillTime) = Room(c, 0) - Lag - Slice - KillTime
      /\ Room(c, 0) \in Int
  <2>1. UNCHANGED <<transport, prompt, swift, holder, expiry>>
    BY DEF Quiet, Start, AcquireFails, BeatWakes, BeatLost, Verified, Spawn, Initialized,
           Send, AnswerOne, AnswerLast, Stopped, Join, FinalizeFails, Abandon, lease
  <2> QED
    BY SMTT(30), <1>n, <2>1, TimeAssumption DEF Room
<1> DEFINE Kept(n, m) == holder = c /\ expiry >= Room(c, n) + m
           StillKept ==
              /\ beat'[c] = "sleep" => Kept(0, wait'[c])
              /\ beat'[c] = "renew" => Kept(Lag, wait'[c])
              /\ beat'[c] = "lost" /\ sent'[c] /\ pc'[c] \in {"send", "await"} =>
                    Kept(Lag + Slice, wait'[c])
              /\ beat'[c] = "lost" /\ sent'[c] /\ pc'[c] = "stop" =>
                    Kept(Lag + Slice + KillTime, slack'[c])
<1>a. ASSUME ttl'[c] = ttl[c], Watches /\ prompt /\ Roomy(ttl[c]) => StillKept
      PROVE KeptUp(c)'
  <2>1. /\ Room(c, 0)' = Room(c, 0) /\ Room(c, Lag)' = Room(c, Lag)
        /\ Room(c, Lag + Slice)' = Room(c, Lag + Slice)
        /\ Room(c, Lag + Slice + KillTime)' = Room(c, Lag + Slice + KillTime)
    BY <1>a DEF Room, LeaseHeartbeatInterval
  <2> SUFFICES ASSUME Watches', prompt', Roomy(ttl[c])' PROVE KeptUp(c)'
    BY DEF KeptUp
  <2>2. Watches /\ prompt /\ Roomy(ttl[c])
    BY <1>0, <1>a DEF Watches, Roomy, LeaseHeartbeatInterval
  <2> QED
    BY <1>0, <1>a, <2>1, <2>2 DEF KeptUp, Holds
<1>b. ASSUME Watches, prompt, Roomy(ttl[c])
      PROVE  /\ beat[c] = "sleep" => Kept(0, wait[c])
             /\ beat[c] = "renew" => Kept(Lag, wait[c])
             /\ beat[c] = "lost" /\ sent[c] /\ pc[c] \in {"send", "await"} =>
                   Kept(Lag + Slice, wait[c])
             /\ beat[c] = "lost" /\ sent[c] /\ pc[c] = "stop" =>
                   Kept(Lag + Slice + KillTime, slack[c])
  BY <1>g, <1>b DEF KeptUp, Holds
<1>1. ASSUME (\E asked \in Ttls \cup {0} : Start(c, asked)) \/ AcquireFails(c) PROVE Good(c)'
  <2>1. /\ pc'[c] \in {"idle", "queue"} /\ beat'[c] = "none" /\ ~sent'[c] /\ holder' # c
    BY <1>g, <1>1, <1>0 DEF Start, AcquireFails, CallInv, CallTypeOK, Shape
  <2> QED
    BY <1>0, <2>1 DEF Good, Shape, Outlasts, KeptUp
<1>2. ASSUME BeatWakes(c) \/ BeatLost(c) PROVE Good(c)'
  <2>1. /\ pc'[c] = pc[c] /\ left'[c] = left[c] /\ slack'[c] = slack[c] /\ ttl'[c] = ttl[c]
        /\ sent'[c] = sent[c]
        /\ \/ beat[c] = "sleep" /\ wait[c] = 0 /\ beat'[c] = "renew" /\ wait'[c] = Lag
           \/ beat[c] = "renew" /\ beat'[c] = "lost" /\ wait'[c] = Slice
    BY <1>2 DEF BeatWakes, BeatLost, request, CallInv, CallTypeOK
  <2>2. Shape(c)' /\ Outlasts(c)'
    BY <1>n, <1>g, <1>0, <2>1, TimeAssumption DEF Shape, Outlasts, Holds
  <2>3. KeptUp(c)'
    <3> SUFFICES ASSUME Watches, prompt, Roomy(ttl[c]) PROVE StillKept
      BY <1>a, <2>1
    <3>1. CASE beat[c] = "sleep"
      <4>1. Kept(0, 0) /\ beat'[c] = "renew" /\ wait'[c] = Lag
        BY <1>b, <2>1, <3>1
      <4>2. Kept(Lag, wait'[c])
        BY SMTT(30), <1>n, <1>0, <4>1, TimeAssumption
      <4> QED
        BY <4>1, <4>2
    <3>2. CASE beat[c] = "renew"
      <4>1. Kept(Lag, wait[c]) /\ beat'[c] = "lost" /\ wait'[c] = Slice
        BY <1>b, <2>1, <3>2
      <4>2. Kept(Lag + Slice, wait'[c])
        BY SMTT(30), <1>n, <1>0, <4>1, TimeAssumption
      <4>3. pc'[c] = "stop" => Kept(Lag + Slice + KillTime, slack'[c])
        BY SMTT(30), <1>n, <1>g, <1>0, <2>1, <4>1, TimeAssumption DEF Shape
      <4> QED
        BY <4>1, <4>2, <4>3
    <3> QED
      BY <2>1, <3>1, <3>2
  <2> QED
    BY <2>2, <2>3 DEF Good
<1>3. ASSUME Verified(c) \/ Spawn(c) \/ Initialized(c) \/ AnswerOne(c) PROVE Good(c)'
  <2>1. /\ left'[c] = left[c] /\ ttl'[c] = ttl[c] /\ sent'[c] = sent[c]
        /\ beat'[c] = beat[c] /\ wait'[c] = wait[c]
        /\ \/ pc[c] = "verify" /\ left[c] > 0 /\ pc'[c] = "spawn" /\ slack'[c] = SpawnTime
           \/ pc[c] = "verify" /\ left[c] > 0 /\ pc'[c] \in {"init", "send"}
           \/ pc[c] = "spawn" /\ pc'[c] = "init"
           \/ pc[c] \in {"init", "await"} /\ pc'[c] = "send" /\ (Watches => ~Lost(c))
    BY <1>3 DEF Verified, Spawn, Initialized, AnswerOne, Accepts, MayGoOn, request, CallInv, CallTypeOK
  <2>2. Shape(c)' /\ Outlasts(c)'
    <3>1. Shape(c)'
      BY <1>n, <1>g, <1>0, <2>1, TimeAssumption, SMTT(20) DEF Shape
    <3>2. Outlasts(c)'
      BY SMTT(30), <1>n, <1>g, <1>0, <2>1, TimeAssumption DEF Shape, Outlasts, Holds
    <3> QED
      BY <3>1, <3>2
  <2>3. KeptUp(c)'
    <3> SUFFICES ASSUME Watches, prompt, Roomy(ttl[c]) PROVE StillKept
      BY <1>a, <2>1
    <3> QED
      BY <1>b, <1>g, <2>1 DEF Shape, Lost
  <2> QED
    BY SMTT(30), <2>2, <2>3 DEF Good
<1>4. ASSUME Send(c) PROVE Good(c)'
  <2>1. /\ left'[c] = left[c] /\ ttl'[c] = ttl[c] /\ sent'[c]
        /\ beat'[c] = beat[c] /\ wait'[c] = wait[c]
        /\ pc[c] = "send" /\ pc'[c] = "await" /\ (Watches => ~Lost(c))
    BY <1>4 DEF Send, MayGoOn, CallInv, CallTypeOK
  <2>2. Shape(c)' /\ Outlasts(c)'
    BY <1>n, <1>g, <1>0, <2>1, TimeAssumption DEF Shape, Outlasts, Holds
  <2>3. KeptUp(c)'
    <3> SUFFICES ASSUME Watches, prompt, Roomy(ttl[c]) PROVE StillKept
      BY <1>a, <2>1
    <3> QED
      BY <1>b, <1>g, <2>1 DEF Shape, Lost
  <2> QED
    BY SMTT(30), <2>2, <2>3 DEF Good
<1>5. ASSUME \/ AnswerLast(c)
             \/ pc[c] \in {"verify", "spawn", "init", "send", "await"} /\ Abandon(c)
      PROVE Good(c)'
  <2>1. /\ ttl'[c] = ttl[c] /\ sent'[c] = sent[c] /\ beat'[c] = beat[c] /\ wait'[c] = wait[c]
        /\ pc[c] \in {"verify", "spawn", "init", "send", "await"}
        /\ slack'[c] \in Nat /\ slack'[c] <= KillTime
        /\ \/ pc'[c] = "stop" /\ (transport # "http" => slack'[c] = KillTime)
           \/ pc'[c] = "join"
    BY SMTT(30), <1>n, <1>5, TimeAssumption
       DEF AnswerLast, Accepts, Abandon, StopTime, Least, request, CallInv, CallTypeOK
  <2>2. Shape(c)' /\ Outlasts(c)'
    BY SMTT(30), <1>n, <1>g, <1>0, <2>1, TimeAssumption DEF Shape, Outlasts, Holds
  <2>3. KeptUp(c)'
    <3> SUFFICES ASSUME Watches, prompt, Roomy(ttl[c]) PROVE StillKept
      BY <1>a, <2>1
    <3>1. pc'[c] \notin {"send", "await"}
      BY <2>1
    <3>2. ASSUME beat[c] = "lost", sent[c], pc'[c] = "stop"
          PROVE  Kept(Lag + Slice + KillTime, slack'[c])
      <4>1. Kept(Lag + Slice, wait[c]) /\ slack'[c] = KillTime
        BY <1>b, <1>g, <2>1, <3>2 DEF Shape, Watches
      <4> QED
        BY SMTT(30), <1>n, <1>0, <4>1, TimeAssumption
    <3> QED
      BY <1>b, <2>1, <3>1, <3>2
  <2> QED
    BY SMTT(30), <2>2, <2>3 DEF Good
<1>6. ASSUME Stopped(c) \/ Join(c) \/ FinalizeFails(c) PROVE Good(c)'
  <2>1. /\ ttl'[c] = ttl[c] /\ sent'[c] = sent[c]
        /\ \/ pc[c] = "stop" /\ pc'[c] = "join" /\ beat'[c] = beat[c] /\ wait'[c] = wait[c]
           \/ pc'[c] \in {"finalize", "drop"} /\ beat'[c] = "none"
    BY <1>g, <1>6 DEF Stopped, Join, FinalizeFails, request, CallInv, CallTypeOK, Shape
  <2>2. Shape(c)' /\ Outlasts(c)'
    BY <1>g, <1>0, <2>1 DEF Shape, Outlasts
  <2>3. KeptUp(c)'
    <3> SUFFICES ASSUME Watches, prompt, Roomy(ttl[c]) PROVE StillKept
      BY <1>a, <2>1
    <3> QED
      BY <1>b, <2>1
  <2> QED
    BY SMTT(30), <2>2, <2>3 DEF Good
<1> QED
  BY <1>1, <1>2, <1>3, <1>4, <1>5, <1>6 DEF Quiet

\* Such a step does not touch the other callers.
LEMMA QuietStep ==
    ASSUME CallInv, NEW c \in Callers, Quiet(c)
    PROVE  \A d \in Callers : Good(d)'
<1> SUFFICES ASSUME NEW d \in Callers, d # c PROVE Good(d)'
  BY QuietHere
<1>1. Same(d) /\ UNCHANGED lease
  BY SMTT(30) DEF Same, Quiet, Start, AcquireFails, BeatWakes, BeatLost, Verified, Spawn, Initialized,
         Send, AnswerOne, AnswerLast, Stopped, Join, FinalizeFails, Abandon, lease, request,
         CallInv, CallTypeOK
<1> QED
  BY <1>1, Elsewhere DEF Unhurt, lease

\* Time takes from the lease no more than from what the lease has to outlast: what is
\* overdue holds it back.
LEMMA TickStep ==
    ASSUME CallInv, Tick
    PROVE  \A c \in Callers : Good(c)'
<1> SUFFICES ASSUME NEW c \in Callers PROVE Good(c)'
  OBVIOUS
<1>n. /\ left[c] \in Nat /\ slack[c] \in Nat /\ wait[c] \in Nat /\ ttl[c] \in Nat \ {0}
      /\ expiry \in Nat /\ LeaseHeartbeatInterval(ttl[c]) \in Nat
  BY Numbers
<1>g. Shape(c) /\ Outlasts(c) /\ KeptUp(c)
  BY Numbers DEF Good
<1>1. /\ UNCHANGED <<transport, prompt, swift, holder>> /\ pc'[c] = pc[c] /\ ttl'[c] = ttl[c]
      /\ sent'[c] = sent[c] /\ beat'[c] = beat[c]
      /\ expiry' = Down(expiry) /\ wait'[c] = Down(wait[c])
      /\ left'[c] = IF Timed(c) THEN Down(left[c]) ELSE left[c]
      /\ slack'[c] = IF Untimed(c) THEN Down(slack[c]) ELSE slack[c]
      /\ Polls(c) /\ BeatMeetsLag(c) /\ InBounds(c)
  BY DEF Tick, request
<1>d. ASSUME NEW n \in Nat
      PROVE  Down(n) \in Nat /\ Down(n) <= n /\ Down(n) >= n - 1 /\ (n > 0 => Down(n) = n - 1)
  BY SMTT(30) DEF Down
<1>e. expiry' \in Nat /\ expiry' >= expiry - 1
  BY <1>n, <1>1, <1>d
<1>l. /\ left'[c] \in Nat /\ left'[c] <= left[c]
      /\ ~Timed(c) => left'[c] = left[c]
      /\ Timed(c) /\ left[c] > 0 => left'[c] = left[c] - 1
      /\ Timed(c) /\ left'[c] > 0 => left[c] > 0
  <2>1. CASE Timed(c)
    <3>1. left'[c] = Down(left[c])
      BY <1>1, <2>1
    <3> QED BY SMTT(30), <1>n, <1>d, <2>1, <3>1
  <2>2. CASE ~Timed(c)
    <3>1. left'[c] = left[c]
      BY <1>1, <2>2
    <3> QED BY SMTT(30), <1>n, <2>2, <3>1
  <2> QED BY <2>1, <2>2
<1>s. /\ slack'[c] \in Nat /\ slack'[c] <= slack[c]
      /\ Untimed(c) /\ (swift \/ pc[c] = "stop") => slack'[c] = slack[c] - 1
  <2>1. slack'[c] \in Nat /\ slack'[c] <= slack[c]
    BY SMTT(30), <1>n, <1>1, <1>d
  <2>2. ASSUME Untimed(c), swift \/ pc[c] = "stop" PROVE slack'[c] = slack[c] - 1
    <3>1. slack[c] > 0 /\ slack'[c] = Down(slack[c])
      BY <1>1, <2>2 DEF InBounds
    <3> QED BY <1>n, <1>d, <3>1
  <2> QED BY <2>1, <2>2
<1>w. wait'[c] \in Nat /\ (wait[c] > 0 => wait'[c] = wait[c] - 1)
  BY <1>n, <1>1, <1>d
<1>3. Shape(c)'
  BY SMTT(30), <1>n, <1>g, <1>1, <1>l, <1>s, TimeAssumption DEF Shape
<1>4. Outlasts(c)'
  <2> SUFFICES ASSUME swift, Timeout + SpawnTime + KillTime < ttl[c] PROVE Outlasts(c)'
    BY <1>1 DEF Outlasts
  <2>1. CASE pc[c] = "verify" /\ left'[c] > 0
    <3>1. holder = c /\ expiry >= left[c] + SpawnTime + KillTime + 1 /\ left'[c] = left[c] - 1
      BY <1>g, <1>l, <2>1 DEF Outlasts, Holds, Timed
    <3>2. expiry' >= left'[c] + SpawnTime + KillTime + 1
      BY SMTT(30), <1>n, <1>e, <3>1, TimeAssumption
    <3> QED
      BY <1>1, <2>1, <3>1, <3>2 DEF Outlasts, Holds
  <2>2. CASE pc[c] = "spawn"
    <3>1. /\ holder = c /\ expiry >= left[c] + KillTime + 1 + slack[c]
          /\ left'[c] = left[c] /\ slack'[c] = slack[c] - 1
      BY <1>g, <1>l, <1>s, <2>2 DEF Outlasts, Holds, Timed, Untimed
    <3>2. expiry' >= left'[c] + KillTime + 1 + slack'[c]
      BY SMTT(30), <1>n, <1>e, <3>1, TimeAssumption
    <3> QED
      BY <1>1, <2>2, <3>1, <3>2 DEF Outlasts, Holds
  <2>3. CASE pc[c] = "stop" /\ sent[c]
    <3>1. /\ holder = c /\ expiry >= 1 + slack[c]
          /\ slack'[c] = slack[c] - 1
      BY <1>g, <1>s, <2>3 DEF Outlasts, Holds, Untimed
    <3>2. expiry' >= 1 + slack'[c]
      BY SMTT(30), <1>n, <1>e, <3>1, TimeAssumption
    <3> QED
      BY <1>1, <2>3, <3>1, <3>2 DEF Outlasts, Holds
  <2>4. CASE pc[c] \in {"init", "send", "await"}
    <3>1. holder = c /\ expiry >= left[c] + KillTime + 1 /\ left'[c] = left[c] - 1
      BY <1>g, <1>1, <1>l, <2>4 DEF Outlasts, Holds, Timed, Polls
    <3>2. expiry' >= left'[c] + KillTime + 1
      BY SMTT(30), <1>n, <1>e, <3>1, TimeAssumption
    <3> QED
      BY <1>1, <2>4, <3>1, <3>2 DEF Outlasts, Holds
  <2> QED
    BY <1>1, <2>1, <2>2, <2>3, <2>4 DEF Outlasts
<1>5. KeptUp(c)'
  <2> SUFFICES ASSUME Watches, prompt, Roomy(ttl[c]) PROVE KeptUp(c)'
    BY <1>1 DEF KeptUp, Watches, Roomy, LeaseHeartbeatInterval
  <2>1. /\ Room(c, 0)' = Room(c, 0) /\ Room(c, Lag)' = Room(c, Lag)
        /\ Room(c, Lag + Slice)' = Room(c, Lag + Slice)
        /\ Room(c, Lag + Slice + KillTime)' = Room(c, Lag + Slice + KillTime)
    BY <1>1 DEF Room, LeaseHeartbeatInterval
  <2>0. /\ Room(c, 0) \in Int /\ Room(c, Lag) \in Int /\ Room(c, Lag + Slice) \in Int
        /\ Room(c, Lag + Slice + KillTime) \in Int
    BY SMTT(30), <1>n, TimeAssumption DEF Room
  <2>2. CASE beat[c] = "sleep"
    <3>1. holder = c /\ expiry >= Room(c, 0) + wait[c] /\ wait'[c] = wait[c] - 1
      BY <1>g, <1>1, <1>w, <2>2 DEF KeptUp, Holds, BeatMeetsLag
    <3>2. expiry' >= Room(c, 0) + wait'[c]
      BY SMTT(30), <1>n, <1>e, <2>0, <3>1
    <3> QED
      BY <1>1, <2>1, <2>2, <3>1, <3>2 DEF KeptUp, Holds
  <2>3. CASE beat[c] = "renew"
    <3>1. holder = c /\ expiry >= Room(c, Lag) + wait[c] /\ wait'[c] = wait[c] - 1
      BY <1>g, <1>1, <1>w, <2>3 DEF KeptUp, Holds, BeatMeetsLag
    <3>2. expiry' >= Room(c, Lag) + wait'[c]
      BY SMTT(30), <1>n, <1>e, <2>0, <3>1
    <3> QED
      BY <1>1, <2>1, <2>3, <3>1, <3>2 DEF KeptUp, Holds
  <2>4. CASE beat[c] = "lost" /\ sent[c] /\ pc[c] \in {"send", "await"}
    <3>1. holder = c /\ expiry >= Room(c, Lag + Slice) + wait[c] /\ wait'[c] = wait[c] - 1
      BY <1>g, <1>1, <1>w, <2>4 DEF KeptUp, Holds, Polls, Lost
    <3>2. expiry' >= Room(c, Lag + Slice) + wait'[c]
      BY SMTT(30), <1>n, <1>e, <2>0, <3>1
    <3> QED
      BY <1>1, <2>1, <2>4, <3>1, <3>2 DEF KeptUp, Holds
  <2>5. CASE beat[c] = "lost" /\ sent[c] /\ pc[c] = "stop"
    <3>1. /\ holder = c /\ expiry >= Room(c, Lag + Slice + KillTime) + slack[c]
          /\ slack'[c] = slack[c] - 1
      BY <1>g, <1>s, <2>5 DEF KeptUp, Holds, Untimed
    <3>2. expiry' >= Room(c, Lag + Slice + KillTime) + slack'[c]
      BY SMTT(30), <1>n, <1>e, <2>0, <3>1
    <3> QED
      BY <1>1, <2>1, <2>5, <3>1, <3>2 DEF KeptUp, Holds
  <2> QED
    BY <1>1, <2>2, <2>3, <2>4, <2>5 DEF KeptUp
<1> QED
  BY <1>3, <1>4, <1>5 DEF Good

\* The invariant holds at the start and every step keeps it.
THEOREM CallInvariant == CallSpec => []CallInv
<1>1. CallInit => CallInv
  <2> SUFFICES ASSUME CallInit PROVE CallInv
    OBVIOUS
  <2>1. CallTypeOK
    BY SMTT(30), TimeAssumption DEF CallInit, CallTypeOK
  <2>2. ASSUME NEW c \in Callers PROVE Good(c)
    BY <2>2, CallerAssumption DEF CallInit, Good, Shape, Outlasts, KeptUp
  <2> QED
    BY <2>1, <2>2 DEF CallInv
<1>2. CallInv /\ [CallNext]_callVars => CallInv'
  <2> SUFFICES ASSUME CallInv, [CallNext]_callVars PROVE CallInv'
    BY SMTT(30)
  <2>1. CallTypeOK'
    BY TypeStep DEF CallInv
  <2>2. \A c \in Callers : Good(c)'
    <3>1. CASE UNCHANGED callVars
      BY <3>1, Elsewhere DEF callVars, Same, Unhurt
    <3>2. ASSUME NEW c \in Callers, Acquire(c) PROVE \A d \in Callers : Good(d)'
      BY <3>2, AcquireStep
    <3>3. ASSUME NEW c \in Callers, BeatRenews(c) PROVE \A d \in Callers : Good(d)'
      BY SMTT(30), <3>3, RenewStep
    <3>4. ASSUME NEW c \in Callers, Release(c) \/ DropFails(c) \/ Crash(c)
          PROVE \A d \in Callers : Good(d)'
      BY <3>4, EndStep
    <3>5. ASSUME NEW c \in Callers, Quiet(c) PROVE \A d \in Callers : Good(d)'
      BY <3>5, QuietStep
    <3>6. CASE Tick
      BY <3>6, TickStep
    <3> QED
      BY <3>1, <3>2, <3>3, <3>4, <3>5, <3>6
         DEF CallNext, Work, Beat, Quiet, NotVerified, SpawnFails, ExchangeFails
  <2> QED
    BY <2>1, <2>2 DEF CallInv
<1> QED
  BY <1>1, <1>2, PTL DEF CallSpec

\* A tool call is out only while its caller's lease stands: call_tool_with_context and
\* its variants, for every set of callers and every choice of times, with a lifetime that
\* is long enough for the start, the call and the termination of its process, or with a
\* heartbeat that is on time.
THEOREM CallsAreLeased == CallSpec => []UseIsLeased
<1>1. CallInv => UseIsLeased
  <2> SUFFICES ASSUME CallInv, NEW c \in Callers, Using(c), Covered(c)
               PROVE  holder = c /\ expiry > 0
    BY DEF UseIsLeased
  <2>n. /\ left[c] \in Nat /\ slack[c] \in Nat /\ wait[c] \in Nat /\ ttl[c] \in Nat \ {0}
        /\ expiry \in Nat /\ LeaseHeartbeatInterval(ttl[c]) \in Nat
    BY Numbers
  <2>g. Shape(c) /\ Outlasts(c) /\ KeptUp(c)
    BY Numbers DEF Good
  <2>1. sent[c] /\ beat[c] \in {"sleep", "renew", "lost"} /\ pc[c] \in {"send", "await", "stop"}
    BY <2>g DEF Using, Shape, CallInv, CallTypeOK
  <2>2. CASE swift /\ Timeout + SpawnTime + KillTime < ttl[c]
    BY SMTT(30), <2>n, <2>g, <2>1, <2>2, TimeAssumption DEF Shape, Outlasts, Holds
  <2>3. CASE Watches /\ prompt /\ Roomy(ttl[c])
    <3> DEFINE Rest == {Room(c, 0) + wait[c], Room(c, Lag) + wait[c], Room(c, Lag + Slice) + wait[c],
                        Room(c, Lag + Slice + KillTime) + slack[c]}
    <3>1. LeaseHeartbeatInterval(ttl[c]) + Lag + Slice + KillTime < ttl[c]
      BY <2>3 DEF Roomy
    <3>2. \A n \in Rest : n \in Int /\ n > 0
      BY SMTT(30), <2>n, <3>1, TimeAssumption DEF Room
    <3>3. \E n \in Rest : Holds(c, n)
      BY <2>g, <2>1, <2>3 DEF KeptUp
    <3> HIDE DEF Rest
    <3> QED
      BY SMTT(30), <2>n, <3>2, <3>3 DEF Holds
  <2> QED
    BY <2>2, <2>3 DEF Covered
<1> QED
  BY <1>1, CallInvariant, PTL

\* A call that has returned has no heartbeat thread, and no lease that is still its
\* own: UpstreamLeaseGuard joins the thread before it releases.
THEOREM CallsCleanUp == CallSpec => []NothingLeftBehind
<1>1. CallInv => NothingLeftBehind
  BY DEF CallInv, Good, Shape, NothingLeftBehind
<1> QED
  BY <1>1, CallInvariant, PTL

-----------------------------------------------------------------------------
(* The HTTP sessions.                                                       *)

\* What a session in the store remembers: it was issued, its ids include every id
\* that was answered in it, and it is marked ready only after the notification.
Remembered ==
    /\ \A q \in Requests : handled[q] > 0 => q[1] \in issued
    /\ \A s \in Open(sessions) :
          /\ s \in issued
          /\ \A r \in RequestIds : handled[<<s, r>>] > 0 => r \in sessions[s].seen
          /\ sessions[s].initialized => s \in notified

\* The store never holds more sessions than its limit.
Bounded == IsFiniteSet(Open(sessions)) /\ Cardinality(Open(sessions)) <= max_sessions

IInv == TypeOK /\ HandledOnce /\ WorkAfterHandshake /\ Remembered /\ Bounded

-----------------------------------------------------------------------------
(* The store's operators.                                                   *)

\* Keeping only some sessions of a store leaves a store, with those sessions as
\* they were.
LEMMA OnlyShape ==
    ASSUME NEW ss \in [SessionIds -> McpHttpSession \cup {NoSession}], NEW kept
    PROVE  /\ Only(ss, kept) \in [SessionIds -> McpHttpSession \cup {NoSession}]
           /\ Open(Only(ss, kept)) = Open(ss) \cap kept
           /\ \A s \in Open(Only(ss, kept)) : Only(ss, kept)[s] = ss[s]
  BY DEF Only, Open

\* prune_expired leaves exactly the live sessions.
LEMMA PruneShape ==
    ASSUME TypeOK
    PROVE  /\ prune_expired \in [SessionIds -> McpHttpSession \cup {NoSession}]
           /\ Open(prune_expired) = {s \in SessionIds : Live(s)}
           /\ Open(prune_expired) \subseteq Open(sessions)
           /\ \A s \in Open(prune_expired) : prune_expired[s] = sessions[s]
  BY SMTT(30), OnlyShape DEF prune_expired, TypeOK, Open, Live

\* evict_until_capacity_for_insert leaves room for one session; a session it drops is
\* one of the least recently seen, and it drops one only from a full store.
LEMMA EvictShape ==
    ASSUME NEW ss \in [SessionIds -> McpHttpSession \cup {NoSession}],
           IsFiniteSet(Open(ss)), Cardinality(Open(ss)) <= max_sessions,
           NEW tt \in evict_until_capacity_for_insert(ss)
    PROVE  /\ tt \in [SessionIds -> McpHttpSession \cup {NoSession}]
           /\ Open(tt) \subseteq Open(ss)
           /\ \A s \in Open(tt) : tt[s] = ss[s]
           /\ IsFiniteSet(Open(tt)) /\ Cardinality(Open(tt)) < max_sessions
           /\ \A s \in Open(ss) \ Open(tt) :
                 /\ Cardinality(Open(ss)) >= max_sessions
                 /\ \A t \in Open(ss) : ss[s].last_seen <= ss[t].last_seen
<1> Cardinality(Open(ss)) \in Nat /\ max_sessions \in Nat \ {0}
  BY FS_CardinalityType, SessionAssumption
<1>1. CASE Cardinality(Open(ss)) < max_sessions
  BY <1>1 DEF evict_until_capacity_for_insert
<1>2. CASE ~(Cardinality(Open(ss)) < max_sessions)
  <2>1. PICK k \in SUBSET Open(ss) :
           /\ tt = Only(ss, k)
           /\ Cardinality(k) = max_sessions - 1
           /\ \A s \in k, t \in Open(ss) \ k : ss[t].last_seen <= ss[s].last_seen
    BY <1>2 DEF evict_until_capacity_for_insert
  <2>2. Open(tt) = k
    <3>1. Open(Only(ss, k)) = Open(ss) \cap k
      BY OnlyShape
    <3> QED BY <2>1, <3>1
  <2>3. IsFiniteSet(k)
    BY FS_Subset
  <2>4. IsFiniteSet(Open(ss) \ k) /\ Cardinality(Open(ss) \ k) = 1
    <3>1. IsFiniteSet(Open(ss) \ k)
      BY FS_Difference
    <3>2. Cardinality(Open(ss) \ k) = Cardinality(Open(ss)) - Cardinality(Open(ss) \cap k)
      BY FS_Difference
    <3>3. Open(ss) \cap k = k
      OBVIOUS
    <3> QED BY SMTT(30), <1>2, <2>1, <3>1, <3>2, <3>3
  <2>5. PICK x : Open(ss) \ k = {x}
    BY <2>4, FS_Singleton
  <2>6. \A s, t \in Open(ss) \ k : s = t
    BY <2>5
  <2>7. \A t \in Open(ss) : ss[t].last_seen \in Int
    BY SMTT(30) DEF Open, McpHttpSession
  <2>8. \A s \in Open(ss) \ Open(tt), t \in Open(ss) : ss[s].last_seen <= ss[t].last_seen
    BY SMTT(30), <2>1, <2>2, <2>6, <2>7
  <2>9. /\ tt \in [SessionIds -> McpHttpSession \cup {NoSession}]
        /\ \A s \in Open(tt) : tt[s] = ss[s]
    BY SMTT(30), <2>1, OnlyShape
  <2>10. Cardinality(Open(tt)) < max_sessions
    BY SMTT(30), <2>1, <2>2
  <2> QED BY SMTT(30), <1>2, <2>2, <2>3, <2>8, <2>9, <2>10
<1> QED BY <1>1, <1>2

\* A touched session is a session with the same ids.
LEMMA TouchShapes ==
    ASSUME TypeOK, NEW x \in McpHttpSession
    PROVE  /\ Touched(x) \in McpHttpSession
           /\ Touched(x).seen = x.seen /\ Touched(x).initialized = x.initialized
           /\ [Touched(x) EXCEPT !.initialized = TRUE] \in McpHttpSession
           /\ [Touched(x) EXCEPT !.initialized = TRUE].seen = x.seen
<1>1. /\ Touched(x) \in McpHttpSession
      /\ Touched(x).seen = x.seen /\ Touched(x).initialized = x.initialized
  <2> DEFINE a == [x EXCEPT !.last_seen = now]
  <2>1. /\ a \in McpHttpSession
        /\ a.seen = x.seen /\ a.initialized = x.initialized
    BY DEF McpHttpSession, TypeOK
  <2>2. Touched(x) = [a EXCEPT !.expires = now + ttl_ms]
    BY DEF Touched
  <2> HIDE DEF a
  <2> QED BY SMTT(30), <2>1, <2>2, SessionAssumption DEF McpHttpSession, TypeOK
<1>2. /\ [Touched(x) EXCEPT !.initialized = TRUE] \in McpHttpSession
      /\ [Touched(x) EXCEPT !.initialized = TRUE].seen = x.seen
  BY <1>1 DEF McpHttpSession
<1> QED BY <1>1, <1>2

\* A session that takes an id in is a session with that id and the others.
LEMMA TrackShapes ==
    ASSUME NEW y \in McpHttpSession, NEW r \in RequestIds
    PROVE  /\ Tracked(y, r) \in McpHttpSession
           /\ Tracked(y, r).seen = y.seen \cup {r}
           /\ Tracked(y, r).initialized = y.initialized
<1> DEFINE a == [y EXCEPT !.seen = @ \cup {r}]
<1>1. /\ a \in McpHttpSession
      /\ a.seen = y.seen \cup {r} /\ a.initialized = y.initialized /\ a.seen_bytes = y.seen_bytes
  BY DEF McpHttpSession
<1>2. Tracked(y, r) = [a EXCEPT !.seen_bytes = @ + Size[r]]
  BY <1>1 DEF Tracked
<1> HIDE DEF a
<1>3. /\ Tracked(y, r) \in McpHttpSession
      /\ Tracked(y, r).seen = a.seen /\ Tracked(y, r).initialized = a.initialized
  BY SMTT(30), <1>1, <1>2, SessionAssumption DEF McpHttpSession
<1> QED BY <1>1, <1>3

\* What a request leaves of its session, whether its id is taken in or not.
LEMMA RequestShapes ==
    ASSUME TypeOK, NEW x \in McpHttpSession, NEW r \in RequestIds, NEW tracked \in BOOLEAN,
           NEW y, y = IF tracked THEN Tracked(Touched(x), r) ELSE Touched(x)
    PROVE  /\ y \in McpHttpSession /\ x.seen \subseteq y.seen
           /\ y.initialized = x.initialized /\ (tracked => r \in y.seen)
<1> DEFINE z == Touched(x)
<1>1. z \in McpHttpSession /\ z.seen = x.seen /\ z.initialized = x.initialized
  BY TouchShapes
<1> HIDE DEF z
<1>2. /\ Tracked(z, r) \in McpHttpSession /\ Tracked(z, r).seen = z.seen \cup {r}
      /\ Tracked(z, r).initialized = z.initialized
  BY <1>1, TrackShapes
<1>3. CASE tracked
  <2>1. y = Tracked(z, r)
    BY <1>3 DEF z
  <2> QED BY <1>1, <1>2, <2>1
<1>4. CASE ~tracked
  <2>1. y = z
    BY <1>4 DEF z
  <2> QED BY <1>1, <1>4, <2>1
<1> QED BY <1>3, <1>4

-----------------------------------------------------------------------------
(* The inductive step.                                                      *)

\* Sessions that leave the store take nothing with them that the invariant needs.
LEMMA RemovalKeepsInv ==
    ASSUME IInv,
           sessions' \in [SessionIds -> McpHttpSession \cup {NoSession}],
           Open(sessions') \subseteq Open(sessions),
           \A s \in Open(sessions') : sessions'[s] = sessions[s],
           now' \in 0 .. MaxTime, issued' \subseteq SessionIds, closed' \subseteq SessionIds,
           issued \subseteq issued',
           UNCHANGED <<notified, worked, handled>>
    PROVE  IInv'
<1>1. TypeOK'
  BY DEF IInv, TypeOK
<1>2. HandledOnce' /\ WorkAfterHandshake'
  BY DEF IInv, HandledOnce, WorkAfterHandshake
<1>3. Remembered'
  BY DEF IInv, Remembered, Requests
<1>4. Bounded'
  <2>1. /\ IsFiniteSet(Open(sessions'))
        /\ Cardinality(Open(sessions')) <= Cardinality(Open(sessions))
        /\ Cardinality(Open(sessions)) \in Nat /\ Cardinality(Open(sessions')) \in Nat
    BY FS_Subset, FS_CardinalityType DEF IInv, Bounded
  <2>2. Open(sessions)' = Open(sessions')
    BY DEF Open
  <2> QED BY SMTT(30), <2>1, <2>2, SessionAssumption DEF IInv, Bounded
<1> QED BY <1>1, <1>2, <1>3, <1>4 DEF IInv

\* A session that stays in the store may be touched, marked ready once its client
\* notified it, and take in one more id, which alone is answered.
LEMMA UpdateKeepsInv ==
    ASSUME IInv, NEW s \in Open(sessions), NEW x \in McpHttpSession,
           sessions' = [sessions EXCEPT ![s] = x],
           sessions[s].seen \subseteq x.seen,
           x.initialized => s \in notified',
           notified \subseteq notified', notified' \subseteq SessionIds,
           worked' = worked \/ (worked' = worked \cup {s} /\ sessions[s].initialized),
           \/ UNCHANGED handled
           \/ \E r \in RequestIds : r \notin sessions[s].seen /\ r \in x.seen /\ Handle(s, r),
           UNCHANGED <<now, issued, closed>>
    PROVE  IInv'
<1> s \in SessionIds /\ s \in issued /\ sessions \in [SessionIds -> McpHttpSession \cup {NoSession}]
  BY DEF IInv, Remembered, TypeOK, Open
<1>0. x # NoSession
  BY NoSessionAssumption
<1>1. /\ Open(sessions') = Open(sessions)
      /\ \A t \in SessionIds : sessions'[t] = IF t = s THEN x ELSE sessions[t]
      /\ sessions' \in [SessionIds -> McpHttpSession \cup {NoSession}]
  BY <1>0 DEF Open
<1> DEFINE Answers ==
       /\ handled' \in [Requests -> 0 .. 2] /\ HandledOnce'
       /\ \A q \in Requests : handled'[q] > 0 => handled[q] > 0 \/ (q[1] = s /\ q[2] \in x.seen)
<1>2. Answers
  <2>1. CASE UNCHANGED handled
    BY <2>1 DEF IInv, TypeOK, HandledOnce
  <2>2. ASSUME NEW r \in RequestIds, r \notin sessions[s].seen, r \in x.seen, Handle(s, r)
        PROVE  Answers
    <3>1. <<s, r>> \in Requests
      BY DEF Requests
    <3>2. handled[<<s, r>>] = 0
      BY SMTT(30), <2>2, <3>1 DEF IInv, Remembered, TypeOK
    <3>3. handled' = [handled EXCEPT ![<<s, r>>] = 1]
      BY SMTT(30), <2>2, <3>1, <3>2 DEF Handle, IInv, TypeOK
    <3>4. handled' \in [Requests -> 0 .. 2]
      BY SMTT(30), <3>1, <3>3 DEF IInv, TypeOK
    <3>5. HandledOnce'
      BY SMTT(30), <3>1, <3>3 DEF IInv, TypeOK, HandledOnce
    <3>6. \A q \in Requests : handled'[q] > 0 => handled[q] > 0 \/ (q[1] = s /\ q[2] \in x.seen)
      BY SMTT(30), <2>2, <3>1, <3>3 DEF IInv, TypeOK
    <3> QED BY <3>4, <3>5, <3>6
  <2> QED BY <2>1, <2>2
<1>3. worked' \subseteq notified' /\ worked' \subseteq SessionIds
  BY DEF IInv, WorkAfterHandshake, Remembered, TypeOK
<1>4. TypeOK'
  BY <1>1, <1>2, <1>3 DEF IInv, TypeOK
<1>5. Remembered'
  <2>1. \A q \in Requests : handled'[q] > 0 => q[1] \in issued
    BY <1>2 DEF IInv, Remembered
  <2>2. ASSUME NEW t \in Open(sessions), NEW r \in RequestIds, handled'[<<t, r>>] > 0
        PROVE  r \in sessions'[t].seen
    <3>1. <<t, r>> \in Requests /\ <<t, r>>[1] = t /\ <<t, r>>[2] = r
      BY DEF Requests, Open
    <3>2. handled[<<t, r>>] > 0 \/ (t = s /\ r \in x.seen)
      BY <1>2, <2>2, <3>1
    <3> QED BY <1>1, <3>2 DEF IInv, Remembered, Open
  <2>3. \A t \in Open(sessions) : sessions'[t].initialized => t \in notified'
    BY <1>1 DEF IInv, Remembered, Open
  <2>4. Open(sessions)' = Open(sessions)
    BY <1>1 DEF Open
  <2>5. \A t \in Open(sessions) : t \in issued
    BY DEF IInv, Remembered
  <2> QED BY <2>1, <2>2, <2>3, <2>4, <2>5 DEF Remembered
<1>6. Bounded'
  <2>1. Open(sessions)' = Open(sessions)
    BY SMTT(30), <1>1 DEF Open
  <2> QED BY <2>1 DEF IInv, Bounded
<1> QED BY <1>2, <1>3, <1>4, <1>5, <1>6 DEF IInv, WorkAfterHandshake

\* A refused initialize only removes sessions; one that succeeds puts a new session,
\* with an id nobody has, where there is room for it.
LEMMA InitializeKeepsInv ==
    ASSUME IInv, NEW s \in SessionIds, NEW r \in RequestIds, Initialize(s, r)
    PROVE  IInv'
<1> SessionIds # {} /\ TypeOK /\ <<s, r>> \in Requests
  BY DEF IInv, Requests
<1>1. /\ prune_expired \in [SessionIds -> McpHttpSession \cup {NoSession}]
      /\ IsFiniteSet(Open(prune_expired)) /\ Cardinality(Open(prune_expired)) <= max_sessions
      /\ Open(prune_expired) \subseteq Open(sessions)
      /\ \A t \in Open(prune_expired) : prune_expired[t] = sessions[t]
  <2>1. /\ IsFiniteSet(Open(prune_expired))
        /\ Cardinality(Open(prune_expired)) <= Cardinality(Open(sessions))
        /\ Cardinality(Open(sessions)) \in Nat /\ Cardinality(Open(prune_expired)) \in Nat
    BY PruneShape, FS_Subset, FS_CardinalityType DEF IInv, Bounded
  <2> QED BY SMTT(30), <2>1, PruneShape, SessionAssumption DEF IInv, Bounded
<1>2. PICK ss \in evict_until_capacity_for_insert(prune_expired) :
         \/ /\ sessions' = [ss EXCEPT ![s] = NewSession(r)]
            /\ Handle(s, r)
         \/ sessions' = ss /\ UNCHANGED handled
  BY DEF Initialize
<1>3. /\ ss \in [SessionIds -> McpHttpSession \cup {NoSession}]
      /\ Open(ss) \subseteq Open(sessions)
      /\ \A t \in Open(ss) : ss[t] = sessions[t]
      /\ IsFiniteSet(Open(ss)) /\ Cardinality(Open(ss)) < max_sessions
  BY <1>1, <1>2, EvictShape
<1>4. s \notin issued /\ issued' = issued \cup {s} /\ UNCHANGED <<now, notified, closed, worked>>
  BY DEF Initialize
<1>5. CASE sessions' = ss /\ UNCHANGED handled
  BY <1>3, <1>4, <1>5, RemovalKeepsInv DEF TypeOK
<1>6. CASE sessions' = [ss EXCEPT ![s] = NewSession(r)] /\ Handle(s, r)
  <2> DEFINE x == NewSession(r)
  <2>1. x \in McpHttpSession /\ x.seen = {r} /\ x.initialized = FALSE
    BY SMTT(30), SessionAssumption DEF NewSession, McpHttpSession, TypeOK
  <2>2. x # NoSession
    BY <2>1, NoSessionAssumption
  <2> HIDE DEF x
  <2>3. /\ sessions' \in [SessionIds -> McpHttpSession \cup {NoSession}]
        /\ Open(sessions') = Open(ss) \cup {s}
        /\ \A t \in SessionIds : sessions'[t] = IF t = s THEN x ELSE ss[t]
    <3>1. sessions' = [ss EXCEPT ![s] = x]
      BY <1>6 DEF x
    <3> QED BY <1>3, <2>1, <2>2, <3>1 DEF Open
  <2>4. Open(sessions)' = Open(sessions')
    BY DEF Open
  <2>5. s \notin Open(sessions) /\ \A q \in Requests : q[1] = s => handled[q] = 0
    BY SMTT(30), <1>4 DEF IInv, Remembered, TypeOK
  <2>6. handled' = [handled EXCEPT ![<<s, r>>] = 1]
    <3>1. handled[<<s, r>>] = 0
      BY <2>5
    <3> QED BY SMTT(30), <1>6, <3>1 DEF Handle, TypeOK
  <2>7. TypeOK'
    BY SMTT(30), <1>4, <2>3, <2>6 DEF TypeOK
  <2>8. HandledOnce'
    BY SMTT(30), <2>6 DEF IInv, HandledOnce, TypeOK
  <2>9. WorkAfterHandshake'
    BY <1>4 DEF IInv, WorkAfterHandshake
  <2>10. Remembered'
    <3>1. \A q \in Requests : handled'[q] > 0 => q[1] \in issued'
      BY SMTT(30), <1>4, <2>6 DEF IInv, Remembered, TypeOK
    <3>2. ASSUME NEW t \in Open(ss)
          PROVE  /\ t \in issued'
                 /\ \A i \in RequestIds : handled'[<<t, i>>] > 0 => i \in sessions'[t].seen
                 /\ sessions'[t].initialized => t \in notified'
      <4>1. t \in Open(sessions) /\ t # s /\ t \in SessionIds /\ sessions'[t] = sessions[t]
        BY <1>3, <2>3, <2>5 DEF Open
      <4>2. \A i \in RequestIds : handled'[<<t, i>>] = handled[<<t, i>>]
        BY <2>6, <4>1 DEF TypeOK, Requests
      <4> QED BY <1>4, <4>1, <4>2 DEF IInv, Remembered
    <3>3. /\ s \in issued'
          /\ \A i \in RequestIds : handled'[<<s, i>>] > 0 => i \in sessions'[s].seen
          /\ sessions'[s].initialized => s \in notified'
      <4>1. sessions'[s] = x
        BY <2>3
      <4>2. \A i \in RequestIds : i # r => handled'[<<s, i>>] = 0
        BY <2>5, <2>6 DEF TypeOK, Requests
      <4> QED BY SMTT(30), <1>4, <2>1, <4>1, <4>2
    <3> QED BY <2>3, <2>4, <3>1, <3>2, <3>3 DEF Remembered
  <2>11. Bounded'
    <3>1. s \notin Open(ss)
      BY <1>3, <2>5
    <3>2. IsFiniteSet(Open(sessions')) /\ Cardinality(Open(sessions')) = Cardinality(Open(ss)) + 1
      BY SMTT(30), <1>3, <2>3, <3>1, FS_AddElement
    <3>3. Cardinality(Open(ss)) \in Nat
      BY <1>3, FS_CardinalityType
    <3> QED BY SMTT(30), <1>3, <2>4, <3>2, <3>3, SessionAssumption DEF Bounded
  <2> QED BY <2>7, <2>8, <2>9, <2>10, <2>11 DEF IInv
<1> QED BY <1>2, <1>5, <1>6

\* Every step keeps the invariant.
LEMMA NextKeepsInv == IInv /\ [Next]_vars => IInv'
<1> SUFFICES ASSUME IInv, [Next]_vars PROVE IInv'
  OBVIOUS
<1> TypeOK
  BY DEF IInv
<1> \A s \in SessionIds : Live(s) => s \in Open(sessions) /\ sessions[s] \in McpHttpSession
  BY DEF Live, Open, TypeOK
<1>1. CASE UNCHANGED vars
  <2>1. Open(sessions') = Open(sessions)
    BY <1>1 DEF vars, Open
  <2> QED BY <1>1, <2>1, RemovalKeepsInv DEF vars, TypeOK
<1>2. ASSUME NEW s \in SessionIds, NEW r \in RequestIds, Initialize(s, r) PROVE IInv'
  BY <1>2, InitializeKeepsInv
<1>3. ASSUME NEW s \in SessionIds, NEW r \in RequestIds, NEW ping \in BOOLEAN, Request(s, r, ping)
      PROVE  IInv'
  <2> DEFINE tracked == r \notin sessions[s].seen /\ Fits(sessions[s], r)
             x == IF tracked THEN Tracked(Touched(sessions[s]), r) ELSE Touched(sessions[s])
  <2>1. s \in Open(sessions) /\ sessions[s] \in McpHttpSession
    BY <1>3 DEF Request
  <2> tracked \in BOOLEAN
    OBVIOUS
  <2> HIDE DEF tracked
  <2>2. /\ x \in McpHttpSession /\ sessions[s].seen \subseteq x.seen
        /\ x.initialized = sessions[s].initialized
        /\ tracked => r \in x.seen
    BY <2>1, RequestShapes
  <2> USE DEF tracked
  <2>3. sessions' = [sessions EXCEPT ![s] = x]
    BY <1>3 DEF Request
  <2>4. worked' = worked \/ (worked' = worked \cup {s} /\ sessions[s].initialized)
    BY <1>3 DEF Request
  <2>5. (tracked /\ Handle(s, r)) \/ UNCHANGED handled
    BY <1>3 DEF Request
  <2>6. UNCHANGED <<now, issued, notified, closed>>
    BY <1>3 DEF Request
  <2>7. \/ UNCHANGED handled
        \/ \E i \in RequestIds : i \notin sessions[s].seen /\ i \in x.seen /\ Handle(s, i)
    BY <2>2, <2>5
  <2>8. x.initialized => s \in notified'
    BY <2>1, <2>2, <2>6 DEF IInv, Remembered
  <2>9. notified \subseteq notified' /\ notified' \subseteq SessionIds
    BY <2>6 DEF TypeOK
  <2> HIDE DEF x, tracked
  <2> QED BY <2>1, <2>2, <2>3, <2>4, <2>6, <2>7, <2>8, <2>9, UpdateKeepsInv
<1>4. ASSUME NEW s \in SessionIds, MarkInitialized(s) PROVE IInv'
  <2> DEFINE x == [Touched(sessions[s]) EXCEPT !.initialized = TRUE]
  <2>1. s \in Open(sessions) /\ sessions[s] \in McpHttpSession
    BY <1>4 DEF MarkInitialized
  <2>2. x \in McpHttpSession /\ x.seen = sessions[s].seen
    BY <2>1, TouchShapes
  <2>3. /\ sessions' = [sessions EXCEPT ![s] = x]
        /\ notified' = notified \cup {s} /\ UNCHANGED <<now, issued, closed, worked, handled>>
    BY <1>4 DEF MarkInitialized
  <2> HIDE DEF x
  <2> QED BY <2>1, <2>2, <2>3, UpdateKeepsInv DEF TypeOK
<1>5. ASSUME NEW s \in SessionIds, TouchSession(s) PROVE IInv'
  <2> DEFINE x == Touched(sessions[s])
  <2>1. s \in Open(sessions) /\ sessions[s] \in McpHttpSession
    BY <1>5 DEF TouchSession
  <2>2. x \in McpHttpSession /\ x.seen = sessions[s].seen /\ x.initialized = sessions[s].initialized
    BY <2>1, TouchShapes
  <2>3. /\ sessions' = [sessions EXCEPT ![s] = x]
        /\ UNCHANGED <<now, issued, notified, closed, worked, handled>>
    BY <1>5 DEF TouchSession
  <2>4. x.initialized => s \in notified'
    BY <2>1, <2>2, <2>3 DEF IInv, Remembered
  <2> HIDE DEF x
  <2> QED BY <2>1, <2>2, <2>3, <2>4, UpdateKeepsInv DEF TypeOK
<1>6. ASSUME NEW s \in SessionIds, FindExpired(s) \/ Close(s) PROVE IInv'
  <2>1. /\ sessions' = [sessions EXCEPT ![s] = NoSession]
        /\ UNCHANGED <<now, issued, notified, worked, handled>>
        /\ closed' \subseteq SessionIds
    BY <1>6 DEF FindExpired, Close, TypeOK
  <2>2. /\ sessions' \in [SessionIds -> McpHttpSession \cup {NoSession}]
        /\ Open(sessions') \subseteq Open(sessions)
        /\ \A t \in Open(sessions') : sessions'[t] = sessions[t]
    BY <2>1 DEF TypeOK, Open
  <2> QED BY <2>1, <2>2, RemovalKeepsInv DEF TypeOK
<1>7. CASE Snapshot
  BY <1>7, PruneShape, RemovalKeepsInv DEF Snapshot, TypeOK
<1>8. CASE ClockMoves
  <2>1. Open(sessions') = Open(sessions)
    BY <1>8 DEF ClockMoves, Open
  <2> QED BY <1>8, <2>1, RemovalKeepsInv DEF ClockMoves, TypeOK
<1> QED BY <1>1, <1>2, <1>3, <1>4, <1>5, <1>6, <1>7, <1>8 DEF Next

\* The empty store satisfies the invariant.
LEMMA InitInv == Init => IInv
<1> SUFFICES ASSUME Init PROVE IInv
  OBVIOUS
<1>1. TypeOK
  BY SMTT(30), SessionAssumption DEF Init, TypeOK
<1>2. Open(sessions) = {}
  BY DEF Init, Open
<1>3. Bounded
  BY SMTT(30), <1>2, FS_EmptySet, SessionAssumption DEF Bounded
<1>4. HandledOnce /\ WorkAfterHandshake
  BY SMTT(30) DEF Init, HandledOnce, WorkAfterHandshake
<1>5. Remembered
  BY SMTT(30), <1>2 DEF Init, Remembered
<1> QED BY <1>1, <1>3, <1>4, <1>5 DEF IInv

\* The inductive invariant always holds.
THEOREM SessionInvariant == Spec => []IInv
  BY InitInv, NextKeepsInv, PTL DEF Spec

-----------------------------------------------------------------------------
(* What follows.                                                            *)

\* The store's variables keep their types.
THEOREM SessionTypes == Spec => []TypeOK
<1>1. IInv => TypeOK
  BY DEF IInv
<1> QED BY <1>1, SessionInvariant, PTL

\* No request id is answered twice in a session, although the handler forgets the ids
\* of a session with the session and refuses requests at several points.
THEOREM AnsweredOnce == Spec => []HandledOnce
<1>1. IInv => HandledOnce
  BY DEF IInv
<1> QED BY <1>1, SessionInvariant, PTL

\* Operations other than ping wait for notifications/initialized.
THEOREM HandshakeFirst == Spec => []WorkAfterHandshake
<1>1. IInv => WorkAfterHandshake
  BY DEF IInv
<1> QED BY <1>1, SessionInvariant, PTL

\* A step changes the sessions in one of three ways: some leave, one that was issued
\* changes and keeps its ids and its handshake, or one nobody had is added.
LEMMA StepShape ==
    ASSUME IInv, [Next]_vars, NEW s \in issued
    PROVE  \/ sessions'[s] = NoSession
           \/ sessions'[s] = sessions[s]
           \/ /\ sessions[s] # NoSession
              /\ sessions[s].seen \subseteq sessions'[s].seen
              /\ sessions[s].initialized => sessions'[s].initialized
<1> DEFINE Goal == \/ sessions'[s] = NoSession
                   \/ sessions'[s] = sessions[s]
                   \/ /\ sessions[s] # NoSession
                      /\ sessions[s].seen \subseteq sessions'[s].seen
                      /\ sessions[s].initialized => sessions'[s].initialized
<1> s \in SessionIds /\ TypeOK /\ sessions \in [SessionIds -> McpHttpSession \cup {NoSession}]
  BY DEF IInv, TypeOK
<1>1. CASE UNCHANGED vars
  BY <1>1 DEF vars
<1>2. ASSUME NEW t \in SessionIds, NEW r \in RequestIds, Initialize(t, r) PROVE Goal
  <2>1. t # s
    BY <1>2 DEF Initialize
  <2>2. PICK ss \in evict_until_capacity_for_insert(prune_expired) :
           sessions' = [ss EXCEPT ![t] = NewSession(r)] \/ sessions' = ss
    BY <1>2 DEF Initialize
  <2>3. ss = prune_expired \/ \E k : ss = Only(prune_expired, k)
    BY <2>2 DEF evict_until_capacity_for_insert
  <2>4. ss \in [SessionIds -> McpHttpSession \cup {NoSession}]
    BY SMTT(30), <2>3, PruneShape, OnlyShape
  <2>5. ss[s] = NoSession \/ ss[s] = sessions[s]
    BY <2>3 DEF prune_expired, Only
  <2> QED BY <2>1, <2>2, <2>4, <2>5
<1>3. ASSUME NEW t \in SessionIds, NEW x \in McpHttpSession, Live(t),
             sessions' = [sessions EXCEPT ![t] = x],
             sessions[t].seen \subseteq x.seen, sessions[t].initialized => x.initialized
      PROVE  Goal
  BY <1>3 DEF Live
<1> HIDE DEF Goal
<1> \A t \in SessionIds : Live(t) => sessions[t] \in McpHttpSession
  BY DEF Live, TypeOK
<1>4. ASSUME NEW t \in SessionIds, NEW r \in RequestIds, NEW ping \in BOOLEAN, Request(t, r, ping)
      PROVE  Goal
  <2> DEFINE tracked == r \notin sessions[t].seen /\ Fits(sessions[t], r)
             x == IF tracked THEN Tracked(Touched(sessions[t]), r) ELSE Touched(sessions[t])
  <2>1. Live(t) /\ sessions[t] \in McpHttpSession /\ sessions' = [sessions EXCEPT ![t] = x]
    BY <1>4 DEF Request
  <2>2. /\ x \in McpHttpSession /\ sessions[t].seen \subseteq x.seen
        /\ x.initialized = sessions[t].initialized
    BY <2>1, RequestShapes
  <2> HIDE DEF x
  <2> QED BY <1>3, <2>1, <2>2
<1>5. ASSUME NEW t \in SessionIds, MarkInitialized(t) PROVE Goal
  <2> DEFINE x == [Touched(sessions[t]) EXCEPT !.initialized = TRUE]
  <2>1. Live(t) /\ sessions[t] \in McpHttpSession /\ sessions' = [sessions EXCEPT ![t] = x]
    BY <1>5 DEF MarkInitialized
  <2>2. x \in McpHttpSession /\ x.seen = sessions[t].seen
    BY <2>1, TouchShapes
  <2>3. x.initialized
    BY SMTT(30), <2>1, TouchShapes DEF McpHttpSession
  <2> HIDE DEF x
  <2> QED BY <1>3, <2>1, <2>2, <2>3
<1>6. ASSUME NEW t \in SessionIds, TouchSession(t) PROVE Goal
  <2> DEFINE x == Touched(sessions[t])
  <2>1. Live(t) /\ sessions[t] \in McpHttpSession /\ sessions' = [sessions EXCEPT ![t] = x]
    BY <1>6 DEF TouchSession
  <2>2. x \in McpHttpSession /\ x.seen = sessions[t].seen /\ x.initialized = sessions[t].initialized
    BY <2>1, TouchShapes
  <2> HIDE DEF x
  <2> QED BY <1>3, <2>1, <2>2
<1>7. ASSUME NEW t \in SessionIds, FindExpired(t) \/ Close(t) PROVE Goal
  BY <1>7 DEF FindExpired, Close, Goal
<1>8. CASE Snapshot \/ ClockMoves
  BY <1>8 DEF Snapshot, ClockMoves, prune_expired, Only, Goal
<1> QED BY <1>1, <1>2, <1>4, <1>5, <1>6, <1>7, <1>8 DEF Next, Goal

\* Sessions do not come back, and the ones that stay forget no id and keep their
\* handshake.
THEOREM NothingForgotten == Spec => SessionsOnlyGrow
<1> DEFINE Grow == \A s \in SessionIds : s \in issued =>
                      /\ sessions[s] = NoSession => sessions'[s] = NoSession
                      /\ sessions[s] # NoSession /\ sessions'[s] # NoSession =>
                            /\ sessions[s].seen \subseteq sessions'[s].seen
                            /\ sessions[s].initialized => sessions'[s].initialized
<1>1. IInv /\ [Next]_vars => [Grow]_vars
  <2> SUFFICES ASSUME IInv, [Next]_vars, NEW s \in SessionIds, s \in issued
               PROVE  /\ sessions[s] = NoSession => sessions'[s] = NoSession
                      /\ sessions[s] # NoSession /\ sessions'[s] # NoSession =>
                            /\ sessions[s].seen \subseteq sessions'[s].seen
                            /\ sessions[s].initialized => sessions'[s].initialized
    OBVIOUS
  <2> QED BY StepShape
<1> QED BY <1>1, SessionInvariant, PTL DEF Spec, SessionsOnlyGrow

\* A live session is lost only by its own DELETE, or as the least recently seen one of
\* a store full of live sessions.
THEOREM LiveSessionsKept == Spec => LiveSessionKept
<1> DEFINE Kept(s) == \/ s \in closed'
                      \/ /\ Cardinality({t \in SessionIds : Live(t)}) >= max_sessions
                         /\ \A t \in SessionIds :
                               Live(t) => sessions[s].last_seen <= sessions[t].last_seen
<1>1. IInv /\ [Next]_vars =>
         [\A s \in SessionIds : Live(s) /\ sessions'[s] = NoSession => Kept(s)]_vars
  <2> SUFFICES ASSUME IInv, [Next]_vars, NEW s \in SessionIds, Live(s), sessions'[s] = NoSession
               PROVE  Kept(s)
    OBVIOUS
  <2> TypeOK /\ sessions[s] # NoSession
    BY DEF IInv, Live
  <2> HIDE DEF Kept
  <2>1. ASSUME NEW t \in SessionIds, NEW r \in RequestIds, Initialize(t, r) PROVE Kept(s)
    <3>1. PICK ss \in evict_until_capacity_for_insert(prune_expired) :
             sessions' = [ss EXCEPT ![t] = NewSession(r)] \/ sessions' = ss
      BY <2>1 DEF Initialize
    <3>2. /\ IsFiniteSet(Open(prune_expired)) /\ Cardinality(Open(prune_expired)) <= max_sessions
          /\ prune_expired \in [SessionIds -> McpHttpSession \cup {NoSession}]
      <4>1. /\ IsFiniteSet(Open(prune_expired))
            /\ Cardinality(Open(prune_expired)) <= Cardinality(Open(sessions))
            /\ Cardinality(Open(sessions)) \in Nat /\ Cardinality(Open(prune_expired)) \in Nat
        BY PruneShape, FS_Subset, FS_CardinalityType DEF IInv, Bounded
      <4> QED BY SMTT(30), <4>1, PruneShape, SessionAssumption DEF IInv, Bounded
    <3>3. /\ ss \in [SessionIds -> McpHttpSession \cup {NoSession}]
          /\ \A v \in Open(prune_expired) \ Open(ss) :
                /\ Cardinality(Open(prune_expired)) >= max_sessions
                /\ \A w \in Open(prune_expired) :
                      prune_expired[v].last_seen <= prune_expired[w].last_seen
      BY <3>1, <3>2, EvictShape
    <3>4. s \in Open(prune_expired)
      BY PruneShape
    <3>5. s \notin Open(ss)
      <4>1. NewSession(r) \in McpHttpSession
        BY SMTT(30), SessionAssumption DEF NewSession, McpHttpSession, TypeOK
      <4>2. NewSession(r) # NoSession
        BY <4>1, NoSessionAssumption
      <4> HIDE DEF NewSession
      <4> QED BY <3>1, <3>3, <4>2 DEF Open
    <3> QED BY <3>3, <3>4, <3>5, PruneShape DEF Kept
  <2>2. ASSUME NEW t \in SessionIds, NEW x \in McpHttpSession, sessions' = [sessions EXCEPT ![t] = x]
        PROVE  FALSE
    BY <2>2, NoSessionAssumption DEF TypeOK
  <2> \A t \in SessionIds : Live(t) => sessions[t] \in McpHttpSession
    BY DEF Live, TypeOK
  <2>3. ASSUME NEW t \in SessionIds, NEW r \in RequestIds, NEW ping \in BOOLEAN, Request(t, r, ping)
        PROVE  FALSE
    <3> DEFINE tracked == r \notin sessions[t].seen /\ Fits(sessions[t], r)
               x == IF tracked THEN Tracked(Touched(sessions[t]), r) ELSE Touched(sessions[t])
    <3>1. sessions[t] \in McpHttpSession /\ sessions' = [sessions EXCEPT ![t] = x]
      BY <2>3 DEF Request
    <3>2. x \in McpHttpSession
      BY <3>1, RequestShapes
    <3> HIDE DEF x
    <3> QED BY <2>2, <3>1, <3>2
  <2>4. ASSUME NEW t \in SessionIds, MarkInitialized(t) \/ TouchSession(t) PROVE FALSE
    BY <2>2, <2>4, TouchShapes DEF MarkInitialized, TouchSession
  <2>5. ASSUME NEW t \in SessionIds, FindExpired(t) PROVE FALSE
    <3>1. t # s
      <4>1. sessions[s] \in McpHttpSession
        OBVIOUS
      <4>2. sessions[s].expires \in Int /\ now \in Int
        BY SMTT(30), <4>1, SessionAssumption DEF McpHttpSession, TypeOK
      <4> QED BY SMTT(30), <2>5, <4>2 DEF FindExpired, Live
    <3> QED BY <2>5, <3>1 DEF FindExpired, TypeOK
  <2>6. ASSUME NEW t \in SessionIds, Close(t) PROVE Kept(s)
    BY <2>6 DEF Close, Kept, TypeOK
  <2>7. CASE Snapshot
    BY <2>7 DEF Snapshot, prune_expired, Only
  <2>8. CASE ClockMoves \/ UNCHANGED vars
    BY <2>8 DEF ClockMoves, vars
  <2> QED BY <2>1, <2>3, <2>4, <2>5, <2>6, <2>7, <2>8 DEF Next
<1> QED BY <1>1, SessionInvariant, PTL DEF Spec, LiveSessionKept

-----------------------------------------------------------------------------
(* The budgets.                                                             *)

\* The bytes of finitely many things are finitely many.
LEMMA BytesFinite ==
    ASSUME NEW S, IsFiniteSet(S), NEW n, \A x \in S : n[x] \in Nat
    PROVE  IsFiniteSet(BytesOf(n, S)) /\ Total(n, S) \in Nat
<1> DEFINE B == {{x} \X (1 .. n[x]) : x \in S}
<1>1. IsFiniteSet(B)
  <2> DEFINE f == [x \in S |-> {x} \X (1 .. n[x])]
  <2>1. f \in Surjection(S, B)
    BY DEF Surjection
  <2> QED BY <2>1, FS_Surjection
<1>2. ASSUME NEW x \in S PROVE IsFiniteSet({x} \X (1 .. n[x]))
  <2>1. IsFiniteSet(1 .. n[x])
    BY SMTT(30), FS_Interval
  <2>2. IsFiniteSet({x})
    BY FS_Singleton
  <2> QED BY <2>1, <2>2, FS_Product
<1>3. IsFiniteSet(UNION B)
  BY <1>1, <1>2, FS_UNION
<1> QED BY <1>3, FS_CardinalityType DEF BytesOf, Total

\* One more adds its bytes.
LEMMA TotalAdd ==
    ASSUME NEW S, IsFiniteSet(S), NEW n, \A y \in S : n[y] \in Nat,
           NEW x, x \notin S, n[x] \in Nat
    PROVE  Total(n, S \cup {x}) = Total(n, S) + n[x]
<1> DEFINE A == BytesOf(n, S)
           X == {x} \X (1 .. n[x])
<1>1. BytesOf(n, S \cup {x}) = A \cup X
  BY DEF BytesOf
<1>2. A \cap X = {}
  BY SMTT(30) DEF BytesOf
<1>3. IsFiniteSet(A) /\ Cardinality(A) \in Nat
  BY BytesFinite DEF Total
<1>4. IsFiniteSet(X) /\ Cardinality(X) = n[x]
  <2>1. IsFiniteSet({x}) /\ Cardinality({x}) = 1
    BY FS_Singleton
  <2>2. IsFiniteSet(1 .. n[x]) /\ Cardinality(1 .. n[x]) = n[x]
    BY SMTT(30), FS_Interval
  <2>3. IsFiniteSet(X) /\ Cardinality(X) = Cardinality({x}) * Cardinality(1 .. n[x])
    BY <2>1, <2>2, FS_Product
  <2> QED BY SMTT(30), <2>1, <2>2, <2>3
<1> HIDE DEF A, X
<1>5. Cardinality(A \cup X) = Cardinality(A) + Cardinality(X) - Cardinality(A \cap X)
  BY <1>3, <1>4, FS_Union
<1>6. Cardinality(A \cap X) = 0
  BY <1>2, FS_EmptySet
<1>7. Cardinality(A \cup X) = Cardinality(A) + n[x]
  BY SMTT(30), <1>3, <1>4, <1>5, <1>6
<1> QED BY <1>1, <1>7 DEF Total, A

\* Fewer have no more.
LEMMA TotalLess ==
    ASSUME NEW S, IsFiniteSet(S), NEW n, \A x \in S : n[x] \in Nat, NEW T \in SUBSET S
    PROVE  Total(n, T) <= Total(n, S)
<1>1. BytesOf(n, T) \in SUBSET BytesOf(n, S)
  BY DEF BytesOf
<1> QED BY <1>1, BytesFinite, FS_Subset DEF Total

\* Only the numbers of the members count.
LEMMA TotalSame ==
    ASSUME NEW S, NEW n, NEW m, \A x \in S : n[x] = m[x]
    PROVE  Total(n, S) = Total(m, S)
<1>1. {{x} \X (1 .. n[x]) : x \in S} = {{x} \X (1 .. m[x]) : x \in S}
  OBVIOUS
<1> QED BY <1>1 DEF Total, BytesOf

\* No members have no bytes.
LEMMA TotalEmpty == ASSUME NEW n PROVE Total(n, {}) = 0
<1>1. BytesOf(n, {}) = {}
  BY DEF BytesOf
<1> QED BY <1>1, FS_EmptySet DEF Total

\* A session is within the budgets of one session.
WithinBudget(x) ==
    /\ IsFiniteSet(x.seen)
    /\ x.seen_bytes = Total(Size, x.seen)
    /\ x.seen_bytes <= MAX_REQUEST_ID_REPLAY_BYTES
    /\ Cardinality(x.seen) <= MAX_REQUEST_IDS_PER_SESSION

Budgets ==
    /\ \A s \in Open(sessions) : WithinBudget(sessions[s])
    /\ global_request_id_bytes(sessions) <= MAX_GLOBAL_REQUEST_ID_REPLAY_BYTES

\* The bytes of a store of which some sessions were removed are no more than before.
LEMMA FewerBytes ==
    ASSUME NEW ss \in [SessionIds -> McpHttpSession \cup {NoSession}],
           NEW tt \in [SessionIds -> McpHttpSession \cup {NoSession}],
           IsFiniteSet(Open(ss)), Open(tt) \subseteq Open(ss), \A s \in Open(tt) : tt[s] = ss[s]
    PROVE  /\ global_request_id_bytes(tt) <= global_request_id_bytes(ss)
           /\ global_request_id_bytes(tt) \in Nat /\ global_request_id_bytes(ss) \in Nat
<1> DEFINE n == [s \in Open(ss) |-> ss[s].seen_bytes]
           m == [s \in Open(tt) |-> tt[s].seen_bytes]
<1>1. (\A s \in Open(ss) : n[s] \in Nat) /\ (\A s \in Open(tt) : m[s] \in Nat /\ m[s] = n[s])
  BY DEF Open, McpHttpSession
<1>2. IsFiniteSet(Open(tt))
  BY FS_Subset
<1> HIDE DEF n, m
<1>3. Total(m, Open(tt)) = Total(n, Open(tt))
  BY <1>1, TotalSame
<1>4. Total(n, Open(tt)) <= Total(n, Open(ss))
  BY <1>1, TotalLess
<1>5. Total(m, Open(tt)) \in Nat /\ Total(n, Open(ss)) \in Nat
  BY <1>1, <1>2, BytesFinite
<1> QED BY <1>3, <1>4, <1>5 DEF global_request_id_bytes, n, m

\* Putting a session in the place of another, or of none, changes the bytes by theirs.
LEMMA ReplacedBytes ==
    ASSUME NEW ss \in [SessionIds -> McpHttpSession \cup {NoSession}], IsFiniteSet(Open(ss)),
           NEW s \in SessionIds, NEW x \in McpHttpSession
    PROVE  LET tt == [ss EXCEPT ![s] = x]
           IN  /\ global_request_id_bytes(tt) \in Nat /\ global_request_id_bytes(ss) \in Nat
               /\ ss[s] = NoSession => global_request_id_bytes(tt) = global_request_id_bytes(ss) + x.seen_bytes
               /\ ss[s] # NoSession => global_request_id_bytes(tt) = global_request_id_bytes(ss) - ss[s].seen_bytes + x.seen_bytes
<1> DEFINE tt == [ss EXCEPT ![s] = x]
           O == Open(ss) \ {s}
           n == [t \in Open(ss) |-> ss[t].seen_bytes]
           m == [t \in Open(tt) |-> tt[t].seen_bytes]
<1>1. Open(tt) = O \cup {s} /\ s \notin O
  BY NoSessionAssumption DEF Open
<1>2. /\ \A t \in O : n[t] = m[t] /\ n[t] \in Nat /\ m[t] \in Nat
      /\ m[s] = x.seen_bytes /\ m[s] \in Nat
  BY <1>1 DEF Open, McpHttpSession
<1>3. ss[s] = NoSession => Open(ss) = O
  BY DEF Open
<1>4. ss[s] # NoSession => Open(ss) = O \cup {s} /\ n[s] = ss[s].seen_bytes /\ n[s] \in Nat
  BY DEF Open, McpHttpSession
<1>5. IsFiniteSet(O)
  BY FS_RemoveElement
<1> HIDE DEF O, n, m, tt
<1>6. Total(m, Open(tt)) = Total(m, O) + x.seen_bytes
  BY SMTT(30), <1>1, <1>2, <1>5, TotalAdd
<1>7. Total(m, O) = Total(n, O) /\ Total(m, O) \in Nat
  BY <1>2, <1>5, TotalSame, BytesFinite
<1>8. ss[s] # NoSession => Total(n, Open(ss)) = Total(n, O) + ss[s].seen_bytes
  BY SMTT(30), <1>1, <1>2, <1>4, <1>5, TotalAdd
<1>9. x.seen_bytes \in Nat /\ (ss[s] # NoSession => ss[s].seen_bytes \in Nat)
  BY <1>2, <1>4
<1>10. /\ global_request_id_bytes(tt) = Total(m, Open(tt))
       /\ global_request_id_bytes(ss) = Total(n, Open(ss))
  BY DEF global_request_id_bytes, m, n
<1>11. /\ global_request_id_bytes(tt) \in Nat /\ global_request_id_bytes(ss) \in Nat
       /\ ss[s] = NoSession => global_request_id_bytes(tt) = global_request_id_bytes(ss) + x.seen_bytes
       /\ ss[s] # NoSession => global_request_id_bytes(tt) = global_request_id_bytes(ss) - ss[s].seen_bytes + x.seen_bytes
  BY SMTT(30), <1>3, <1>6, <1>7, <1>8, <1>9, <1>10
<1> QED BY <1>11 DEF tt

\* Sessions that leave the store, or stay as they are, keep it within the budgets.
LEMMA RemovalKeepsBudgets ==
    ASSUME IInv, Budgets,
           sessions' \in [SessionIds -> McpHttpSession \cup {NoSession}],
           Open(sessions') \subseteq Open(sessions),
           \A s \in Open(sessions') : sessions'[s] = sessions[s]
    PROVE  Budgets'
<1>1. Open(sessions)' = Open(sessions')
  BY DEF Open
<1>2. global_request_id_bytes(sessions)' = global_request_id_bytes(sessions')
  BY DEF global_request_id_bytes, Total, BytesOf, Open
<1>3. /\ global_request_id_bytes(sessions') <= global_request_id_bytes(sessions)
      /\ global_request_id_bytes(sessions') \in Nat /\ global_request_id_bytes(sessions) \in Nat
  BY FewerBytes DEF IInv, TypeOK, Bounded
<1>4. global_request_id_bytes(sessions)' <= MAX_GLOBAL_REQUEST_ID_REPLAY_BYTES
  BY SMTT(30), <1>2, <1>3, SessionAssumption DEF Budgets
<1>5. \A s \in Open(sessions)' : WithinBudget(sessions'[s])
  BY <1>1 DEF Budgets
<1> QED BY <1>4, <1>5 DEF Budgets, WithinBudget

\* A session that stays keeps its bytes, or takes in those of an id that fits.
LEMMA UpdateKeepsBudgets ==
    ASSUME IInv, Budgets, NEW s \in Open(sessions), NEW x \in McpHttpSession,
           sessions' = [sessions EXCEPT ![s] = x],
           \/ x.seen = sessions[s].seen /\ x.seen_bytes = sessions[s].seen_bytes
           \/ \E r \in RequestIds :
                 /\ r \notin sessions[s].seen /\ Fits(sessions[s], r)
                 /\ x.seen = sessions[s].seen \cup {r}
                 /\ x.seen_bytes = sessions[s].seen_bytes + Size[r]
    PROVE  Budgets'
<1> DEFINE G == global_request_id_bytes(sessions)
           old == sessions[s]
<1>0. /\ s \in SessionIds /\ sessions \in [SessionIds -> McpHttpSession \cup {NoSession}]
      /\ sessions[s] # NoSession /\ IsFiniteSet(Open(sessions)) /\ x # NoSession
  BY NoSessionAssumption DEF IInv, TypeOK, Open, Bounded
<1>1. /\ Open(sessions)' = Open(sessions)
      /\ \A t \in Open(sessions) : sessions'[t] = IF t = s THEN x ELSE sessions[t]
  BY <1>0 DEF Open
<1>2. global_request_id_bytes(sessions)' = global_request_id_bytes([sessions EXCEPT ![s] = x])
  BY DEF global_request_id_bytes, Total, BytesOf, Open
<1>3. /\ G \in Nat
      /\ global_request_id_bytes([sessions EXCEPT ![s] = x]) = G - old.seen_bytes + x.seen_bytes
  BY <1>0, ReplacedBytes
<1>4. /\ old.seen_bytes \in Nat /\ x.seen_bytes \in Nat /\ old.seen \in SUBSET RequestIds
      /\ WithinBudget(old) /\ G <= MAX_GLOBAL_REQUEST_ID_REPLAY_BYTES
  BY <1>0 DEF McpHttpSession, Budgets
<1> HIDE DEF G, old
<1>5. CASE x.seen = old.seen /\ x.seen_bytes = old.seen_bytes
  <2>1. WithinBudget(x)
    BY <1>4, <1>5 DEF WithinBudget
  <2>2. global_request_id_bytes(sessions)' <= MAX_GLOBAL_REQUEST_ID_REPLAY_BYTES
    BY SMTT(30), <1>2, <1>3, <1>4, <1>5
  <2>3. \A t \in Open(sessions)' : WithinBudget(sessions'[t])
    BY <1>1, <2>1 DEF Budgets
  <2> QED BY <2>2, <2>3 DEF Budgets, WithinBudget
<1>6. ASSUME NEW r \in RequestIds, r \notin old.seen, Fits(old, r),
             x.seen = old.seen \cup {r}, x.seen_bytes = old.seen_bytes + Size[r]
      PROVE  Budgets'
  <2>1. Size[r] \in Nat /\ \A i \in old.seen : Size[i] \in Nat
    BY <1>4, SessionAssumption
  <2>2. /\ G + Size[r] <= MAX_GLOBAL_REQUEST_ID_REPLAY_BYTES
        /\ Cardinality(old.seen) < MAX_REQUEST_IDS_PER_SESSION
        /\ old.seen_bytes + Size[r] <= MAX_REQUEST_ID_REPLAY_BYTES
    BY <1>6 DEF Fits, G
  <2>3. Total(Size, x.seen) = Total(Size, old.seen) + Size[r]
    BY SMTT(30), <1>4, <1>6, <2>1, TotalAdd DEF WithinBudget
  <2>4. IsFiniteSet(x.seen) /\ Cardinality(x.seen) = Cardinality(old.seen) + 1
    <3>1. IsFiniteSet(old.seen)
      BY <1>4 DEF WithinBudget
    <3>2. /\ IsFiniteSet(old.seen \cup {r})
          /\ r \notin old.seen => Cardinality(old.seen \cup {r}) = Cardinality(old.seen) + 1
      BY <3>1, FS_AddElement
    <3> QED BY <1>6, <3>2
  <2>5. Cardinality(old.seen) \in Nat
    BY <1>4, FS_CardinalityType DEF WithinBudget
  <2>6. WithinBudget(x)
    BY SMTT(30), <1>4, <1>6, <2>2, <2>3, <2>4, <2>5, SessionAssumption DEF WithinBudget
  <2>7. global_request_id_bytes(sessions)' <= MAX_GLOBAL_REQUEST_ID_REPLAY_BYTES
    BY SMTT(30), <1>2, <1>3, <1>4, <1>6, <2>1, <2>2
  <2>8. \A t \in Open(sessions)' : WithinBudget(sessions'[t])
    BY <1>1, <2>6 DEF Budgets
  <2> QED BY <2>7, <2>8 DEF Budgets, WithinBudget
<1> QED BY <1>5, <1>6 DEF old

\* A new session starts with one id, for which there is room.
LEMMA InitializeKeepsBudgets ==
    ASSUME IInv, Budgets, NEW s \in SessionIds, NEW r \in RequestIds, Initialize(s, r)
    PROVE  Budgets'
<1> TypeOK /\ SessionIds # {}
  BY DEF IInv
<1>1. /\ prune_expired \in [SessionIds -> McpHttpSession \cup {NoSession}]
      /\ IsFiniteSet(Open(prune_expired)) /\ Cardinality(Open(prune_expired)) <= max_sessions
      /\ Open(prune_expired) \subseteq Open(sessions)
      /\ \A t \in Open(prune_expired) : prune_expired[t] = sessions[t]
  <2>1. /\ IsFiniteSet(Open(prune_expired))
        /\ Cardinality(Open(prune_expired)) <= Cardinality(Open(sessions))
        /\ Cardinality(Open(sessions)) \in Nat /\ Cardinality(Open(prune_expired)) \in Nat
    BY PruneShape, FS_Subset, FS_CardinalityType DEF IInv, Bounded
  <2> QED BY SMTT(30), <2>1, PruneShape, SessionAssumption DEF IInv, Bounded
<1>2. PICK ss \in evict_until_capacity_for_insert(prune_expired) :
         \/ /\ sessions' = [ss EXCEPT ![s] = NewSession(r)]
            /\ global_request_id_bytes(ss) + Size[r] <= MAX_GLOBAL_REQUEST_ID_REPLAY_BYTES
         \/ sessions' = ss
  BY DEF Initialize
<1>3. /\ ss \in [SessionIds -> McpHttpSession \cup {NoSession}]
      /\ Open(ss) \subseteq Open(sessions)
      /\ \A t \in Open(ss) : ss[t] = sessions[t]
      /\ IsFiniteSet(Open(ss))
  BY <1>1, <1>2, EvictShape
<1>4. CASE sessions' = ss
  BY <1>3, <1>4, RemovalKeepsBudgets
<1>5. CASE /\ sessions' = [ss EXCEPT ![s] = NewSession(r)]
           /\ global_request_id_bytes(ss) + Size[r] <= MAX_GLOBAL_REQUEST_ID_REPLAY_BYTES
  <2> DEFINE x == NewSession(r)
  <2>1. x \in McpHttpSession /\ x.seen = {r} /\ x.seen_bytes = Size[r]
    BY SMTT(30), SessionAssumption DEF NewSession, McpHttpSession, TypeOK
  <2>2. x # NoSession
    BY <2>1, NoSessionAssumption
  <2>3. sessions' = [ss EXCEPT ![s] = x]
    BY <1>5
  <2> HIDE DEF x
  <2>4. ss[s] = NoSession
    <3>1. s \notin Open(sessions)
      BY DEF Initialize, IInv, Remembered
    <3> QED BY <1>3, <3>1 DEF Open
  <2>5. global_request_id_bytes(sessions)' = global_request_id_bytes([ss EXCEPT ![s] = x])
    BY <2>3 DEF global_request_id_bytes, Total, BytesOf, Open
  <2>6. global_request_id_bytes([ss EXCEPT ![s] = x]) = global_request_id_bytes(ss) + x.seen_bytes
    BY <1>3, <2>1, <2>4, ReplacedBytes
  <2>7. global_request_id_bytes(sessions)' <= MAX_GLOBAL_REQUEST_ID_REPLAY_BYTES
    BY <1>5, <2>1, <2>5, <2>6
  <2>8. WithinBudget(x)
    <3>1. Size[r] \in Nat /\ Size[r] <= MAX_REQUEST_ID_STORAGE_BYTES
      BY SMTT(30), SessionAssumption DEF Initialize, TooLong
    <3>2. Total(Size, {} \cup {r}) = Total(Size, {}) + Size[r]
      BY <3>1, TotalAdd, FS_EmptySet
    <3>3. Total(Size, {r}) = Size[r]
      BY SMTT(30), <3>1, <3>2, TotalEmpty
    <3>4. IsFiniteSet({r}) /\ Cardinality({r}) = 1
      BY FS_Singleton
    <3> QED BY SMTT(30), <2>1, <3>1, <3>3, <3>4, SessionAssumption DEF WithinBudget
  <2>9. /\ Open(sessions)' = Open(ss) \cup {s}
        /\ \A t \in Open(ss) \cup {s} : sessions'[t] = IF t = s THEN x ELSE ss[t]
    BY <1>3, <2>2, <2>3 DEF Open
  <2>10. \A t \in Open(sessions)' : WithinBudget(sessions'[t])
    BY <1>3, <2>8, <2>9 DEF Budgets
  <2> QED BY <2>7, <2>10 DEF Budgets, WithinBudget
<1> QED BY <1>2, <1>4, <1>5

\* What touching and tracking do to the bytes of a session.
LEMMA BytesShapes ==
    ASSUME NEW x \in McpHttpSession, NEW r \in RequestIds, TypeOK
    PROVE  /\ Touched(x).seen = x.seen /\ Touched(x).seen_bytes = x.seen_bytes
           /\ [Touched(x) EXCEPT !.initialized = TRUE].seen = x.seen
           /\ [Touched(x) EXCEPT !.initialized = TRUE].seen_bytes = x.seen_bytes
           /\ Tracked(Touched(x), r).seen = x.seen \cup {r}
           /\ Tracked(Touched(x), r).seen_bytes = x.seen_bytes + Size[r]
<1>1. Touched(x).seen = x.seen /\ Touched(x).seen_bytes = x.seen_bytes
  BY DEF Touched, McpHttpSession
<1>2. PICK y \in McpHttpSession : y = Touched(x)
  BY TouchShapes
<1>3. /\ [y EXCEPT !.initialized = TRUE].seen = y.seen
      /\ [y EXCEPT !.initialized = TRUE].seen_bytes = y.seen_bytes
  BY DEF McpHttpSession
<1>4. Tracked(y, r).seen = y.seen \cup {r} /\ Tracked(y, r).seen_bytes = y.seen_bytes + Size[r]
  BY DEF Tracked, McpHttpSession
<1> QED BY <1>1, <1>2, <1>3, <1>4

\* Every step keeps the store within the budgets.
LEMMA NextKeepsBudgets == IInv /\ Budgets /\ [Next]_vars => Budgets'
<1> SUFFICES ASSUME IInv, Budgets, [Next]_vars PROVE Budgets'
  OBVIOUS
<1> TypeOK
  BY DEF IInv
<1>0. \A s \in SessionIds : Live(s) => s \in Open(sessions) /\ sessions[s] \in McpHttpSession
  BY DEF Live, Open, TypeOK
<1>1. CASE UNCHANGED sessions
  <2>1. Open(sessions') = Open(sessions)
    BY <1>1
  <2> QED BY <1>1, <2>1, RemovalKeepsBudgets DEF TypeOK
<1>2. ASSUME NEW s \in SessionIds, NEW r \in RequestIds, Initialize(s, r) PROVE Budgets'
  BY <1>2, InitializeKeepsBudgets
<1>3. ASSUME NEW s \in SessionIds, NEW r \in RequestIds, NEW ping \in BOOLEAN, Request(s, r, ping)
      PROVE  Budgets'
  <2>1. s \in Open(sessions) /\ sessions[s] \in McpHttpSession
    BY <1>0, <1>3 DEF Request
  <2>2. CASE r \notin sessions[s].seen /\ Fits(sessions[s], r)
    <3>1. PICK x : x = Tracked(Touched(sessions[s]), r)
      OBVIOUS
    <3>2. sessions' = [sessions EXCEPT ![s] = x]
      BY <1>3, <2>2, <3>1 DEF Request
    <3>3. x.seen = sessions[s].seen \cup {r} /\ x.seen_bytes = sessions[s].seen_bytes + Size[r]
      BY <2>1, <3>1, BytesShapes
    <3>4. x \in McpHttpSession
      BY <2>1, <3>1, TouchShapes, TrackShapes
    <3> QED BY <2>1, <2>2, <3>2, <3>3, <3>4, UpdateKeepsBudgets
  <2>3. CASE ~(r \notin sessions[s].seen /\ Fits(sessions[s], r))
    <3>1. PICK x : x = Touched(sessions[s])
      OBVIOUS
    <3>2. sessions' = [sessions EXCEPT ![s] = x]
      BY <1>3, <2>3, <3>1 DEF Request
    <3>3. x.seen = sessions[s].seen /\ x.seen_bytes = sessions[s].seen_bytes /\ x \in McpHttpSession
      BY <2>1, <3>1, BytesShapes, TouchShapes
    <3> QED BY <2>1, <3>2, <3>3, UpdateKeepsBudgets
  <2> QED BY <2>2, <2>3
<1>4. ASSUME NEW s \in SessionIds, MarkInitialized(s) \/ TouchSession(s) PROVE Budgets'
  <2>1. s \in Open(sessions) /\ sessions[s] \in McpHttpSession
    BY <1>0, <1>4 DEF MarkInitialized, TouchSession
  <2>2. PICK x : /\ sessions' = [sessions EXCEPT ![s] = x]
                 /\ \/ x = Touched(sessions[s])
                    \/ x = [Touched(sessions[s]) EXCEPT !.initialized = TRUE]
    BY <1>4 DEF MarkInitialized, TouchSession
  <2>3. x \in McpHttpSession
    BY <2>1, <2>2, TouchShapes
  <2>4. x.seen = sessions[s].seen /\ x.seen_bytes = sessions[s].seen_bytes
    <3>1. CASE RequestIds = {}
      BY <2>1, <2>2 DEF Touched, McpHttpSession
    <3>2. CASE RequestIds # {}
      BY <2>1, <2>2, <3>2, BytesShapes
    <3> QED BY <3>1, <3>2
  <2> QED BY <2>1, <2>2, <2>3, <2>4, UpdateKeepsBudgets
<1>5. ASSUME NEW s \in SessionIds, FindExpired(s) \/ Close(s) PROVE Budgets'
  <2>1. sessions' = [sessions EXCEPT ![s] = NoSession]
    BY <1>5 DEF FindExpired, Close
  <2>2. /\ sessions' \in [SessionIds -> McpHttpSession \cup {NoSession}]
        /\ Open(sessions') \subseteq Open(sessions)
        /\ \A t \in Open(sessions') : sessions'[t] = sessions[t]
    BY <2>1 DEF TypeOK, Open
  <2> QED BY <2>2, RemovalKeepsBudgets
<1>6. CASE Snapshot
  BY <1>6, PruneShape, RemovalKeepsBudgets DEF Snapshot
<1> QED BY <1>1, <1>2, <1>3, <1>4, <1>5, <1>6 DEF Next, ClockMoves, vars

\* The budgets of the replay protection hold at all times, and the counters they are
\* checked with are the bytes of the ids.
THEOREM BudgetsAlwaysHold == Spec => []BudgetsHold
<1>1. Init => Budgets
  <2> SUFFICES ASSUME Init PROVE Budgets
    BY SMTT(30)
  <2>1. Open(sessions) = {}
    BY SMTT(30) DEF Init, Open
  <2>2. global_request_id_bytes(sessions) = 0
    BY <2>1, TotalEmpty DEF global_request_id_bytes
  <2> QED BY SMTT(30), <2>1, <2>2, SessionAssumption DEF Budgets
<1>2. IInv /\ Budgets => BudgetsHold
  BY DEF IInv, Bounded, Budgets, WithinBudget, BudgetsHold
<1> QED BY <1>1, <1>2, NextKeepsBudgets, SessionInvariant, PTL DEF Spec
=============================================================================
