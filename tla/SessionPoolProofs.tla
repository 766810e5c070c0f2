-------------------------- MODULE SessionPoolProofs -------------------------
(***************************************************************************)
(* Proofs about the pool of upstream workers, for any numbers of callers,  *)
(* keys and workers and any limits that satisfy PoolAssumption.            *)
(***************************************************************************)
EXTENDS SessionPool, FiniteSetTheorems, WellFoundedInduction, TLAPS

\* The backend of every step that names no other.
USE ZenonT(30)

-----------------------------------------------------------------------------
(* What removing workers leaves of a group.                                 *)

Before == OpToRel(<, Nat)

\* A set of numbers has a least element: the form of induction used below.
LEMMA LeastNumber ==
  ASSUME NEW T \in SUBSET Nat, T # {}
  PROVE  \E n \in T : \A m \in T : n <= m
<1>1. \E n \in T : \A m \in T : <<m, n>> \notin Before
  BY NatLessThanWellFounded, WFMin DEF Before
<1>2. PICK n \in T : \A m \in T : <<m, n>> \notin Before
  BY <1>1
<1>3. ASSUME NEW m \in T PROVE n <= m
  <2>1. m \in Nat /\ n \in Nat
    OBVIOUS
  <2>2. ~(m < n)
    BY <1>2, <2>1 DEF Before, OpToRel
  <2> QED
    BY SMTT(30), <2>1, <2>2
<1> QED
  BY <1>2, <1>3

\* A set of positions has a last one.
LEMMA LastPosition ==
  ASSUME NEW L \in Nat, NEW I \in SUBSET (1 .. L), I # {}
  PROVE  \E m \in I : \A i \in I : i <= m
<1> DEFINE B == {b \in Nat : \A i \in I : i <= b}
<1>1. L \in B
  BY SMTT(30)
<1>2. PICK m \in B : \A b \in B : m <= b
  BY <1>1, LeastNumber
<1>3. m \in I
  <2>1. SUFFICES ASSUME m \notin I PROVE FALSE
    OBVIOUS
  <2>2. PICK i \in I : TRUE
    OBVIOUS
  <2>3. m - 1 \in Nat /\ \A j \in I : j <= m - 1
    BY SMTT(30), <2>1, <2>2
  <2>4. m <= m - 1
    BY <1>2, <2>3
  <2> QED
    BY SMTT(30), <2>4
<1> QED
  BY <1>3

Increasing(f) == \A m, n \in DOMAIN f : m < n => f[m] < f[n]

\* A set of positions is enumerated by an increasing function.
LEMMA Enumerated ==
  ASSUME NEW L \in Nat, NEW I \in SUBSET (1 .. L)
  PROVE  /\ IsFiniteSet(I) /\ Cardinality(I) \in Nat /\ Cardinality(I) <= L
         /\ \E f \in [1 .. Cardinality(I) -> I] : Increasing(f)
<1>1. ASSUME NEW J \in SUBSET (1 .. L)
      PROVE IsFiniteSet(J) /\ Cardinality(J) \in Nat /\ Cardinality(J) <= L
  <2>1. IsFiniteSet(1 .. L) /\ Cardinality(1 .. L) = L
    BY SMTT(30), FS_Interval
  <2>2. IsFiniteSet(J) /\ Cardinality(J) <= L
    BY <2>1, FS_Subset
  <2> QED
    BY <2>2, FS_CardinalityType
<1> DEFINE Good(J) == \E f \in [1 .. Cardinality(J) -> J] : Increasing(f)
           T == {n \in Nat : \E J \in SUBSET (1 .. L) : Cardinality(J) = n /\ ~Good(J)}
<1>2. T = {}
  <2>1. SUFFICES ASSUME T # {} PROVE FALSE
    OBVIOUS
  <2>2. PICK n \in T : \A m \in T : n <= m
    BY <2>1, LeastNumber
  <2>3. PICK J \in SUBSET (1 .. L) : Cardinality(J) = n /\ ~Good(J)
    OBVIOUS
  <2>4. J # {}
    <3>1. SUFFICES ASSUME J = {} PROVE Good(J)
      BY <2>3
    <3>2. Cardinality(J) = 0
      BY <3>1, FS_EmptySet
    <3>3. [k \in 1 .. 0 |-> k] \in [1 .. 0 -> J]
      BY SMTT(30)
    <3>4. Increasing([k \in 1 .. 0 |-> k])
      BY DEF Increasing
    <3> QED
      BY <3>2, <3>3, <3>4
  <2>5. PICK m \in J : \A i \in J : i <= m
    BY <2>4, LastPosition
  <2> DEFINE K == J \ {m}
  <2>6. n \in Nat /\ Cardinality(K) = n - 1 /\ n - 1 \in Nat
    BY SMTT(30), <1>1, <2>3, FS_RemoveElement
  <2>7. PICK f \in [1 .. Cardinality(K) -> K] : Increasing(f)
    <3>1. n - 1 \notin T
      BY SMTT(30), <2>2, <2>6
    <3> QED
      BY <3>1, <2>6
  <2> DEFINE g == [k \in 1 .. n |-> IF k = n THEN m ELSE f[k]]
  <2> HIDE DEF T
  <2>8. g \in [1 .. n -> J]
    <3>1. ASSUME NEW k \in 1 .. n PROVE g[k] \in J
      <4>1. k # n => k \in 1 .. Cardinality(K)
        BY SMTT(30), <2>6
      <4> QED
        BY <4>1
    <3> QED
      BY <3>1
  <2>9. Increasing(g)
    <3>1. ASSUME NEW a \in 1 .. n, NEW b \in 1 .. n, a < b PROVE g[a] < g[b]
      <4>1. a \in DOMAIN f /\ g[a] = f[a]
        BY SMTT(30), <3>1, <2>6
      <4>2. f[a] \in J /\ f[a] # m
        BY <4>1
      <4>3. CASE b = n
        <5>1. g[b] = m
          BY <4>3
        <5>2. f[a] <= m
          BY <4>2, <2>5
        <5>3. f[a] \in 1 .. L /\ m \in 1 .. L
          BY <4>2
        <5> QED
          BY SMTT(30), <4>1, <4>2, <5>1, <5>2, <5>3
      <4>4. CASE b # n
        <5>1. b \in DOMAIN f /\ g[b] = f[b]
          BY SMTT(30), <4>4, <2>6
        <5> QED
          BY <4>1, <5>1, <3>1, <2>7 DEF Increasing
      <4> QED
        BY <4>3, <4>4
    <3> QED
      BY <3>1 DEF Increasing
  <2> QED
    BY <2>3, <2>8, <2>9
<1> QED
  BY <1>1, <1>2

\* What is left of a group are its workers that do not go, each as often as it was.
LEMMA WithoutFacts ==
  ASSUME NEW group \in Seq(Workers), NEW gone
  PROVE  /\ Without(group, gone) \in Seq(Workers)
         /\ Len(Without(group, gone)) <= Len(group)
         /\ Range(Without(group, gone)) = Range(group) \ gone
         /\ IsInjective(group) => IsInjective(Without(group, gone))
<1> DEFINE L == Len(group)
           I == {i \in 1 .. L : group[i] \notin gone}
           N == Cardinality(I)
           at == CHOOSE f \in [1 .. N -> I] : \A m, n \in DOMAIN f : m < n => f[m] < f[n]
           W == [n \in 1 .. N |-> group[at[n]]]
<1>1. L \in Nat /\ I \in SUBSET (1 .. L)
  BY SMTT(30)
<1>2. Without(group, gone) = W
  BY DEF Without
<1>3. IsFiniteSet(I) /\ N \in Nat /\ N <= L
  BY <1>1, Enumerated
<1>4. at \in [1 .. N -> I] /\ \A m, n \in 1 .. N : m < n => at[m] < at[n]
  <2>1. \E f \in [1 .. N -> I] : \A m, n \in DOMAIN f : m < n => f[m] < f[n]
    BY <1>1, Enumerated DEF Increasing
  <2> QED
    BY <2>1
<1> HIDE DEF at, N, I
<1>5. at \in Injection(1 .. N, I)
  <2>1. ASSUME NEW m \in 1 .. N, NEW n \in 1 .. N, at[m] = at[n] PROVE m = n
    <3>1. at[m] \in Nat
      BY SMTT(30), <1>4 DEF I
    <3> QED
      BY SMTT(30), <2>1, <3>1, <1>3, <1>4
  <2> QED
    BY <2>1, <1>4 DEF Injection, IsInjective
<1>6. at \in Surjection(1 .. N, I)
  <2>1. Cardinality(1 .. N) = N
    BY SMTT(30), <1>3, FS_Interval
  <2> QED
    BY <1>3, <1>5, <2>1, FS_Injection DEF N
<1>7. W \in Seq(Workers) /\ Len(W) = N
  <2>1. ASSUME NEW n \in 1 .. N PROVE group[at[n]] \in Workers
    BY SMTT(30), <1>4 DEF I
  <2> QED
    BY SMTT(30), <2>1, <1>3
<1>8. Range(W) = Range(group) \ gone
  <2>1. ASSUME NEW w \in Range(W) PROVE w \in Range(group) \ gone
    BY SMTT(30), <1>4, <2>1 DEF Range, I
  <2>2. ASSUME NEW w \in Range(group) \ gone PROVE w \in Range(W)
    <3>1. PICK i \in I : group[i] = w
      BY SMTT(30), <2>2 DEF Range, I
    <3>2. PICK n \in 1 .. N : at[n] = i
      BY <1>6 DEF Surjection
    <3> QED
      BY <3>1, <3>2 DEF Range
  <2> QED
    BY <2>1, <2>2
<1>9. ASSUME IsInjective(group) PROVE IsInjective(W)
  <2>1. ASSUME NEW m \in 1 .. N, NEW n \in 1 .. N, W[m] = W[n] PROVE m = n
    <3>1. at[m] \in DOMAIN group /\ at[n] \in DOMAIN group
      BY SMTT(30), <1>4 DEF I
    <3>2. at[m] = at[n]
      BY <1>9, <2>1, <3>1 DEF IsInjective
    <3> QED
      BY <3>2, <1>5 DEF Injection, IsInjective
  <2> QED
    BY <2>1 DEF IsInjective
<1> QED
  BY <1>2, <1>3, <1>7, <1>8, <1>9

-----------------------------------------------------------------------------
(* The inductive invariant.                                                 *)

\* The groups are in bounds and no worker is in them twice.
GroupsOK ==
    /\ groups \in [Keys -> Seq(Workers)]
    /\ \A k \in Keys : Len(groups[k]) <= WorkerLimit[k] /\ IsInjective(groups[k])
    /\ \A k, l \in Keys : Range(groups[k]) \cap Range(groups[l]) # {} => k = l
    /\ IsFiniteSet(Registered) /\ Count <= max_sessions

\* What the flags of the workers and the callers say of each other: a worker in use is
\* busy whether or not it is registered, and one on its way back has no answer
\* outstanding unless it has left the pool.
UsersOK ==
    /\ \A c \in Callers : pc[c] # "idle" => key[c] \in Keys
    /\ \A c, d \in Callers : held[c] = held[d] /\ held[c] # NoWorker => c = d
    /\ \A c \in Callers : pc[c] \in {"init", "use", "discard"} => held[c] \in Range(groups[key[c]])
    /\ \A c \in Callers : held[c] # NoWorker => worker[held[c]].busy
    /\ \A w \in Registered : worker[w].busy => \E c \in Callers : held[c] = w
    /\ \A c \in Callers : pc[c] = "unbusy" /\ held[c] \in Registered => worker[held[c]].session # "dirty"

PoolInv == TypeOK /\ GroupsOK /\ UsersOK /\ NoStaleAnswer

\* Groups that do not change stay in bounds.
LEMMA GroupsSame ==
  ASSUME GroupsOK, UNCHANGED groups
  PROVE  GroupsOK' /\ Registered' = Registered
BY DEF GroupsOK, Registered, Count

\* Removing workers from the groups they are in removes them from the pool, and keeps it
\* in bounds.
LEMMA GroupsShrink ==
  ASSUME GroupsOK, NEW gone, groups' \in [Keys -> Seq(Workers)],
         \A k \in Keys : \/ groups'[k] = Without(groups[k], gone)
                         \/ groups'[k] = groups[k] /\ Range(groups[k]) \cap gone = {}
  PROVE  /\ GroupsOK'
         /\ Registered' = Registered \ gone
         /\ \A k \in Keys : Range(groups'[k]) = Range(groups[k]) \ gone
<1>1. ASSUME NEW k \in Keys
      PROVE  /\ Len(groups'[k]) <= Len(groups[k])
             /\ Range(groups'[k]) = Range(groups[k]) \ gone
             /\ IsInjective(groups'[k])
  <2>1. groups[k] \in Seq(Workers) /\ IsInjective(groups[k])
    BY DEF GroupsOK
  <2>2. CASE groups'[k] = Without(groups[k], gone)
    BY <2>1, <2>2, WithoutFacts
  <2>3. CASE groups'[k] = groups[k] /\ Range(groups[k]) \cap gone = {}
    <3>1. Len(groups[k]) <= Len(groups[k])
      BY SMTT(30), <2>1
    <3> QED
      BY <2>1, <2>3, <3>1
  <2> QED
    BY <2>2, <2>3
<1>2. Registered' = Registered \ gone
  BY SMTT(30), <1>1 DEF Registered
<1>3. IsFiniteSet(Registered') /\ Cardinality(Registered') <= max_sessions
  <2>1. IsFiniteSet(Registered) /\ Cardinality(Registered) <= max_sessions
    BY DEF GroupsOK, Count
  <2>2. IsFiniteSet(Registered') /\ Cardinality(Registered') <= Cardinality(Registered)
    BY <1>2, <2>1, FS_Subset
  <2>3. Cardinality(Registered) \in Nat /\ Cardinality(Registered') \in Nat
    BY <2>1, <2>2, FS_CardinalityType
  <2> QED
    BY SMTT(30), <2>1, <2>2, <2>3, PoolAssumption
<1>4. ASSUME NEW k \in Keys PROVE Len(groups'[k]) <= WorkerLimit[k]
  <2>1. Len(groups'[k]) <= Len(groups[k]) /\ Len(groups[k]) <= WorkerLimit[k]
    BY <1>1 DEF GroupsOK
  <2>2. Len(groups'[k]) \in Nat /\ Len(groups[k]) \in Nat /\ WorkerLimit[k] \in Nat
    BY SMTT(30), PoolAssumption DEF GroupsOK
  <2> QED
    BY SMTT(30), <2>1, <2>2
<1>5. ASSUME NEW k \in Keys, NEW l \in Keys, Range(groups'[k]) \cap Range(groups'[l]) # {}
      PROVE  k = l
  <2>1. Range(groups[k]) \cap Range(groups[l]) # {}
    BY <1>1, <1>5
  <2> QED
    BY <2>1 DEF GroupsOK
<1> QED
  BY <1>1, <1>2, <1>3, <1>4, <1>5 DEF GroupsOK, Count

\* A new worker in a group that may grow keeps the pool in bounds.
LEMMA GroupsGrow ==
  ASSUME GroupsOK, NEW k \in Keys, NEW w \in Workers, w \notin Registered, MayGrow(k),
         groups' = [groups EXCEPT ![k] = Append(@, w)]
  PROVE  /\ GroupsOK'
         /\ Registered' = Registered \cup {w}
         /\ \A l \in Keys : Range(groups'[l]) = IF l = k THEN Range(groups[l]) \cup {w} ELSE Range(groups[l])
<1>1. groups \in [Keys -> Seq(Workers)]
  BY DEF GroupsOK
<1>2. groups' \in [Keys -> Seq(Workers)]
  BY SMTT(30), <1>1
<1>3. groups'[k] = Append(groups[k], w) /\ \A l \in Keys \ {k} : groups'[l] = groups[l]
  BY <1>1
<1>4. Range(groups'[k]) = Range(groups[k]) \cup {w}
  <2>1. groups[k] \in Seq(Workers)
    BY <1>1
  <2>2. Len(groups'[k]) = Len(groups[k]) + 1 /\ groups'[k] \in Seq(Workers)
    BY SMTT(30), <2>1, <1>2, <1>3
  <2>3. \A i \in 1 .. Len(groups[k]) : groups'[k][i] = groups[k][i]
    BY SMTT(30), <2>1, <1>3
  <2>4. groups'[k][Len(groups[k]) + 1] = w
    BY SMTT(30), <2>1, <1>3
  <2>5. DOMAIN groups'[k] = 1 .. Len(groups[k]) + 1 /\ DOMAIN groups[k] = 1 .. Len(groups[k])
    BY SMTT(30), <2>1, <2>2
  <2>6. Len(groups[k]) \in Nat
    BY SMTT(30), <2>1
  <2> HIDE <1>3
  <2>7. ASSUME NEW v \in Range(groups'[k]) PROVE v \in Range(groups[k]) \cup {w}
    <3>1. PICK i \in 1 .. Len(groups[k]) + 1 : groups'[k][i] = v
      BY <2>5 DEF Range
    <3>2. CASE i = Len(groups[k]) + 1
      BY <3>1, <3>2, <2>4
    <3>3. CASE i # Len(groups[k]) + 1
      <4>1. i \in 1 .. Len(groups[k])
        BY SMTT(30), <3>3, <2>6
      <4> QED
        BY <4>1, <3>1, <2>3, <2>5 DEF Range
    <3> QED
      BY <3>2, <3>3
  <2>8. ASSUME NEW v \in Range(groups[k]) \cup {w} PROVE v \in Range(groups'[k])
    <3>1. CASE v = w
      <4>1. Len(groups[k]) + 1 \in DOMAIN groups'[k]
        BY SMTT(30), <2>5, <2>6
      <4> QED
        BY <4>1, <3>1, <2>4 DEF Range
    <3>2. CASE v # w
      <4>1. PICK i \in 1 .. Len(groups[k]) : groups[k][i] = v
        BY <2>5, <3>2 DEF Range
      <4>2. i \in DOMAIN groups'[k]
        BY SMTT(30), <2>5, <2>6
      <4> QED
        BY <4>1, <4>2, <2>3 DEF Range
    <3> QED
      BY <3>1, <3>2
  <2> QED
    BY <2>7, <2>8
<1>5. Registered' = Registered \cup {w}
  BY <1>3, <1>4 DEF Registered
<1>6. IsFiniteSet(Registered') /\ Count' <= max_sessions
  <2>1. IsFiniteSet(Registered) /\ Cardinality(Registered) < max_sessions
    BY DEF GroupsOK, MayGrow, Count
  <2>2. Cardinality(Registered) \in Nat
    BY <2>1, FS_CardinalityType
  <2>3. IsFiniteSet(Registered') /\ Cardinality(Registered') = Cardinality(Registered) + 1
    BY <1>5, <2>1, FS_AddElement
  <2> QED
    BY SMTT(30), <2>1, <2>2, <2>3, PoolAssumption DEF Count
<1>7. ASSUME NEW l \in Keys PROVE Len(groups'[l]) <= WorkerLimit[l] /\ IsInjective(groups'[l])
  <2>1. CASE l # k
    BY <2>1, <1>3 DEF GroupsOK
  <2>2. CASE l = k
    <3>1. groups[k] \in Seq(Workers) /\ Len(groups[k]) < WorkerLimit[k] /\ WorkerLimit[k] \in Nat
      BY <1>1, PoolAssumption DEF MayGrow
    <3>2. Len(groups'[k]) = Len(groups[k]) + 1
      BY SMTT(30), <1>3, <3>1
    <3>3. \A i \in 1 .. Len(groups[k]) : groups[k][i] # w
      BY SMTT(30) DEF Registered, Range
    <3>4. IsInjective(groups[k])
      BY DEF GroupsOK
    <3>5. IsInjective(groups'[k])
      BY SMTT(30), <1>3, <3>1, <3>3, <3>4 DEF IsInjective
    <3> QED
      BY SMTT(30), <2>2, <3>1, <3>2, <3>5
  <2> QED
    BY <2>1, <2>2
<1>8. ASSUME NEW l \in Keys, NEW m \in Keys, Range(groups'[l]) \cap Range(groups'[m]) # {}
      PROVE  l = m
  <2>1. w \notin Range(groups[l]) /\ w \notin Range(groups[m])
    BY DEF Registered
  <2>2. l # m => Range(groups[l]) \cap Range(groups[m]) # {}
    BY <2>1, <1>3, <1>4, <1>8
  <2> QED
    BY <2>2 DEF GroupsOK
<1> QED
  BY <1>2, <1>3, <1>4, <1>5, <1>6, <1>7, <1>8 DEF GroupsOK

\* A worker of a group is a registered worker.
LEMMA MembersRegistered ==
  ASSUME GroupsOK
  PROVE  /\ \A k \in Keys : \A i \in 1 .. Len(groups[k]) : groups[k][i] \in Range(groups[k])
         /\ \A k \in Keys : Range(groups[k]) \subseteq Registered
         /\ Registered \subseteq Workers
<1>1. \A k \in Keys : groups[k] \in Seq(Workers)
  BY DEF GroupsOK
<1>2. (\A k \in Keys : Range(groups[k]) \subseteq Registered) /\ Registered \subseteq Workers
  BY SMTT(30), <1>1 DEF Registered, Range
<1> QED
  BY SMTT(30), <1>1, <1>2 DEF Range

\* The steps that change neither the groups nor a worker.
Looks(c) == \/ Judge(c) \/ FindNone(c) \/ Wait(c) \/ TimedOut(c) \/ Wakes(c) \/ LeaseLost(c)
            \/ InitFails(c) \/ DropCheckout(c) \/ \E k \in Keys : Begin(c, k)

\* They keep the invariant.
LEMMA LooksKeepPool ==
  ASSUME PoolInv, NEW c \in Callers, Looks(c)
  PROVE  PoolInv'
<1> USE DEF PoolInv
<1>1. UNCHANGED <<groups, worker, held, failed>>
  BY DEF Looks, Judge, FindNone, Wait, TimedOut, Wakes, LeaseLost, InitFails, DropCheckout, Begin, GivesUp
<1>2. GroupsOK' /\ Registered' = Registered
  BY <1>1, GroupsSame
<1>3. PICK to \in Locations : pc' = [pc EXCEPT ![c] = to]
  BY DEF Looks, Judge, FindNone, Wait, TimedOut, Wakes, LeaseLost, InitFails, DropCheckout, Begin,
         GivesUp, Go, Locations
<1>4. PICK k \in Keys \cup {NoKey} : key' = [key EXCEPT ![c] = k]
  BY SMTT(30) DEF Looks, Judge, FindNone, Wait, TimedOut, Wakes, LeaseLost, InitFails, DropCheckout, Begin,
         GivesUp, Go, Locations, TypeOK
<1>5. stale' \in [Callers -> SUBSET Workers]
  <2>1. CASE Judge(c)
    BY SMTT(30), <2>1, MembersRegistered DEF Judge, TypeOK
  <2>2. CASE ~Judge(c)
    BY <2>2 DEF Looks, FindNone, Wait, TimedOut, Wakes, LeaseLost, InitFails, DropCheckout, Begin,
         GivesUp, TypeOK
  <2> QED
    BY <2>1, <2>2
<1>6. TypeOK'
  BY <1>1, <1>3, <1>4, <1>5
     DEF TypeOK, Looks, Judge, FindNone, Wait, TimedOut, Wakes, LeaseLost, InitFails, DropCheckout, Begin,
         GivesUp, Go
<1>7. /\ pc'[c] # "idle" => key'[c] \in Keys
      /\ pc'[c] \in {"init", "use", "discard"} => pc[c] \in {"init", "use"} /\ key' = key
      /\ pc'[c] = "unbusy" => worker[held[c]].session # "dirty"
  BY SMTT(30) DEF UsersOK, TypeOK, Looks, Judge, FindNone, Wait, TimedOut, Wakes, LeaseLost, InitFails,
         DropCheckout, Begin, GivesUp, Go, SessionOf
<1>8. \A d \in Callers \ {c} : pc'[d] = pc[d] /\ key'[d] = key[d]
  BY <1>3, <1>4 DEF TypeOK
<1>9. UsersOK'
  <2>1. \A d \in Callers : pc'[d] # "idle" => key'[d] \in Keys
    BY <1>7, <1>8 DEF UsersOK
  <2>2. \A d \in Callers : pc'[d] \in {"init", "use", "discard"} => held[d] \in Range(groups[key'[d]])
    BY <1>7, <1>8 DEF UsersOK
  <2>3. \A d \in Callers : pc'[d] = "unbusy" /\ held[d] \in Registered => worker[held[d]].session # "dirty"
    BY <1>7, <1>8 DEF UsersOK
  <2> QED
    BY <1>1, <1>2, <2>1, <2>2, <2>3 DEF UsersOK
<1>10. NoStaleAnswer'
  BY <1>1, <1>2 DEF NoStaleAnswer
<1> QED
  BY <1>2, <1>6, <1>9, <1>10

\* The steps that change the session or the initialized flag of one worker.
Touches(w) == \/ \E c \in Callers : /\ InitOk(c) \/ Send(c) \/ Receive(c) \/ CallFails(c) \/ Panics(c)
                                    /\ w = held[c]
              \/ w \in Registered /\ (Exits(w) \/ SnapshotSees(w))

\* They keep the invariant.
LEMMA TouchesKeepPool ==
  ASSUME PoolInv, NEW w, Touches(w)
  PROVE  PoolInv'
<1> USE DEF PoolInv
<1>1. UNCHANGED <<groups, key, held, stale>>
  BY DEF Touches, InitOk, Send, Receive, CallFails, Panics, Exits, SnapshotSees, callerVars
<1>2. GroupsOK' /\ Registered' = Registered
  BY <1>1, GroupsSame
<1>3. w \in Workers
  BY MembersRegistered DEF Touches, TypeOK, InitOk, Send, Receive, CallFails, Panics, Go, Registered
<1>4. /\ worker' \in [Workers -> Worker]
      /\ worker'[w].busy = worker[w].busy
      /\ \A v \in Workers \ {w} : worker'[v] = worker[v]
      /\ worker'[w].session = "dirty" /\ worker[w].session # "dirty" =>
            \E c \in Callers : held[c] = w /\ pc[c] = "use" /\ pc' = pc
  <2>1. ASSUME NEW c \in Callers, InitOk(c), w = held[c] PROVE <1>4!:
    BY SMTT(30), <1>3, <2>1 DEF TypeOK, InitOk, Worker, Session
  <2>2. ASSUME NEW c \in Callers, Send(c), w = held[c] PROVE <1>4!:
    BY SMTT(30), <1>3, <2>2 DEF TypeOK, Send, SetSession, Worker, Session, callerVars
  <2>3. ASSUME NEW c \in Callers, Receive(c), w = held[c] PROVE <1>4!:
    BY SMTT(30), <1>3, <2>3 DEF TypeOK, Receive, SetSession, Worker, Session
  <2>4. ASSUME NEW c \in Callers, CallFails(c), w = held[c] PROVE <1>4!:
    <3>1. worker[w] \in Worker /\ SessionOf(c) = worker[w].session
      BY <1>3, <2>4 DEF TypeOK, SessionOf
    <3>2. (worker[w].initialized /\ SessionOf(c) # "poisoned") \in BOOLEAN
      OBVIOUS
    <3>3. worker' = [worker EXCEPT ![w] = [@ EXCEPT !.initialized = (worker[w].initialized /\ SessionOf(c) # "poisoned")]]
      BY <1>3, <2>4 DEF CallFails, TypeOK
    <3> HIDE DEF SessionOf
    <3> QED
      BY <1>3, <3>1, <3>2, <3>3 DEF TypeOK, Worker
  <2>5. ASSUME NEW c \in Callers, Panics(c), w = held[c] PROVE <1>4!:
    BY SMTT(30), <1>3, <2>5 DEF TypeOK, Panics, SetSession, Worker, Session
  <2>6. CASE Exits(w)
    BY <1>3, <2>6 DEF TypeOK, Exits, Worker, Session
  <2>7. CASE SnapshotSees(w)
    BY <1>3, <2>7 DEF TypeOK, SnapshotSees, Worker, Session
  <2> QED
    BY <2>1, <2>2, <2>3, <2>4, <2>5, <2>6, <2>7 DEF Touches
<1>5. TypeOK'
  BY <1>1, <1>3, <1>4
     DEF TypeOK, Touches, InitOk, Send, Receive, CallFails, Panics, Exits, SnapshotSees, callerVars, Go,
         Locations, Worker
<1>6. \A d \in Callers : /\ pc'[d] # "idle" => pc[d] # "idle"
                         /\ pc'[d] \in {"init", "use", "discard"} => pc[d] \in {"init", "use", "discard"}
                         /\ pc'[d] = "unbusy" /\ pc[d] # "unbusy" => held[d] = w /\ worker'[w].session # "dirty"
  <2>1. ASSUME NEW c \in Callers, InitOk(c) \/ Send(c) \/ Receive(c) \/ CallFails(c) PROVE <1>6!:
    BY <2>1 DEF TypeOK, InitOk, Send, Receive, CallFails, callerVars, Go
  <2>2. ASSUME NEW c \in Callers, Panics(c), w = held[c] PROVE <1>6!:
    <3>1. worker'[w].session = "poisoned"
      BY <1>3, <2>2 DEF TypeOK, Panics, SetSession, Worker
    <3>2. pc' = [pc EXCEPT ![c] = "unbusy"] /\ pc[c] = "use"
      BY <2>2 DEF Panics, Go
    <3> QED
      BY <2>2, <3>1, <3>2 DEF TypeOK
  <2>3. CASE Exits(w) \/ SnapshotSees(w)
    BY <2>3 DEF Exits, SnapshotSees, callerVars
  <2> QED
    BY <2>1, <2>2, <2>3 DEF Touches
<1>7. UsersOK'
  <2>1. \A v \in Workers : worker'[v].busy = worker[v].busy
    BY <1>4
  <2>2. \A d \in Callers : held[d] # NoWorker => worker'[held[d]].busy
    BY <2>1 DEF UsersOK, TypeOK
  <2>3. \A v \in Registered : worker'[v].busy => \E d \in Callers : held[d] = v
    BY <2>1, MembersRegistered DEF UsersOK
  <2>4. ASSUME NEW d \in Callers, pc'[d] = "unbusy", held[d] \in Registered
        PROVE  worker'[held[d]].session # "dirty"
    <3>1. CASE pc[d] # "unbusy"
      BY <3>1, <2>4, <1>6
    <3>2. CASE pc[d] = "unbusy"
      <4>1. worker[held[d]].session # "dirty" /\ held[d] \in Workers
        BY <3>2, <2>4, MembersRegistered DEF UsersOK
      <4>2. CASE held[d] = w
        BY <4>1, <4>2, <1>3, <1>4, <3>2, PoolAssumption DEF UsersOK
      <4>3. CASE held[d] # w
        BY <4>1, <4>3, <1>4
      <4> QED
        BY <4>2, <4>3
    <3> QED
      BY <3>1, <3>2
  <2>5. \A d \in Callers : /\ pc'[d] # "idle" => key[d] \in Keys
                           /\ pc'[d] \in {"init", "use", "discard"} => held[d] \in Range(groups[key[d]])
    BY <1>6 DEF UsersOK
  <2> QED
    BY <1>1, <1>2, <2>2, <2>3, <2>4, <2>5 DEF UsersOK
<1>8. NoStaleAnswer'
  <2>1. SUFFICES ASSUME NEW v \in Registered, ~worker'[v].busy PROVE worker'[v].session # "dirty"
    BY <1>2 DEF NoStaleAnswer
  <2>2. v \in Workers
    BY MembersRegistered
  <2>3. CASE v # w
    BY <2>1, <2>2, <2>3, <1>4 DEF NoStaleAnswer
  <2>4. CASE v = w
    <3>1. ~worker[w].busy /\ worker[w].session # "dirty"
      BY <2>1, <2>4, <1>4 DEF NoStaleAnswer
    <3>2. \A c \in Callers : held[c] # w
      BY <3>1, <1>3, PoolAssumption DEF UsersOK
    <3> QED
      BY <2>4, <3>1, <3>2, <1>4
  <2> QED
    BY <2>3, <2>4
<1> QED
  BY <1>2, <1>5, <1>7, <1>8

\* A worker is taken.
LEMMA TakeKeepsPool ==
  ASSUME PoolInv, NEW c \in Callers, Take(c)
  PROVE  PoolInv'
<1> USE DEF PoolInv
<1>1. PICK i \in Available(key[c]) :
         /\ pc' = [pc EXCEPT ![c] = IF worker[groups[key[c]][i]].initialized THEN "use" ELSE "init"]
         /\ worker' = [worker EXCEPT ![groups[key[c]][i]].busy = TRUE]
         /\ held' = [held EXCEPT ![c] = groups[key[c]][i]]
  BY DEF Take
<1> DEFINE w == groups[key[c]][i]
<1>2. key[c] \in Keys /\ pc[c] = "select" /\ held[c] = NoWorker
  BY DEF Take, UsersOK, TypeOK
<1>3. w \in Range(groups[key[c]]) /\ w \in Registered /\ w \in Workers /\ ~worker[w].busy
  BY <1>2, MembersRegistered DEF Available
<1>4. \A d \in Callers : held[d] # w
  BY <1>3, PoolAssumption DEF UsersOK
<1>5. UNCHANGED <<groups, key, failed, stale>>
  BY DEF Take
<1>6. GroupsOK' /\ Registered' = Registered
  BY <1>5, GroupsSame
<1> HIDE DEF w
<1>7. worker' \in [Workers -> Worker] /\ worker'[w].busy /\ \A v \in Workers \ {w} : worker'[v] = worker[v]
  BY <1>1, <1>3 DEF TypeOK, Worker, w
<1>8. held'[c] = w /\ held' \in [Callers -> Workers \cup {NoWorker}] /\ \A d \in Callers \ {c} : held'[d] = held[d]
  BY <1>1, <1>3 DEF TypeOK, w
<1>9. pc'[c] \in {"use", "init"} /\ pc' \in [Callers -> Locations] /\ \A d \in Callers \ {c} : pc'[d] = pc[d]
  BY <1>1 DEF TypeOK, Locations
<1>10. TypeOK'
  <2>1. groups' \in [Keys -> Seq(Workers)] /\ key' \in [Callers -> Keys \cup {NoKey}]
    BY <1>5 DEF TypeOK
  <2>2. failed' \in [Callers -> BOOLEAN] /\ stale' \in [Callers -> SUBSET Workers]
    BY <1>5 DEF TypeOK
  <2>3. \A d \in Callers : held'[d] # NoWorker <=> pc'[d] \in {"init", "use", "discard", "unbusy"}
    BY <1>3, <1>8, <1>9, PoolAssumption DEF TypeOK
  <2> QED
    BY <1>7, <1>8, <1>9, <2>1, <2>2, <2>3 DEF TypeOK
<1>11. UsersOK'
  <2>1. \A d, e \in Callers : held'[d] = held'[e] /\ held'[d] # NoWorker => d = e
    BY SMTT(30), <1>4, <1>8 DEF UsersOK
  <2>2. \A d \in Callers : pc'[d] \in {"init", "use", "discard"} => held'[d] \in Range(groups[key[d]])
    BY <1>3, <1>8, <1>9 DEF UsersOK
  <2>3. \A d \in Callers : held'[d] # NoWorker => worker'[held'[d]].busy
    BY SMTT(30), <1>4, <1>7, <1>8 DEF UsersOK, TypeOK
  <2>4. \A v \in Registered : worker'[v].busy => \E d \in Callers : held'[d] = v
    <3>1. ASSUME NEW v \in Registered, worker'[v].busy PROVE \E d \in Callers : held'[d] = v
      <4>1. CASE v = w
        BY <4>1, <1>8
      <4>2. CASE v # w
        <5>1. PICK d \in Callers : held[d] = v
          BY <3>1, <4>2, <1>7, MembersRegistered DEF UsersOK
        <5>2. d # c
          BY <5>1, <1>2, MembersRegistered, PoolAssumption
        <5> QED
          BY <5>1, <5>2, <1>8
      <4> QED
        BY <4>1, <4>2
    <3> QED
      BY <3>1
  <2>5. \A d \in Callers : pc'[d] = "unbusy" /\ held'[d] \in Registered => worker'[held'[d]].session # "dirty"
    BY SMTT(30), <1>4, <1>7, <1>8, <1>9, MembersRegistered DEF UsersOK
  <2>6. \A d \in Callers : pc'[d] # "idle" => key[d] \in Keys
    BY <1>2, <1>9 DEF UsersOK
  <2> QED
    BY <1>5, <1>6, <2>1, <2>2, <2>3, <2>4, <2>5, <2>6 DEF UsersOK
<1>12. NoStaleAnswer'
  BY <1>3, <1>6, <1>7, MembersRegistered DEF NoStaleAnswer
<1> QED
  BY <1>6, <1>10, <1>11, <1>12

\* A worker is reserved.
LEMMA ReserveKeepsPool ==
  ASSUME PoolInv, NEW c \in Callers, Reserve(c)
  PROVE  PoolInv'
<1> USE DEF PoolInv
<1>1. PICK w \in Unreferenced : /\ groups' = [groups EXCEPT ![key[c]] = Append(@, w)]
                                /\ worker' = [worker EXCEPT ![w] = Reserved]
                                /\ held' = [held EXCEPT ![c] = w]
  BY DEF Reserve
<1>2. key[c] \in Keys /\ pc[c] = "full" /\ held[c] = NoWorker
  BY DEF Reserve, Go, UsersOK, TypeOK
<1>3. w \in Workers /\ w \notin Registered /\ \A d \in Callers : held[d] # w
  BY DEF Unreferenced
<1>4. /\ GroupsOK' /\ Registered' = Registered \cup {w}
      /\ \A l \in Keys : Range(groups'[l]) = IF l = key[c] THEN Range(groups[l]) \cup {w} ELSE Range(groups[l])
  BY <1>1, <1>2, <1>3, GroupsGrow DEF Reserve
<1>5. worker' \in [Workers -> Worker] /\ worker'[w] = Reserved /\ \A v \in Workers \ {w} : worker'[v] = worker[v]
  BY <1>1, <1>3 DEF TypeOK, Worker, Session, Reserved
<1>6. held'[c] = w /\ held' \in [Callers -> Workers \cup {NoWorker}] /\ \A d \in Callers \ {c} : held'[d] = held[d]
  BY <1>1, <1>3 DEF TypeOK
<1>7. pc'[c] = "init" /\ pc' \in [Callers -> Locations] /\ \A d \in Callers \ {c} : pc'[d] = pc[d]
  BY DEF Reserve, Go, TypeOK, Locations
<1>8. UNCHANGED <<key, failed, stale>>
  BY DEF Reserve
<1>9. TypeOK'
  BY <1>3, <1>4, <1>5, <1>6, <1>7, <1>8, PoolAssumption DEF TypeOK, GroupsOK
<1>10. UsersOK'
  <2>1. \A d, e \in Callers : held'[d] = held'[e] /\ held'[d] # NoWorker => d = e
    BY SMTT(30), <1>3, <1>6 DEF UsersOK
  <2>2. \A d \in Callers : pc'[d] # "idle" => key'[d] \in Keys
    BY <1>2, <1>7, <1>8 DEF UsersOK
  <2>3. \A d \in Callers : pc'[d] \in {"init", "use", "discard"} => held'[d] \in Range(groups'[key'[d]])
    BY <1>2, <1>4, <1>6, <1>7, <1>8 DEF UsersOK
  <2>4. \A d \in Callers : held'[d] # NoWorker => worker'[held'[d]].busy
    BY SMTT(30), <1>3, <1>5, <1>6 DEF UsersOK, TypeOK, Reserved
  <2>5. \A v \in Registered' : worker'[v].busy => \E d \in Callers : held'[d] = v
    <3>1. ASSUME NEW v \in Registered', worker'[v].busy PROVE \E d \in Callers : held'[d] = v
      <4>1. CASE v = w
        BY <4>1, <1>6
      <4>2. CASE v # w
        <5>1. v \in Registered /\ v \in Workers
          BY <4>2, <1>4, MembersRegistered
        <5>2. PICK d \in Callers : held[d] = v
          BY <3>1, <4>2, <5>1, <1>5 DEF UsersOK
        <5>3. d # c
          BY <5>1, <5>2, <1>2, PoolAssumption
        <5> QED
          BY <5>2, <5>3, <1>6
      <4> QED
        BY <4>1, <4>2
    <3> QED
      BY <3>1
  <2>6. \A d \in Callers : pc'[d] = "unbusy" /\ held'[d] \in Registered' => worker'[held'[d]].session # "dirty"
    BY SMTT(30), <1>3, <1>4, <1>5, <1>6, <1>7, MembersRegistered DEF UsersOK
  <2> QED
    BY <2>1, <2>2, <2>3, <2>4, <2>5, <2>6 DEF UsersOK
<1>11. NoStaleAnswer'
  BY SMTT(30), <1>4, <1>5, MembersRegistered DEF NoStaleAnswer, Reserved
<1> QED
  BY <1>4, <1>9, <1>10, <1>11

\* Workers that are not busy leave the pool, in a sweep or by an eviction.
LEMMA RemovalKeepsPool ==
  ASSUME PoolInv, NEW c \in Callers, Sweep(c) \/ Evict(c)
  PROVE  PoolInv'
<1> USE DEF PoolInv
<1>1. PICK gone \in SUBSET Workers :
         /\ \A w \in gone : ~worker[w].busy
         /\ groups' = [k \in Keys |-> Without(groups[k], gone)]
         /\ worker' = Dropped(gone)
         /\ stale' \in [Callers -> SUBSET Workers]
  <2>1. CASE Sweep(c)
    <3>1. Swept(c) \in SUBSET Workers /\ \A w \in Swept(c) : ~worker[w].busy
      BY DEF Swept, TypeOK
    <3>2. stale' \in [Callers -> SUBSET Workers]
      BY <2>1 DEF Sweep, Forgotten, TypeOK
    <3>3. groups' = [k \in Keys |-> Without(groups[k], Swept(c))] /\ worker' = Dropped(Swept(c))
      BY <2>1 DEF Sweep
    <3> QED
      BY <3>1, <3>2, <3>3
  <2>2. CASE Evict(c)
    <3>1. PICK w \in Registered : /\ ~worker[w].busy
                                  /\ groups' = [k \in Keys |-> Without(groups[k], {w})]
                                  /\ worker' = Dropped({w})
                                  /\ stale' = Forgotten({w})
      BY <2>2 DEF Evict
    <3>2. {w} \in SUBSET Workers /\ \A v \in {w} : ~worker[v].busy
      BY <3>1, MembersRegistered
    <3>3. stale' \in [Callers -> SUBSET Workers]
      BY <3>1 DEF Forgotten, TypeOK
    <3> QED
      BY <3>1, <3>2, <3>3
  <2> QED
    BY <2>1, <2>2
<1>2. groups' \in [Keys -> Seq(Workers)]
  <2>1. \A k \in Keys : groups[k] \in Seq(Workers)
    BY DEF GroupsOK
  <2>2. \A k \in Keys : Without(groups[k], gone) \in Seq(Workers)
    BY <2>1, WithoutFacts
  <2> QED
    BY <1>1, <2>2
<1>3. /\ GroupsOK' /\ Registered' = Registered \ gone
      /\ \A k \in Keys : Range(groups'[k]) = Range(groups[k]) \ gone
  <2>1. \A k \in Keys : groups'[k] = Without(groups[k], gone)
    BY <1>1
  <2> QED
    BY <1>2, <2>1, GroupsShrink
<1>4. worker' \in [Workers -> Worker] /\ \A w \in Workers \ gone : worker'[w] = worker[w]
  BY <1>1 DEF Dropped, TypeOK, Worker, Reserved, Session
<1>5. \A d \in Callers : held[d] \notin gone
  BY SMTT(30), <1>1, PoolAssumption DEF UsersOK
<1>6. UNCHANGED <<key, held, failed>>
  BY DEF Sweep, Evict
<1>7. pc' = [pc EXCEPT ![c] = "select"] /\ pc[c] \in {"sweep", "full"}
  BY DEF Sweep, Evict, Go
<1>8. TypeOK'
  BY <1>1, <1>2, <1>4, <1>6, <1>7 DEF TypeOK, Locations
<1>9. UsersOK'
  <2>1. \A d \in Callers : /\ pc'[d] # "idle" => pc[d] # "idle"
                           /\ pc'[d] \in {"init", "use", "discard", "unbusy"} => pc'[d] = pc[d]
    BY <1>7 DEF TypeOK
  <2>2. \A d \in Callers : pc'[d] \in {"init", "use", "discard"} => held[d] \in Range(groups'[key[d]])
    BY <2>1, <1>3, <1>5 DEF UsersOK
  <2>3. \A d \in Callers : held[d] # NoWorker => worker'[held[d]].busy
    BY <1>4, <1>5 DEF UsersOK, TypeOK
  <2>4. \A w \in Registered' : worker'[w].busy => \E d \in Callers : held[d] = w
    BY <1>3, <1>4, MembersRegistered DEF UsersOK
  <2>5. \A d \in Callers : pc'[d] = "unbusy" /\ held[d] \in Registered' => worker'[held[d]].session # "dirty"
    BY <2>1, <1>3, <1>4, <1>5, MembersRegistered DEF UsersOK
  <2> QED
    BY <1>6, <2>1, <2>2, <2>3, <2>4, <2>5 DEF UsersOK
<1>10. NoStaleAnswer'
  BY <1>3, <1>4, MembersRegistered DEF NoStaleAnswer
<1> QED
  BY <1>3, <1>8, <1>9, <1>10

\* A worker that failed leaves the pool while its user still has it.
LEMMA DiscardKeepsPool ==
  ASSUME PoolInv, NEW c \in Callers, Discard(c)
  PROVE  PoolInv'
<1> USE DEF PoolInv
<1> DEFINE w == held[c]
<1>1. pc[c] = "discard" /\ key[c] \in Keys /\ w \in Range(groups[key[c]]) /\ w \in Workers /\ w # NoWorker
  BY MembersRegistered, PoolAssumption DEF Discard, Go, UsersOK
<1>2. groups \in [Keys -> Seq(Workers)] /\ groups' = [groups EXCEPT ![key[c]] = Without(groups[key[c]], {w})]
  BY DEF Discard, GroupsOK
<1>3. groups' \in [Keys -> Seq(Workers)]
  BY <1>1, <1>2, WithoutFacts
<1>4. /\ GroupsOK' /\ Registered' = Registered \ {w}
      /\ \A k \in Keys : Range(groups'[k]) = Range(groups[k]) \ {w}
  <2>1. ASSUME NEW k \in Keys, k # key[c] PROVE groups'[k] = groups[k] /\ Range(groups[k]) \cap {w} = {}
    <3>1. Range(groups[k]) \cap Range(groups[key[c]]) = {}
      BY <1>1, <2>1 DEF GroupsOK
    <3> QED
      BY <1>1, <1>2, <2>1, <3>1
  <2>2. groups'[key[c]] = Without(groups[key[c]], {w})
    BY <1>1, <1>2
  <2>3. \A k \in Keys : \/ groups'[k] = Without(groups[k], {w})
                        \/ groups'[k] = groups[k] /\ Range(groups[k]) \cap {w} = {}
    BY <2>1, <2>2
  <2> QED
    BY <1>3, <2>3, GroupsShrink
<1>5. /\ worker' \in [Workers -> Worker]
      /\ \A v \in Workers : worker'[v].busy = worker[v].busy /\ worker'[v].session = worker[v].session
  BY <1>1 DEF Discard, TypeOK, Worker
<1>6. stale' \in [Callers -> SUBSET Workers] /\ UNCHANGED <<key, held, failed>>
  BY DEF Discard, Forgotten, TypeOK
<1>7. pc' = [pc EXCEPT ![c] = "unbusy"]
  BY DEF Discard, Go
<1>8. TypeOK'
  BY <1>1, <1>3, <1>5, <1>6, <1>7 DEF TypeOK, Locations
<1>9. \A d \in Callers \ {c} : held[d] # w
  BY <1>1 DEF UsersOK
<1>10. UsersOK'
  <2>1. \A d \in Callers : pc'[d] = IF d = c THEN "unbusy" ELSE pc[d]
    BY <1>7 DEF TypeOK
  <2>2. \A d \in Callers : pc'[d] # "idle" => key[d] \in Keys
    BY <2>1, <1>1 DEF UsersOK
  <2>3. \A d \in Callers : pc'[d] \in {"init", "use", "discard"} => held[d] \in Range(groups'[key[d]])
    BY <2>1, <1>4, <1>9 DEF UsersOK
  <2>4. \A d \in Callers : held[d] # NoWorker => worker'[held[d]].busy
    BY <1>5 DEF UsersOK, TypeOK
  <2>5. \A v \in Registered' : worker'[v].busy => \E d \in Callers : held[d] = v
    BY <1>4, <1>5, MembersRegistered DEF UsersOK
  <2>6. \A d \in Callers : pc'[d] = "unbusy" /\ held[d] \in Registered' => worker'[held[d]].session # "dirty"
    BY SMTT(30), <2>1, <1>4, <1>5, MembersRegistered DEF UsersOK
  <2> QED
    BY <1>6, <2>2, <2>3, <2>4, <2>5, <2>6 DEF UsersOK
<1>11. NoStaleAnswer'
  BY <1>4, <1>5, MembersRegistered DEF NoStaleAnswer
<1> QED
  BY <1>4, <1>8, <1>10, <1>11

\* A worker is given back, or dropped when it has left the pool.
LEMMA UnbusyKeepsPool ==
  ASSUME PoolInv, NEW c \in Callers, Unbusy(c)
  PROVE  PoolInv'
<1> USE DEF PoolInv
<1> DEFINE w == held[c]
<1>1. pc[c] = "unbusy" /\ w \in Workers /\ w # NoWorker
  BY DEF Unbusy, Go, TypeOK
<1>2. UNCHANGED <<groups, stale>>
  BY DEF Unbusy
<1>3. GroupsOK' /\ Registered' = Registered
  BY <1>2, GroupsSame
<1>4. /\ worker' \in [Workers -> Worker]
      /\ \A v \in Workers \ {w} : worker'[v] = worker[v]
      /\ w \in Registered => ~worker'[w].busy /\ worker'[w].session = worker[w].session
  <2>1. CASE w \in Registered
    BY <1>1, <2>1 DEF Unbusy, TypeOK, Worker
  <2>2. CASE w \notin Registered
    BY <1>1, <2>2 DEF Unbusy, Dropped, TypeOK, Worker, Reserved, Session
  <2> QED
    BY <2>1, <2>2
<1>5. /\ \A d \in Callers : held'[d] = IF d = c THEN NoWorker ELSE held[d]
      /\ held' \in [Callers -> Workers \cup {NoWorker}]
  BY DEF Unbusy, TypeOK
<1>6. /\ \A d \in Callers : pc'[d] = IF d = c THEN "idle" ELSE pc[d]
      /\ pc' \in [Callers -> Locations]
  BY DEF Unbusy, Go, TypeOK, Locations
<1>7. /\ \A d \in Callers \ {c} : key'[d] = key[d]
      /\ key' \in [Callers -> Keys \cup {NoKey}] /\ failed' \in [Callers -> BOOLEAN]
  BY DEF Unbusy, TypeOK
<1>8. TypeOK'
  BY <1>2, <1>4, <1>5, <1>6, <1>7 DEF TypeOK
<1>9. \A d \in Callers \ {c} : held[d] # w
  BY <1>1 DEF UsersOK
<1>10. UsersOK'
  <2>1. \A d, e \in Callers : held'[d] = held'[e] /\ held'[d] # NoWorker => d = e
    BY SMTT(30), <1>5 DEF UsersOK
  <2>2. \A d \in Callers : pc'[d] # "idle" => key'[d] \in Keys
    BY <1>6, <1>7 DEF UsersOK
  <2>3. \A d \in Callers : pc'[d] \in {"init", "use", "discard"} => held'[d] \in Range(groups[key'[d]])
    BY <1>5, <1>6, <1>7 DEF UsersOK
  <2>4. \A d \in Callers : held'[d] # NoWorker => worker'[held'[d]].busy
    BY SMTT(30), <1>4, <1>5, <1>9 DEF UsersOK, TypeOK
  <2>5. \A v \in Registered : worker'[v].busy => \E d \in Callers : held'[d] = v
    <3>1. ASSUME NEW v \in Registered, worker'[v].busy PROVE \E d \in Callers : held'[d] = v
      <4>1. v # w /\ worker[v].busy
        BY <3>1, <1>4, MembersRegistered
      <4>2. PICK d \in Callers : held[d] = v
        BY <4>1 DEF UsersOK
      <4> QED
        BY <4>1, <4>2, <1>5
    <3> QED
      BY <3>1
  <2>6. \A d \in Callers : pc'[d] = "unbusy" /\ held'[d] \in Registered => worker'[held'[d]].session # "dirty"
    BY SMTT(30), <1>4, <1>5, <1>6, <1>9, MembersRegistered DEF UsersOK
  <2> QED
    BY <1>2, <1>3, <2>1, <2>2, <2>3, <2>4, <2>5, <2>6 DEF UsersOK
<1>11. NoStaleAnswer'
  <2>1. SUFFICES ASSUME NEW v \in Registered, ~worker'[v].busy PROVE worker'[v].session # "dirty"
    BY <1>3 DEF NoStaleAnswer
  <2>2. CASE v = w
    BY <2>2, <1>1, <1>4 DEF UsersOK
  <2>3. CASE v # w
    BY <2>1, <2>3, <1>4, MembersRegistered DEF NoStaleAnswer
  <2> QED
    BY <2>2, <2>3
<1> QED
  BY <1>3, <1>8, <1>10, <1>11

-----------------------------------------------------------------------------
(* The theorems.                                                            *)

\* What the proofs of the pool's properties rest on.
THEOREM PoolInvariant == Spec => []PoolInv
<1>1. Init => PoolInv
  <2> SUFFICES ASSUME Init PROVE PoolInv
    OBVIOUS
  <2>1. \A k \in Keys : groups[k] = <<>> /\ Range(groups[k]) = {}
    BY SMTT(30) DEF Init, Range
  <2>2. Registered = {}
    BY <2>1 DEF Registered
  <2>3. GroupsOK
    <3>1. IsFiniteSet(Registered) /\ Count = 0
      BY <2>2, FS_EmptySet DEF Count
    <3>2. groups \in [Keys -> Seq(Workers)]
      BY SMTT(30) DEF Init
    <3>3. \A k \in Keys : Len(groups[k]) <= WorkerLimit[k] /\ IsInjective(groups[k])
      BY SMTT(30), <2>1, PoolAssumption DEF IsInjective
    <3> QED
      BY SMTT(30), <2>1, <3>1, <3>2, <3>3, PoolAssumption DEF GroupsOK
  <2>4. TypeOK
    BY <2>3 DEF GroupsOK, Init, TypeOK, Worker, Reserved, Session, Locations
  <2>5. UsersOK /\ NoStaleAnswer
    BY <2>2 DEF Init, UsersOK, NoStaleAnswer
  <2> QED
    BY <2>3, <2>4, <2>5 DEF PoolInv
<1>2. PoolInv /\ [Next]_vars => PoolInv'
  <2> SUFFICES ASSUME PoolInv, [Next]_vars PROVE PoolInv'
    OBVIOUS
  <2>1. ASSUME NEW c \in Callers, Looks(c) PROVE PoolInv'
    BY <2>1, LooksKeepPool
  <2>2. ASSUME NEW w, Touches(w) PROVE PoolInv'
    BY <2>2, TouchesKeepPool
  <2>3. ASSUME NEW c \in Callers, Take(c) PROVE PoolInv'
    BY <2>3, TakeKeepsPool
  <2>4. ASSUME NEW c \in Callers, Reserve(c) PROVE PoolInv'
    BY <2>4, ReserveKeepsPool
  <2>5. ASSUME NEW c \in Callers, Sweep(c) \/ Evict(c) PROVE PoolInv'
    BY <2>5, RemovalKeepsPool
  <2>6. ASSUME NEW c \in Callers, Discard(c) PROVE PoolInv'
    BY SMTT(30), <2>6, DiscardKeepsPool
  <2>7. ASSUME NEW c \in Callers, Unbusy(c) PROVE PoolInv'
    BY SMTT(30), <2>7, UnbusyKeepsPool
  <2>8. CASE UNCHANGED vars
    BY <2>8, GroupsSame DEF vars, PoolInv, TypeOK, UsersOK, NoStaleAnswer
  <2>9. CASE \E c \in Callers : \/ \E k \in Keys : Begin(c, k)
                                \/ Step(c)
                                \/ Send(c) \/ Panics(c) \/ LeaseLost(c)
    BY <2>1, <2>2, <2>3, <2>4, <2>5, <2>6, <2>7, <2>9 DEF Step, Looks, Touches
  <2>10. CASE \E w \in Registered : Exits(w) \/ SnapshotSees(w)
    BY <2>2, <2>10 DEF Touches
  <2> QED
    BY <2>8, <2>9, <2>10 DEF Next
<1> QED
  BY <1>1, <1>2, PTL DEF Spec

\* A worker in use has one user and stays in the group of its key, whatever purges,
\* sweeps and evictions of other callers run meanwhile.
THEOREM OneUserAlways == Spec => []OneUser
<1>1. PoolInv => OneUser
  BY DEF PoolInv, UsersOK, OneUser
<1> QED
  BY <1>1, PoolInvariant, PTL

\* No exit from a checkout leaves a registered worker busy without a user.
THEOREM NoBusyLeakAlways == Spec => []NoBusyLeak
<1>1. PoolInv => NoBusyLeak
  BY MembersRegistered, PoolAssumption DEF PoolInv, UsersOK, NoBusyLeak
<1> QED
  BY <1>1, PoolInvariant, PTL

\* The pool and each group stay within their limits and no worker is registered twice.
THEOREM PoolBoundedAlways == Spec => []PoolBounded
<1>1. PoolInv => PoolBounded
  <2> SUFFICES ASSUME PoolInv PROVE PoolBounded
    OBVIOUS
  <2>1. ASSUME NEW k \in Keys, NEW l \in Keys,
               NEW i \in 1 .. Len(groups[k]), NEW j \in 1 .. Len(groups[l]), groups[k][i] = groups[l][j]
        PROVE  k = l /\ i = j
    <3>1. groups[k][i] \in Range(groups[k]) /\ groups[l][j] \in Range(groups[l])
      BY MembersRegistered DEF PoolInv
    <3>2. k = l
      BY <2>1, <3>1 DEF PoolInv, GroupsOK
    <3>3. groups[k] \in Seq(Workers) /\ IsInjective(groups[k])
      BY DEF PoolInv, GroupsOK
    <3> QED
      BY SMTT(30), <2>1, <3>2, <3>3 DEF IsInjective
  <2> QED
    BY <2>1 DEF PoolInv, GroupsOK, PoolBounded
<1> QED
  BY <1>1, PoolInvariant, PTL

\* A worker that can be checked out has no answer of an earlier call outstanding.
THEOREM NoStaleAnswerAlways == Spec => []NoStaleAnswer
<1>1. PoolInv => NoStaleAnswer
  BY DEF PoolInv
<1> QED
  BY <1>1, PoolInvariant, PTL
=============================================================================
