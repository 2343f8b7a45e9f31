----------------------- MODULE BoundedCapacityProofs -----------------------
(***************************************************************************)
(* Proofs about BoundedCapacity, for every set of tasks, every limit and   *)
(* every queue size the constructor accepts.                               *)
(***************************************************************************)
EXTENDS BoundedCapacity, FiniteSetTheorems, SequenceTheorems, TLAPS

\* c maps the positions of K, in order, onto the positions of s whose element
\* lies in S.
OrderlyMap(K, s, S, c) ==
    /\ c \in [1 .. Len(K) -> 1 .. Len(s)]
    /\ \A k \in 1 .. Len(K) : K[k] = s[c[k]] /\ s[c[k]] \in S
    /\ \A k, l \in 1 .. Len(K) : k < l => c[k] < c[l]
    /\ \A j \in 1 .. Len(s) : s[j] \in S => \E k \in 1 .. Len(K) : c[k] = j

\* Keep(s, S) lists the elements of s that lie in S in the order of s: there
\* is an increasing map from its positions onto the positions of s kept.
LEMMA KeepProperties ==
    ASSUME NEW T, NEW s \in Seq(T), NEW S
    PROVE  /\ Keep(s, S) \in Seq(T)
           /\ Len(Keep(s, S)) <= Len(s)
           /\ \E c : OrderlyMap(Keep(s, S), s, S, c)
<1> DEFINE I == {i \in 1 .. Len(s) : s[i] \in S}
           n == Cardinality(I)
           below(i) == {j \in I : j <= i}
           c == [k \in 1 .. n |-> CHOOSE i \in I : Rank(I, i) = k]
           f == [i \in I |-> Rank(I, i)]
<1>1. Len(s) \in Nat /\ s \in [1 .. Len(s) -> T]
  BY LenProperties
<1>2. /\ IsFiniteSet(1 .. Len(s)) /\ Cardinality(1 .. Len(s)) = Len(s)
  BY SMTT(30), <1>1, FS_Interval
<1>3. IsFiniteSet(I) /\ n \in Nat /\ n <= Len(s)
  <2>1. I \in SUBSET (1 .. Len(s))
    OBVIOUS
  <2>2. IsFiniteSet(I) /\ n <= Len(s)
    BY <1>2, <2>1, FS_Subset
  <2>3. n \in Nat
    BY <2>2, FS_CardinalityType
  <2> QED BY <2>2, <2>3
<1>a. \A i \in I : i \in 1 .. Len(s) /\ i \in Nat
  BY <1>1
<1>4. \A i \in I : IsFiniteSet(below(i)) /\ Rank(I, i) = Cardinality(below(i))
                   /\ Rank(I, i) \in 1 .. n /\ Rank(I, i) \in Nat
  <2> SUFFICES ASSUME NEW i \in I
               PROVE  IsFiniteSet(below(i)) /\ Rank(I, i) = Cardinality(below(i))
                      /\ Rank(I, i) \in 1 .. n /\ Rank(I, i) \in Nat
    BY Zenon
  <2>1. below(i) \in SUBSET I
    OBVIOUS
  <2>2. IsFiniteSet(below(i)) /\ Cardinality(below(i)) <= n
    BY <1>3, <2>1, FS_Subset
  <2>3. Cardinality(below(i)) \in Nat
    BY <2>2, FS_CardinalityType
  <2>4. i \in below(i)
    BY <1>1
  <2>5. Cardinality(below(i)) # 0
    BY Zenon, <2>2, <2>4, FS_EmptySet
  <2>6. Rank(I, i) = Cardinality(below(i))
    BY DEF Rank
  <2> QED BY <1>3, <2>2, <2>3, <2>5, <2>6
<1>5. \A i, j \in I : i < j => Rank(I, i) < Rank(I, j)
  <2> SUFFICES ASSUME NEW i \in I, NEW j \in I, i < j
               PROVE  Rank(I, i) < Rank(I, j)
    OBVIOUS
  <2>1. below(i) \in SUBSET below(j)
    BY <1>1
  <2>2. j \in below(j) /\ j \notin below(i)
    BY <1>1
  <2>3. Cardinality(below(i)) <= Cardinality(below(j))
    BY Zenon, <1>4, <2>1, FS_Subset
  <2>4. Cardinality(below(i)) # Cardinality(below(j))
    BY Zenon, <1>4, <2>1, <2>2, FS_Subset
  <2>5. Rank(I, i) \in Nat /\ Rank(I, j) \in Nat
    BY Zenon, <1>4
  <2>6. Rank(I, i) <= Rank(I, j) /\ Rank(I, i) # Rank(I, j)
    BY Zenon, <1>4, <2>3, <2>4
  <2> HIDE DEF I
  <2> QED BY <2>5, <2>6
<1>6. f \in Surjection(I, 1 .. n)
  <2>1. f \in [I -> 1 .. n]
    BY Zenon, <1>4
  <2>2. \A i, j \in I : f[i] = f[j] => i = j
    <3> SUFFICES ASSUME NEW i \in I, NEW j \in I, f[i] = f[j]
                 PROVE  i = j
      BY Zenon
    <3>1. Rank(I, i) = Rank(I, j)
      OBVIOUS
    <3> HIDE DEF f, I, n
    <3>2. Rank(I, i) \in Nat /\ i \in Nat /\ j \in Nat
      BY Zenon, <1>4, <1>a
    <3>3. ~(i < j) /\ ~(j < i)
      BY <1>5, <3>1, <3>2
    <3> QED BY <3>2, <3>3
  <2>3. f \in Injection(I, 1 .. n)
    BY Zenon, <2>1, <2>2 DEF Injection, IsInjective
  <2>4. IsFiniteSet(1 .. n) /\ Cardinality(1 .. n) = n
    BY <1>3, FS_Interval
  <2> QED BY <2>3, <2>4, FS_Injection
<1>7. \A k \in 1 .. n : c[k] \in I /\ Rank(I, c[k]) = k
  <2> SUFFICES ASSUME NEW k \in 1 .. n
               PROVE  c[k] \in I /\ Rank(I, c[k]) = k
    BY Zenon
  <2>1. PICK i \in I : f[i] = k
    BY Zenon, <1>6 DEF Surjection
  <2>2. \E x \in I : Rank(I, x) = k
    BY <2>1
  <2>3. c[k] = CHOOSE x \in I : Rank(I, x) = k
    OBVIOUS
  <2> QED BY Zenon, <2>2, <2>3
<1>8. \A k, l \in 1 .. n : k < l => c[k] < c[l]
  <2> SUFFICES ASSUME NEW k \in 1 .. n, NEW l \in 1 .. n, k < l
               PROVE  c[k] < c[l]
    BY Zenon
  <2> DEFINE x == c[k]
             y == c[l]
  <2>1. x \in I /\ y \in I /\ Rank(I, x) = k /\ Rank(I, y) = l
    BY Zenon, <1>7
  <2> HIDE DEF x, y, I, n
  <2>2. x # y /\ ~(y < x)
    <3>1. k \in Nat /\ l \in Nat
      BY <1>3
    <3> QED BY <1>5, <2>1, <3>1
  <2>3. x < y
    BY <1>a, <2>1, <2>2
  <2> QED BY <2>3 DEF x, y
<1>9. \A j \in I : \E k \in 1 .. n : c[k] = j
  <2> SUFFICES ASSUME NEW j \in I
               PROVE  \E k \in 1 .. n : c[k] = j
    BY Zenon
  <2> DEFINE k == Rank(I, j)
             x == c[k]
  <2>1. k \in 1 .. n /\ x \in I /\ Rank(I, x) = k
    BY Zenon, <1>4, <1>7
  <2> HIDE DEF x, I, n
  <2>2. ~(x < j) /\ ~(j < x)
    <3>1. Rank(I, j) \in Nat /\ Rank(I, x) = Rank(I, j)
      BY <1>3, <2>1
    <3> QED BY <1>5, <2>1, <3>1
  <2>3. x = j
    BY <1>a, <2>1, <2>2
  <2> QED BY <2>1, <2>3 DEF x
<1>10. Keep(s, S) = [k \in 1 .. n |-> s[c[k]]]
  BY DEF Keep
<1> HIDE DEF n, c, f
<1>11. Keep(s, S) \in Seq(T) /\ Len(Keep(s, S)) = n
  <2>1. \A k \in 1 .. n : s[c[k]] \in T
    BY Zenon, <1>1, <1>7
  <2> QED BY <1>3, <1>10, <2>1
<1>12. c \in [1 .. n -> 1 .. Len(s)]
  <2>1. \A k \in 1 .. n : (CHOOSE i \in I : Rank(I, i) = k) \in 1 .. Len(s)
    BY Zenon, <1>7, <1>a DEF c
  <2> QED BY <2>1, Zenon DEF c
<1>13. OrderlyMap(Keep(s, S), s, S, c)
  BY Zenon, <1>7, <1>8, <1>9, <1>10, <1>11, <1>12 DEF OrderlyMap
<1> QED
  BY <1>3, <1>11, <1>13

-----------------------------------------------------------------------------
(* The inductive invariant.                                                *)

\* The tasks that own a slot form a finite set.
LEMMA HoldersFinite ==
    /\ IsFiniteSet(Holders)
    /\ Cardinality(Holders) \in Nat
<1>1. Holders \in SUBSET Task
  BY DEF Holders
<1>2. IsFiniteSet(Holders)
  BY <1>1, FS_Subset, CapacityAssumption
<1> QED BY <1>2, FS_CardinalityType

\* The pool as the constructor leaves it satisfies the invariant.
LEMMA InitCapacity == Init => CapacityInv
<1> SUFFICES ASSUME Init PROVE CapacityInv
  OBVIOUS
<1>1. Holders = {} /\ Pending = {}
  BY DEF Init, Holders, Pending
<1>2. Cardinality(Holders) = 0
  BY <1>1, FS_EmptySet
<1>3. TypeOK
  BY DEF Init, TypeOK, FutureStates, Interrupts, Stages
<1>4. SlotsAccounted /\ CapacityRespected
  BY <1>2, CapacityAssumption DEF Init, SlotsAccounted, CapacityRespected
<1>5. NoIdleSlot /\ QueueBounded /\ NoLostWaiter
  BY <1>1, CapacityAssumption DEF Init, NoIdleSlot, QueueBounded, NoLostWaiter
<1>6. WaitersConsistent
  BY DEF Init, WaitersConsistent
<1> QED BY <1>3, <1>4, <1>5, <1>6 DEF CapacityInv

\* What _discard_cancelled_waiters leaves: the pending tasks, each once.
LEMMA UndoneProperties ==
    ASSUME CapacityInv
    PROVE  /\ Undone \in Seq(Task)
           /\ Len(Undone) \in Nat
           /\ Len(Undone) <= Len(waiters)
           /\ \A k \in 1 .. Len(Undone) : Undone[k] \in Pending
           /\ \A k, l \in 1 .. Len(Undone) : Undone[k] = Undone[l] => k = l
           /\ \A p \in Pending : \E k \in 1 .. Len(Undone) : Undone[k] = p
<1>1. waiters \in Seq(Task) /\ Len(waiters) \in Nat
  BY LenProperties DEF CapacityInv, TypeOK
<1>2. /\ Undone \in Seq(Task)
      /\ Len(Undone) <= Len(waiters)
  BY <1>1, KeepProperties DEF Undone
<1>3. PICK c \in [1 .. Len(Undone) -> 1 .. Len(waiters)] :
        /\ \A k \in 1 .. Len(Undone) : Undone[k] = waiters[c[k]] /\ waiters[c[k]] \in Pending
        /\ \A k, l \in 1 .. Len(Undone) : k < l => c[k] < c[l]
        /\ \A j \in 1 .. Len(waiters) :
              waiters[j] \in Pending => \E k \in 1 .. Len(Undone) : c[k] = j
  <2>1. PICK c : OrderlyMap(Undone, waiters, Pending, c)
    BY <1>1, KeepProperties DEF Undone
  <2> QED BY <2>1 DEF OrderlyMap
<1>4. Len(Undone) \in Nat
  BY <1>2, LenProperties
<1>5. \A k, l \in 1 .. Len(Undone) : Undone[k] = Undone[l] => k = l
  <2> SUFFICES ASSUME NEW k \in 1 .. Len(Undone), NEW l \in 1 .. Len(Undone),
                      Undone[k] = Undone[l]
               PROVE  k = l
    OBVIOUS
  <2>1. waiters[c[k]] = waiters[c[l]] /\ c[k] \in 1 .. Len(waiters) /\ c[l] \in 1 .. Len(waiters)
    BY <1>3
  <2>2. c[k] = c[l]
    BY <2>1 DEF CapacityInv, WaitersConsistent
  <2>3. ~(k < l) /\ ~(l < k)
    BY <1>1, <1>3, <2>1, <2>2
  <2> QED BY <1>4, <2>3
<1>6. \A p \in Pending : \E k \in 1 .. Len(Undone) : Undone[k] = p
  <2> SUFFICES ASSUME NEW p \in Pending
               PROVE  \E k \in 1 .. Len(Undone) : Undone[k] = p
    OBVIOUS
  <2>1. PICK j \in 1 .. Len(waiters) : waiters[j] = p
    BY DEF CapacityInv, NoLostWaiter
  <2>2. PICK k \in 1 .. Len(Undone) : c[k] = j
    BY <1>3, <2>1
  <2> QED BY <1>3, <2>1, <2>2
<1> QED BY <1>2, <1>3, <1>4, <1>5, <1>6

\* _release, called for a task p that owns a slot: the invariant survives,
\* whether the slot becomes free or goes to the first live waiter.
LEMMA ReleaseToInv ==
    ASSUME CapacityInv, NEW p \in Holders,
           ReleaseTo([future EXCEPT ![p] = "none"]),
           stage' \in [Task -> Stages], stage'[p] \notin {"holding", "waiting"},
           \A q \in Task \ {p} : stage'[q] = stage[q],
           interrupt' \in [Task -> Interrupts], interrupt'[p] = "none",
           \A q \in Task \ {p} : interrupt'[q] = interrupt[q]
    PROVE  CapacityInv'
<1> DEFINE fut == [future EXCEPT ![p] = "none"]
           live == {i \in 1 .. Len(waiters) : fut[waiters[i]] = "pending"}
<1>1. /\ waiters \in Seq(Task) /\ Len(waiters) \in Nat
      /\ \A i \in 1 .. Len(waiters) : waiters[i] \in Task
  BY LenProperties, ElementOfSeq DEF CapacityInv, TypeOK
<1>2. p \in Task /\ future \in [Task -> FutureStates] /\ active \in Nat
  BY DEF CapacityInv, TypeOK, Holders
<1>3. \A i \in 1 .. Len(waiters) : waiters[i] # p
  BY <1>1, <1>2 DEF CapacityInv, WaitersConsistent, Holders
<1>4. live = {i \in 1 .. Len(waiters) : waiters[i] \in Pending}
  BY <1>1, <1>2, <1>3 DEF Pending
<1>5. /\ IsFiniteSet(Holders) /\ active = Cardinality(Holders)
      /\ Cardinality(Holders \ {p}) = active - 1 /\ IsFiniteSet(Holders \ {p})
      /\ active \in Nat \ {0} /\ active <= Limit
  <2>1. IsFiniteSet(Holders) /\ active = Cardinality(Holders) /\ active <= Limit
    BY HoldersFinite DEF CapacityInv, SlotsAccounted, CapacityRespected
  <2>2. Holders # {}
    OBVIOUS
  <2>3. Cardinality(Holders \ {p}) = Cardinality(Holders) - 1 /\ IsFiniteSet(Holders \ {p})
    BY <2>1, FS_RemoveElement
  <2>4. active # 0
    BY <2>1, <2>2, FS_EmptySet
  <2> QED BY <1>2, <2>1, <2>3, <2>4
<1>6. CASE live = {}
  <2>1. active' = active - 1 /\ waiters' = <<>> /\ future' = fut
    BY <1>6 DEF ReleaseTo
  <2>2. Pending = {}
    BY <1>4, <1>6 DEF CapacityInv, NoLostWaiter
  <2>3. Holders' = Holders \ {p} /\ Pending' = {}
    BY <1>2, <2>1, <2>2 DEF Holders, Pending
  <2>4. TypeOK'
    BY <1>2, <1>5, <2>1 DEF TypeOK, FutureStates
  <2>5. SlotsAccounted' /\ CapacityRespected'
    BY <1>5, <2>1, <2>3, CapacityAssumption DEF SlotsAccounted, CapacityRespected
  <2>6. NoIdleSlot' /\ QueueBounded' /\ NoLostWaiter'
    BY <2>1, <2>3, CapacityAssumption DEF NoIdleSlot, QueueBounded, NoLostWaiter
  <2>7. WaitersConsistent'
    BY <1>2, <2>1 DEF WaitersConsistent, CapacityInv
  <2> QED BY <2>4, <2>5, <2>6, <2>7 DEF CapacityInv
<1>7. CASE live # {}
  <2>1. PICK i \in live :
          /\ \A j \in live : i <= j
          /\ active' = active
          /\ waiters' = SubSeq(waiters, i + 1, Len(waiters))
          /\ future' = [fut EXCEPT ![waiters[i]] = "granted"]
    BY <1>7 DEF ReleaseTo
  <2> DEFINE q == waiters[i]
  <2>2. i \in 1 .. Len(waiters) /\ q \in Task /\ q \in Pending /\ q # p
    BY <1>1, <1>3, <1>4, <2>1
  <2>3. /\ waiters' \in Seq(Task)
        /\ Len(waiters') = Len(waiters) - i
        /\ \A k \in 1 .. Len(waiters') : waiters'[k] = waiters[k + i]
    <3>1. \A k \in i + 1 .. Len(waiters) : waiters[k] \in Task
      BY <1>1, <2>2
    <3>2. /\ waiters' \in Seq(Task)
          /\ Len(waiters') = IF i + 1 <= Len(waiters) THEN Len(waiters) - (i + 1) + 1 ELSE 0
          /\ \A k \in 1 .. Len(waiters) - (i + 1) + 1 : waiters'[k] = waiters[(i + 1) + k - 1]
      BY <1>1, <2>1, <2>2, <3>1, SubSeqProperties
    <3>3. Len(waiters') = Len(waiters) - i
      BY <1>1, <2>2, <3>2
    <3>4. \A k \in 1 .. Len(waiters') : waiters'[k] = waiters[k + i]
      <4> SUFFICES ASSUME NEW k \in 1 .. Len(waiters')
                   PROVE  waiters'[k] = waiters[k + i]
        OBVIOUS
      <4>1. (i + 1) + k - 1 = k + i /\ k \in 1 .. Len(waiters) - (i + 1) + 1
        BY <1>1, <2>2, <3>3
      <4> QED BY <3>2, <4>1
    <3> QED BY <3>2, <3>3, <3>4
  <2>4. q \notin Holders
    BY <2>2 DEF Holders, Pending, CapacityInv, WaitersConsistent
  <2>5. Holders' = (Holders \ {p}) \cup {q} /\ Pending' = Pending \ {q}
    BY <1>2, <2>1, <2>2, <2>4 DEF Holders, Pending, CapacityInv, WaitersConsistent
  <2>6. Cardinality(Holders') = active /\ IsFiniteSet(Holders')
    <3>1. q \notin Holders \ {p} /\ IsFiniteSet(Holders \ {p})
      BY <1>5, <2>4
    <3>2. /\ IsFiniteSet((Holders \ {p}) \cup {q})
          /\ Cardinality((Holders \ {p}) \cup {q}) = Cardinality(Holders \ {p}) + 1
      BY <3>1, FS_AddElement, Zenon
    <3>3. Cardinality(Holders') = Cardinality(Holders \ {p}) + 1 /\ IsFiniteSet(Holders')
      BY <2>5, <3>2
    <3> QED BY <1>5, <3>3
  <2>7. TypeOK'
    BY Zenon, <1>2, <2>1, <2>2, <2>3 DEF TypeOK, FutureStates
  <2>8. SlotsAccounted' /\ CapacityRespected'
    BY <1>5, <2>1, <2>6 DEF SlotsAccounted, CapacityRespected
  <2>9. NoIdleSlot'
    BY <2>1, <2>2, <2>5 DEF NoIdleSlot, CapacityInv
  <2>10. QueueBounded'
    BY <1>1, <2>2, <2>3, CapacityAssumption DEF QueueBounded, CapacityInv
  <2>11. NoLostWaiter'
    <3> SUFFICES ASSUME NEW r \in Pending, r # q
                 PROVE  \E k \in 1 .. Len(waiters') : waiters'[k] = r
      BY <2>5 DEF NoLostWaiter
    <3>1. PICK j \in 1 .. Len(waiters) : waiters[j] = r
      BY DEF CapacityInv, NoLostWaiter
    <3>2. j \in live /\ j # i
      BY <1>4, <3>1
    <3>3. i < j
      BY <1>1, <2>1, <2>2, <3>2
    <3>4. j - i \in 1 .. Len(waiters') /\ (j - i) + i = j
      BY <1>1, <2>2, <2>3, <3>3
    <3> QED BY <2>3, <3>1, <3>4
  <2>12. WaitersConsistent'
    <3>1. \A k \in 1 .. Len(waiters') :
             /\ k + i \in 1 .. Len(waiters) /\ k + i # i
             /\ waiters'[k] = waiters[k + i]
      BY <1>1, <2>2, <2>3
    <3>2. \A k \in 1 .. Len(waiters') : waiters'[k] # q /\ waiters'[k] # p /\ waiters'[k] \in Task
      BY <1>1, <1>3, <2>2, <3>1 DEF CapacityInv, WaitersConsistent
    <3>3. \A k \in 1 .. Len(waiters') : future'[waiters'[k]] \in {"pending", "cancelled"}
      <4> SUFFICES ASSUME NEW k \in 1 .. Len(waiters')
                   PROVE  future'[waiters'[k]] \in {"pending", "cancelled"}
        OBVIOUS
      <4>1. future[waiters[k + i]] \in {"pending", "cancelled"}
        BY SMTT(30), <3>1 DEF CapacityInv, WaitersConsistent
      <4> QED BY Zenon, <1>2, <2>1, <2>2, <3>1, <3>2, <4>1
    <3>4. \A k, l \in 1 .. Len(waiters') : waiters'[k] = waiters'[l] => k = l
      <4> SUFFICES ASSUME NEW k \in 1 .. Len(waiters'), NEW l \in 1 .. Len(waiters'),
                          waiters'[k] = waiters'[l]
                   PROVE  k = l
        OBVIOUS
      <4>1. k + i = l + i
        BY <3>1 DEF CapacityInv, WaitersConsistent
      <4> QED BY <1>1, <2>2, <2>3, <4>1
    <3>5. \A r \in Task :
             /\ stage'[r] = "waiting" <=> future'[r] # "none"
             /\ future'[r] = "pending" => interrupt'[r] = "none"
             /\ future'[r] = "cancelled" => interrupt'[r] # "none"
             /\ interrupt'[r] # "none" => stage'[r] = "waiting"
      BY <1>2, <2>1, <2>2 DEF CapacityInv, WaitersConsistent, Pending
    <3> QED BY <3>3, <3>4, <3>5 DEF WaitersConsistent
  <2> QED BY <2>7, <2>8, <2>9, <2>10, <2>11, <2>12 DEF CapacityInv
<1> QED BY <1>6, <1>7

\* Every step of the pool preserves the invariant.
LEMMA NextCapacity == CapacityInv /\ [Next]_vars => CapacityInv'
<1> SUFFICES ASSUME CapacityInv, [Next]_vars
             PROVE  CapacityInv'
  OBVIOUS
<1>t. /\ waiters \in Seq(Task) /\ Len(waiters) \in Nat /\ active \in Nat
      /\ \A i \in 1 .. Len(waiters) : waiters[i] \in Task
      /\ future \in [Task -> FutureStates] /\ interrupt \in [Task -> Interrupts]
      /\ stage \in [Task -> Stages]
  BY LenProperties, ElementOfSeq DEF CapacityInv, TypeOK
<1>h. IsFiniteSet(Holders) /\ active = Cardinality(Holders) /\ active <= Limit
  BY HoldersFinite DEF CapacityInv, SlotsAccounted, CapacityRespected
<1>c. /\ \A p \in Task :
           /\ stage[p] = "waiting" <=> future[p] # "none"
           /\ future[p] = "pending" => interrupt[p] = "none"
           /\ future[p] = "cancelled" => interrupt[p] # "none"
           /\ interrupt[p] # "none" => stage[p] = "waiting"
      /\ \A i \in 1 .. Len(waiters) : future[waiters[i]] \in {"pending", "cancelled"}
      /\ \A i, j \in 1 .. Len(waiters) : waiters[i] = waiters[j] => i = j
  BY DEF CapacityInv, WaitersConsistent
<1>u. /\ Undone \in Seq(Task)
      /\ Len(Undone) \in Nat
      /\ Len(Undone) <= Len(waiters)
      /\ \A k \in 1 .. Len(Undone) : Undone[k] \in Pending
      /\ \A k, l \in 1 .. Len(Undone) : Undone[k] = Undone[l] => k = l
      /\ \A p \in Pending : \E k \in 1 .. Len(Undone) : Undone[k] = p
  BY UndoneProperties
<1>q. Len(waiters) <= QueueSize /\ QueueSize \in Nat /\ Limit \in Nat \ {0}
  BY CapacityAssumption DEF CapacityInv, QueueBounded
<1>1. ASSUME NEW p \in Task, Reserve(p)
      PROVE  CapacityInv'
  <2>1. Pending = {} /\ future[p] = "none"
    <3>1. Pending = {}
      BY <1>1, <1>u DEF Reserve
    <3>2. future[p] = "none"
      BY <1>1, <1>c DEF Reserve
    <3> QED BY <3>1, <3>2
  <2>2. Holders' = Holders \cup {p} /\ Pending' = {} /\ p \notin Holders
    BY <1>1, <1>t, <2>1 DEF Reserve, Holders, Pending
  <2>3. Cardinality(Holders') = active + 1
    BY <1>h, <2>2, FS_AddElement
  <2>4. TypeOK'
    BY <1>1, <1>t, <1>u DEF Reserve, TypeOK, Stages
  <2>5. SlotsAccounted' /\ CapacityRespected'
    BY <1>1, <1>t, <1>q, <2>3 DEF Reserve, SlotsAccounted, CapacityRespected
  <2>6. NoIdleSlot' /\ QueueBounded' /\ NoLostWaiter'
    BY <1>1, <1>q, <2>2 DEF Reserve, NoIdleSlot, QueueBounded, NoLostWaiter
  <2>7. WaitersConsistent'
    BY <1>1, <1>t, <1>c DEF Reserve, WaitersConsistent
  <2> QED BY <2>4, <2>5, <2>6, <2>7 DEF CapacityInv
<1>2. ASSUME NEW p \in Task, Enqueue(p)
      PROVE  CapacityInv'
  <2>1. future[p] = "none" /\ interrupt[p] = "none" /\ p \notin Pending
    BY <1>2, <1>c DEF Enqueue, Pending
  <2>2. Holders' = Holders /\ Pending' = Pending \cup {p}
    BY <1>2, <1>t, <2>1 DEF Enqueue, Holders, Pending
  <2>3. /\ waiters' \in Seq(Task)
        /\ Len(waiters') = Len(Undone) + 1
        /\ \A k \in 1 .. Len(Undone) : waiters'[k] = Undone[k]
        /\ waiters'[Len(Undone) + 1] = p
    BY <1>2, <1>u, AppendProperties DEF Enqueue
  <2>4. active = Limit
    <3>1. CASE Pending # {}
      BY <3>1 DEF CapacityInv, NoIdleSlot
    <3>2. CASE Pending = {}
      <4>1. Undone = <<>>
        BY <1>u, <3>2, EmptySeq
      <4> QED BY <1>2, <1>t, <1>h, <1>q, <4>1 DEF Enqueue
    <3> QED BY <3>1, <3>2
  <2>5. TypeOK'
    BY <1>2, <1>t, <2>3 DEF Enqueue, TypeOK, Stages, FutureStates
  <2>6. SlotsAccounted' /\ CapacityRespected' /\ NoIdleSlot'
    BY <1>2, <1>h, <2>2, <2>4 DEF Enqueue, SlotsAccounted, CapacityRespected, NoIdleSlot
  <2>7. QueueBounded'
    BY <1>2, <1>u, <1>q, <2>3 DEF Enqueue, QueueBounded
  <2>8. NoLostWaiter'
    <3> SUFFICES ASSUME NEW r \in Pending \cup {p}
                 PROVE  \E k \in 1 .. Len(waiters') : waiters'[k] = r
      BY <2>2 DEF NoLostWaiter
    <3>1. CASE r = p
      BY <1>u, <2>3, <3>1
    <3>2. CASE r \in Pending
      <4>1. PICK k \in 1 .. Len(Undone) : Undone[k] = r
        BY <1>u, <3>2
      <4> QED BY <1>u, <2>3, <4>1
    <3> QED BY <3>1, <3>2
  <2>9. WaitersConsistent'
    <3>1. \A k \in 1 .. Len(waiters') :
             \/ k \in 1 .. Len(Undone) /\ waiters'[k] = Undone[k] /\ waiters'[k] \in Pending
             \/ k = Len(Undone) + 1 /\ waiters'[k] = p
      BY <1>u, <2>3
    <3>2. \A k \in 1 .. Len(waiters') : future'[waiters'[k]] \in {"pending", "cancelled"}
      BY <1>2, <1>t, <3>1 DEF Enqueue, Pending
    <3>3. \A k, l \in 1 .. Len(waiters') : waiters'[k] = waiters'[l] => k = l
      BY <1>u, <2>1, <3>1
    <3>4. \A r \in Task :
             /\ stage'[r] = "waiting" <=> future'[r] # "none"
             /\ future'[r] = "pending" => interrupt'[r] = "none"
             /\ future'[r] = "cancelled" => interrupt'[r] # "none"
             /\ interrupt'[r] # "none" => stage'[r] = "waiting"
      BY <1>2, <1>t, <1>c, <2>1 DEF Enqueue
    <3> QED BY <3>2, <3>3, <3>4 DEF WaitersConsistent
  <2> QED BY <2>5, <2>6, <2>7, <2>8, <2>9 DEF CapacityInv
<1>3. ASSUME NEW p \in Task, RejectFull(p)
      PROVE  CapacityInv'
  <2>1. Holders' = Holders /\ Pending' = Pending
    BY <1>3, <1>t DEF RejectFull, Holders, Pending
  <2>2. TypeOK'
    BY <1>3, <1>t, <1>u DEF RejectFull, TypeOK, Stages, Refusals
  <2>3. SlotsAccounted' /\ CapacityRespected' /\ NoIdleSlot'
    BY <1>3, <1>h, <2>1 DEF RejectFull, SlotsAccounted, CapacityRespected, NoIdleSlot, CapacityInv
  <2>4. QueueBounded' /\ NoLostWaiter'
    BY <1>3, <1>t, <1>u, <1>q, <2>1 DEF RejectFull, QueueBounded, NoLostWaiter
  <2>5. WaitersConsistent'
    <3>1. \A k \in 1 .. Len(waiters') : future'[waiters'[k]] \in {"pending", "cancelled"}
      BY <1>3, <1>u DEF RejectFull, Pending
    <3>2. \A k, l \in 1 .. Len(waiters') : waiters'[k] = waiters'[l] => k = l
      BY <1>3, <1>u DEF RejectFull
    <3> QED BY <1>3, <1>t, <1>c, <3>1, <3>2 DEF RejectFull, WaitersConsistent
  <2> QED BY <2>2, <2>3, <2>4, <2>5 DEF CapacityInv
<1>4. ASSUME NEW p \in Task, NEW cause \in {"timeout", "cancel"}, Interrupt(p, cause)
      PROVE  CapacityInv'
  <2>1. Holders' = Holders /\ Pending' = Pending \ {p}
    BY <1>4, <1>t DEF Interrupt, Holders, Pending
  <2>2. TypeOK'
    BY <1>4, <1>t DEF Interrupt, TypeOK, Interrupts, FutureStates
  <2>3. SlotsAccounted' /\ CapacityRespected' /\ NoIdleSlot' /\ QueueBounded'
    BY <1>4, <1>h, <1>q, <2>1 DEF Interrupt, SlotsAccounted, CapacityRespected, NoIdleSlot,
       QueueBounded, CapacityInv
  <2>4. NoLostWaiter'
    BY <1>4, <2>1 DEF Interrupt, NoLostWaiter, CapacityInv
  <2>5. WaitersConsistent'
    BY <1>4, <1>t, <1>c DEF Interrupt, WaitersConsistent, FutureStates
  <2> QED BY <2>2, <2>3, <2>4, <2>5 DEF CapacityInv
<1>5. ASSUME NEW p \in Task, Resume(p)
      PROVE  CapacityInv'
  <2>1. Holders' = Holders /\ Pending' = Pending
    BY <1>5, <1>t DEF Resume, Holders, Pending
  <2>2. TypeOK'
    BY <1>5, <1>t DEF Resume, TypeOK, Stages, FutureStates
  <2>3. SlotsAccounted' /\ CapacityRespected' /\ NoIdleSlot' /\ QueueBounded'
    BY <1>5, <1>h, <1>q, <2>1 DEF Resume, SlotsAccounted, CapacityRespected, NoIdleSlot,
       QueueBounded, CapacityInv
  <2>4. NoLostWaiter'
    BY <1>5, <2>1 DEF Resume, NoLostWaiter, CapacityInv
  <2>5. WaitersConsistent'
    BY <1>5, <1>t, <1>c DEF Resume, WaitersConsistent
  <2> QED BY <2>2, <2>3, <2>4, <2>5 DEF CapacityInv
<1>6. ASSUME NEW p \in Task, Withdraw(p)
      PROVE  CapacityInv'
  <2>1. /\ stage' \in [Task -> Stages] /\ interrupt' \in [Task -> Interrupts]
        /\ stage'[p] \notin {"holding", "waiting"} /\ interrupt'[p] = "none"
        /\ \A q \in Task \ {p} : stage'[q] = stage[q] /\ interrupt'[q] = interrupt[q]
    BY <1>6, <1>t DEF Withdraw, Refused, Stages, Refusals, Interrupts
  <2>2. CASE future[p] = "granted"
    <3>1. p \in Holders /\ ReleaseTo([future EXCEPT ![p] = "none"])
      BY <1>6, <2>2 DEF Withdraw, Holders
    <3>2. \A q \in Task \ {p} : stage'[q] = stage[q]
      BY <2>1
    <3>3. \A q \in Task \ {p} : interrupt'[q] = interrupt[q]
      BY <2>1
    <3> QED BY <2>1, <3>1, <3>2, <3>3, ReleaseToInv
  <2>3. CASE future[p] # "granted"
    <3>0. PICK others : others = Task \ {p}
      BY Zenon
    <3> DEFINE rest == Keep(waiters, others)
    <3>1. /\ waiters' = rest /\ active' = active
          /\ future' = [future EXCEPT ![p] = "none"]
          /\ stage[p] = "waiting" /\ interrupt[p] # "none"
      BY <1>6, <2>3, <3>0 DEF Withdraw
    <3>2. rest \in Seq(Task) /\ Len(rest) <= Len(waiters) /\ Len(rest) \in Nat
      BY <1>t, KeepProperties, LenProperties
    <3>3. PICK c \in [1 .. Len(rest) -> 1 .. Len(waiters)] :
            /\ \A k \in 1 .. Len(rest) : rest[k] = waiters[c[k]] /\ waiters[c[k]] \in others
            /\ \A k, l \in 1 .. Len(rest) : k < l => c[k] < c[l]
            /\ \A j \in 1 .. Len(waiters) :
                  waiters[j] \in others => \E k \in 1 .. Len(rest) : c[k] = j
      <4>1. PICK c : OrderlyMap(rest, waiters, others, c)
        BY <1>t, KeepProperties
      <4> HIDE DEF rest
      <4> QED BY <4>1 DEF OrderlyMap
    <3> HIDE DEF rest
    <3>4. Holders' = Holders /\ Pending' = Pending /\ p \notin Pending
      BY <1>t, <1>c, <2>1, <2>3, <3>1 DEF Holders, Pending
    <3>5. TypeOK'
      BY <1>t, <2>1, <3>1, <3>2 DEF TypeOK, FutureStates
    <3>6. SlotsAccounted' /\ CapacityRespected' /\ NoIdleSlot' /\ QueueBounded'
      BY <1>t, <1>h, <1>q, <3>1, <3>2, <3>4 DEF SlotsAccounted, CapacityRespected, NoIdleSlot,
         QueueBounded, CapacityInv
    <3>7. NoLostWaiter'
      <4> SUFFICES ASSUME NEW r \in Pending
                   PROVE  \E k \in 1 .. Len(rest) : rest[k] = r
        BY <3>1, <3>4 DEF NoLostWaiter
      <4>1. PICK j \in 1 .. Len(waiters) : waiters[j] = r
        BY DEF CapacityInv, NoLostWaiter
      <4>2. waiters[j] \in others
        BY <1>t, <3>0, <3>4, <4>1
      <4>3. PICK k \in 1 .. Len(rest) : c[k] = j
        BY <3>3, <4>2
      <4> QED BY <3>3, <4>1, <4>3
    <3>8. WaitersConsistent'
      <4>1. \A k \in 1 .. Len(rest) : future'[rest[k]] \in {"pending", "cancelled"}
        BY ZenonT(30), <1>t, <1>c, <3>0, <3>1, <3>3
      <4>2. \A k, l \in 1 .. Len(rest) : rest[k] = rest[l] => k = l
        <5> SUFFICES ASSUME NEW k \in 1 .. Len(rest), NEW l \in 1 .. Len(rest), rest[k] = rest[l]
                     PROVE  k = l
          OBVIOUS
        <5>1. c[k] \in 1 .. Len(waiters) /\ c[k] = c[l]
          BY <1>c, <3>3
        <5>2. ~(k < l) /\ ~(l < k)
          BY <1>t, <3>3, <5>1
        <5> QED BY <3>2, <5>2
      <4>3. \A r \in Task :
               /\ stage'[r] = "waiting" <=> future'[r] # "none"
               /\ future'[r] = "pending" => interrupt'[r] = "none"
               /\ future'[r] = "cancelled" => interrupt'[r] # "none"
               /\ interrupt'[r] # "none" => stage'[r] = "waiting"
        BY <1>t, <1>c, <2>1, <3>1
      <4> QED BY <3>1, <4>1, <4>2, <4>3 DEF WaitersConsistent
    <3> QED BY <3>5, <3>6, <3>7, <3>8 DEF CapacityInv
  <2> QED BY <2>2, <2>3
<1>7. ASSUME NEW p \in Task, Release(p)
      PROVE  CapacityInv'
  <2>1. p \in Holders /\ future[p] = "none" /\ interrupt[p] = "none"
    BY <1>7, <1>c DEF Release, Holders
  <2>2. future = [future EXCEPT ![p] = "none"]
    BY <1>t, <2>1
  <2>3. ReleaseTo([future EXCEPT ![p] = "none"])
    BY <1>7, <2>2 DEF Release
  <2>4. /\ stage' \in [Task -> Stages] /\ interrupt' \in [Task -> Interrupts]
        /\ stage'[p] \notin {"holding", "waiting"} /\ interrupt'[p] = "none"
        /\ \A q \in Task \ {p} : stage'[q] = stage[q]
        /\ \A q \in Task \ {p} : interrupt'[q] = interrupt[q]
    BY <1>7, <1>t, <2>1 DEF Release, Stages
  <2> QED BY <2>1, <2>3, <2>4, ReleaseToInv
<1>8. CASE UNCHANGED vars
  BY <1>8 DEF vars, CapacityInv, TypeOK, SlotsAccounted, CapacityRespected, NoIdleSlot,
     QueueBounded, NoLostWaiter, WaitersConsistent, Holders, Pending
<1> QED
  BY <1>1, <1>2, <1>3, <1>4, <1>5, <1>6, <1>7, <1>8 DEF Next

\* _BoundedCapacity accounts for every slot, for every limit, queue size and
\* number of tasks.
THEOREM CapacityInvariant == Spec => []CapacityInv
BY InitCapacity, NextCapacity, PTL DEF Spec

\* At most Limit tasks are in the body of acquire() or about to enter it.
THEOREM CapacityIsRespected == Spec => []CapacityRespected
<1>1. CapacityInv => CapacityRespected
  BY DEF CapacityInv
<1> QED BY <1>1, CapacityInvariant, PTL

\* No slot is idle while a live waiter is queued.
THEOREM SlotsAreNeverIdle == Spec => []NoIdleSlot
<1>1. CapacityInv => NoIdleSlot
  BY DEF CapacityInv
<1> QED BY <1>1, CapacityInvariant, PTL

-----------------------------------------------------------------------------
(* The pool implements FifoSlots.                                          *)

\* Keep preserves the order of the elements it keeps.
LEMMA KeepOrder ==
    ASSUME NEW T, NEW s \in Seq(T), NEW S, NEW a \in S, NEW b \in S
    PROVE  Precedes(Keep(s, S), a, b) <=> Precedes(s, a, b)
<1> DEFINE K == Keep(s, S)
<1>1. K \in Seq(T) /\ Len(K) \in Nat /\ Len(s) \in Nat
  BY KeepProperties, LenProperties
<1>2. PICK c \in [1 .. Len(K) -> 1 .. Len(s)] :
        /\ \A k \in 1 .. Len(K) : K[k] = s[c[k]] /\ s[c[k]] \in S
        /\ \A k, l \in 1 .. Len(K) : k < l => c[k] < c[l]
        /\ \A j \in 1 .. Len(s) : s[j] \in S => \E k \in 1 .. Len(K) : c[k] = j
  <2>1. PICK c : OrderlyMap(K, s, S, c)
    BY KeepProperties
  <2> HIDE DEF K
  <2> QED BY <2>1 DEF OrderlyMap
<1> HIDE DEF K
<1>3. ASSUME Precedes(K, a, b) PROVE Precedes(s, a, b)
  <2>1. PICK k, l \in 1 .. Len(K) : k < l /\ K[k] = a /\ K[l] = b
    BY <1>3 DEF Precedes
  <2>2. c[k] < c[l] /\ s[c[k]] = a /\ s[c[l]] = b
    BY <1>2, <2>1
  <2> QED BY <1>2, <2>1, <2>2 DEF Precedes
<1>4. ASSUME Precedes(s, a, b) PROVE Precedes(K, a, b)
  <2>1. PICK i, j \in 1 .. Len(s) : i < j /\ s[i] = a /\ s[j] = b
    BY <1>4 DEF Precedes
  <2>2. PICK k \in 1 .. Len(K) : c[k] = i
    BY <1>2, <2>1
  <2>3. PICK l \in 1 .. Len(K) : c[l] = j
    BY <1>2, <2>1
  <2>4. k < l
    <3>1. k # l /\ ~(l < k)
      BY <1>1, <1>2, <2>1, <2>2, <2>3
    <3> QED BY <1>1, <3>1
  <2>5. K[k] = a /\ K[l] = b
    BY <1>2, <2>1, <2>2, <2>3
  <2> QED BY <2>4, <2>5 DEF Precedes
<1> QED BY <1>3, <1>4 DEF K

\* An interval starting at one.
LEMMA IntervalCount ==
    \A n \in Nat : IsFiniteSet(1 .. n) /\ Cardinality(1 .. n) = n
BY FS_Interval

\* As many tasks wait as the deque has undone futures.
LEMMA PendingCount ==
    ASSUME CapacityInv
    PROVE  IsFiniteSet(Pending) /\ Cardinality(Pending) = Len(Undone)
<1>1. /\ Undone \in Seq(Task) /\ Len(Undone) \in Nat
      /\ \A k \in 1 .. Len(Undone) : Undone[k] \in Pending
      /\ \A k, l \in 1 .. Len(Undone) : Undone[k] = Undone[l] => k = l
      /\ \A p \in Pending : \E k \in 1 .. Len(Undone) : Undone[k] = p
  BY UndoneProperties
<1>2. Undone \in [1 .. Len(Undone) -> Pending]
  <2>1. DOMAIN Undone = 1 .. Len(Undone) /\ Undone \in [1 .. Len(Undone) -> Task]
    BY <1>1, LenProperties
  <2> QED BY <1>1, <2>1
<1>3. Undone \in Bijection(1 .. Len(Undone), Pending)
  BY <1>1, <1>2 DEF Bijection, Injection, IsInjective, Surjection
<1>4. ExistsBijection(1 .. Len(Undone), Pending)
  BY <1>3 DEF ExistsBijection
<1>5. IsFiniteSet(1 .. Len(Undone)) /\ Cardinality(1 .. Len(Undone)) = Len(Undone)
  <2>1. Len(Undone) \in Nat
    BY <1>1
  <2> QED BY <2>1, IntervalCount
<1> QED BY <1>4, <1>5, FS_Bijection

\* _release, for a task p that owns a slot, frees it or hands it to the task
\* that has waited longest.
LEMMA ReleaseToRefines ==
    ASSUME CapacityInv, NEW p \in Holders,
           ReleaseTo([future EXCEPT ![p] = "none"]),
           stage' \in [Task -> Stages], stage'[p] \notin {"holding", "waiting", "queue_full"},
           \A q \in Task \ {p} : stage'[q] = stage[q]
    PROVE  Slots!Next
<1> DEFINE fut == [future EXCEPT ![p] = "none"]
           live == {i \in 1 .. Len(waiters) : fut[waiters[i]] = "pending"}
<1>1. /\ waiters \in Seq(Task) /\ Len(waiters) \in Nat
      /\ \A i \in 1 .. Len(waiters) : waiters[i] \in Task
  BY LenProperties, ElementOfSeq DEF CapacityInv, TypeOK
<1>2. p \in Task /\ future \in [Task -> FutureStates] /\ active \in Nat
  BY DEF CapacityInv, TypeOK, Holders
<1>3. \A i \in 1 .. Len(waiters) : waiters[i] # p
  BY <1>1, <1>2 DEF CapacityInv, WaitersConsistent, Holders
<1>4. live = {i \in 1 .. Len(waiters) : waiters[i] \in Pending}
  BY <1>1, <1>2, <1>3 DEF Pending
<1>a. RefusedTasks' = RefusedTasks
  <2>1. stage[p] # "queue_full"
    BY <1>2 DEF CapacityInv, WaitersConsistent, Holders
  <2> QED BY <1>2, <2>1 DEF RefusedTasks
<1>5. CASE live = {}
  <2>1. waiters' = <<>> /\ future' = fut
    BY <1>5 DEF ReleaseTo
  <2>2. Pending = {}
    BY <1>4, <1>5 DEF CapacityInv, NoLostWaiter
  <2>3. Holders' = Holders \ {p} /\ Pending' = {}
    BY <1>2, <2>1, <2>2 DEF Holders, Pending
  <2>4. AheadRelation = {} /\ AheadRelation' = {}
    BY <2>2, <2>3 DEF AheadRelation
  <2>5. Slots!Free(p)
    BY <1>a, <2>2, <2>3, <2>4 DEF Slots!Free
  <2> QED BY <1>2, <2>5 DEF Slots!Next
<1>6. CASE live # {}
  <2>1. PICK i \in live :
          /\ \A j \in live : i <= j
          /\ waiters' = SubSeq(waiters, i + 1, Len(waiters))
          /\ future' = [fut EXCEPT ![waiters[i]] = "granted"]
    BY ZenonT(30), <1>6 DEF ReleaseTo
  <2> DEFINE q == waiters[i]
  <2>2. i \in 1 .. Len(waiters) /\ q \in Task /\ q \in Pending /\ q # p
    BY <1>1, <1>3, <1>4, <2>1
  <2>3. Holders' = (Holders \ {p}) \cup {q} /\ Pending' = Pending \ {q}
    BY <1>2, <2>1, <2>2 DEF Holders, Pending, CapacityInv, WaitersConsistent
  <2>4. \A r \in Pending : <<r, q>> \notin AheadRelation
    <3> SUFFICES ASSUME NEW r \in Pending, Precedes(waiters, r, q)
                 PROVE  FALSE
      BY DEF AheadRelation, Before
    <3>1. PICK j, k \in 1 .. Len(waiters) : j < k /\ waiters[j] = r /\ waiters[k] = q
      BY DEF Precedes
    <3>2. k = i
      BY <2>2, <3>1 DEF CapacityInv, WaitersConsistent
    <3>3. j \in live
      BY <1>4, <3>1
    <3> QED BY <1>1, <2>1, <2>2, <3>1, <3>2, <3>3
  <2>5. ASSUME NEW a \in Pending \ {q}, NEW b \in Pending \ {q}
        PROVE  Precedes(waiters', a, b) <=> Precedes(waiters, a, b)
    <3>1. \A k \in i + 1 .. Len(waiters) : waiters[k] \in Task
      BY <1>1, <2>2
    <3>2. /\ Len(waiters') = IF i + 1 <= Len(waiters) THEN Len(waiters) - (i + 1) + 1 ELSE 0
          /\ \A k \in 1 .. Len(waiters) - (i + 1) + 1 : waiters'[k] = waiters[(i + 1) + k - 1]
      BY <1>1, <2>1, <2>2, <3>1, SubSeqProperties
    <3>3. Len(waiters') = Len(waiters) - i
      BY <1>1, <2>2, <3>2
    <3>4. \A k \in 1 .. Len(waiters') : waiters'[k] = waiters[k + i] /\ k + i \in 1 .. Len(waiters)
      <4> SUFFICES ASSUME NEW k \in 1 .. Len(waiters')
                   PROVE  waiters'[k] = waiters[k + i] /\ k + i \in 1 .. Len(waiters)
        OBVIOUS
      <4>1. /\ (i + 1) + k - 1 = k + i /\ k \in 1 .. Len(waiters) - (i + 1) + 1
            /\ k + i \in 1 .. Len(waiters)
        BY <1>1, <2>2, <3>3
      <4> QED BY <3>2, <4>1
    <3>5. ASSUME Precedes(waiters', a, b) PROVE Precedes(waiters, a, b)
      <4>1. PICK k, l \in 1 .. Len(waiters') : k < l /\ waiters'[k] = a /\ waiters'[l] = b
        BY <3>5 DEF Precedes
      <4>2. k + i < l + i
        BY <1>1, <2>2, <3>3, <4>1
      <4> QED BY SMTT(30), <3>4, <4>1, <4>2 DEF Precedes
    <3>6. ASSUME Precedes(waiters, a, b) PROVE Precedes(waiters', a, b)
      <4>1. PICK k, l \in 1 .. Len(waiters) : k < l /\ waiters[k] = a /\ waiters[l] = b
        BY <3>6 DEF Precedes
      <4>2. k \in live /\ k # i
        BY <1>4, <4>1
      <4>3. i < k
        BY <1>1, <2>1, <2>2, <4>2
      <4>4. /\ k - i \in 1 .. Len(waiters') /\ l - i \in 1 .. Len(waiters') /\ k - i < l - i
            /\ (k - i) + i = k /\ (l - i) + i = l
        <5>1. /\ i \in Nat /\ k \in Nat /\ l \in Nat /\ Len(waiters) \in Nat
              /\ i < k /\ k < l /\ l <= Len(waiters)
          BY <1>1, <2>2, <4>1, <4>3
        <5>2. Len(waiters') = Len(waiters) - i
          BY <3>3
        <5> QED BY ONLY <5>1, <5>2
      <4>5. waiters'[k - i] = a /\ waiters'[l - i] = b
        BY Zenon, <3>4, <4>1, <4>4
      <4> QED BY <4>4, <4>5 DEF Precedes
    <3> QED BY <3>5, <3>6
  <2>6. AheadRelation' = {e \in AheadRelation : q \notin {e[1], e[2]}}
    <3>1. \A a, b \in Pending \ {q} : Precedes(waiters', a, b) <=> Precedes(waiters, a, b)
      BY <2>5
    <3>2. AheadRelation' =
            {e \in (Pending \ {q}) \X (Pending \ {q}) : Precedes(waiters', e[1], e[2])}
      BY <2>3 DEF AheadRelation, Before
    <3> HIDE DEF q
    <3>3. \A e : e \in AheadRelation' <=> (e \in AheadRelation /\ q \notin {e[1], e[2]})
      BY <3>1, <3>2 DEF AheadRelation, Before
    <3> QED BY <3>3
  <2>7. Slots!HandOver(p, q)
    BY <1>a, <2>2, <2>3, <2>4, <2>6 DEF Slots!HandOver
  <2> QED BY <1>2, <2>2, <2>7 DEF Slots!Next
<1> QED BY <1>5, <1>6

\* FifoSlots counts as this module does.
LEMMA SameCardinality == \A S : Slots!Cardinality(S) = Cardinality(S)
BY Zenon DEF Slots!Cardinality, Cardinality, Slots!IsFiniteSet, IsFiniteSet

\* Every step of the pool is a step of FifoSlots or leaves it unchanged.
LEMMA NextRefines == CapacityInv /\ [Next]_vars => [Slots!Next]_(Slots!vars)
<1> SUFFICES ASSUME CapacityInv, [Next]_vars
             PROVE  Slots!Next \/ UNCHANGED <<Holders, Pending, AheadRelation, RefusedTasks>>
  BY DEF Slots!vars
<1>t. /\ waiters \in Seq(Task) /\ Len(waiters) \in Nat /\ active \in Nat
      /\ future \in [Task -> FutureStates] /\ interrupt \in [Task -> Interrupts]
      /\ stage \in [Task -> Stages]
  BY LenProperties DEF CapacityInv, TypeOK
<1>h. active = Cardinality(Holders) /\ active <= Limit
  BY DEF CapacityInv, SlotsAccounted, CapacityRespected
<1>c. \A p \in Task :
         /\ stage[p] = "waiting" <=> future[p] # "none"
         /\ future[p] = "pending" => interrupt[p] = "none"
  BY DEF CapacityInv, WaitersConsistent
<1>u. /\ Undone \in Seq(Task) /\ Len(Undone) \in Nat
      /\ \A k \in 1 .. Len(Undone) : Undone[k] \in Pending
      /\ \A p \in Pending : \E k \in 1 .. Len(Undone) : Undone[k] = p
  BY UndoneProperties
<1>o. \A a, b \in Pending : Precedes(Undone, a, b) <=> Precedes(waiters, a, b)
  BY <1>t, KeepOrder DEF Undone
<1>n. Cardinality(Pending) = Len(Undone)
  BY PendingCount
<1>1. ASSUME NEW p \in Task, Reserve(p)
      PROVE  Slots!Next
  <2>1. Pending = {} /\ future[p] = "none"
    <3>1. Pending = {}
      BY <1>1, <1>u DEF Reserve
    <3>2. future[p] = "none"
      BY <1>1, <1>c DEF Reserve
    <3> QED BY <3>1, <3>2
  <2>2. Holders' = Holders \cup {p} /\ Pending' = {} /\ p \notin Holders
    BY <1>1, <1>t, <2>1 DEF Reserve, Holders, Pending
  <2>3. AheadRelation = {} /\ AheadRelation' = {}
    BY <2>1, <2>2 DEF AheadRelation
  <2>4. Cardinality(Holders) < Limit
    BY <1>1, <1>h DEF Reserve
  <2>5. RefusedTasks' = RefusedTasks \ {p}
    BY <1>1, <1>t DEF Reserve, RefusedTasks
  <2>6. Slots!Admit(p)
    BY <2>1, <2>2, <2>3, <2>4, <2>5, SameCardinality DEF Slots!Admit
  <2> QED BY <2>6 DEF Slots!Next
<1>2. ASSUME NEW p \in Task, Enqueue(p)
      PROVE  Slots!Next
  <2>1. future[p] = "none" /\ p \notin Pending /\ p \notin Holders
    BY <1>2, <1>c DEF Enqueue, Pending, Holders
  <2>2. Holders' = Holders /\ Pending' = Pending \cup {p}
    BY <1>2, <1>t, <2>1 DEF Enqueue, Holders, Pending
  <2>3. /\ Len(waiters') = Len(Undone) + 1
        /\ \A k \in 1 .. Len(Undone) : waiters'[k] = Undone[k]
        /\ waiters'[Len(Undone) + 1] = p
    BY <1>2, <1>u, AppendProperties DEF Enqueue
  <2>4. Cardinality(Holders) = Limit
    <3>1. CASE Pending # {}
      BY <1>h, <3>1 DEF CapacityInv, NoIdleSlot
    <3>2. CASE Pending = {}
      <4>1. Undone = <<>>
        BY <1>u, <3>2, EmptySeq
      <4> QED BY <1>2, <1>t, <1>h, <4>1, CapacityAssumption DEF Enqueue
    <3> QED BY <3>1, <3>2
  <2>5. Cardinality(Pending) < QueueSize
    BY <1>2, <1>n DEF Enqueue
  <2>6. \A k \in 1 .. Len(waiters') :
           \/ k \in 1 .. Len(Undone) /\ waiters'[k] = Undone[k] /\ waiters'[k] \in Pending
           \/ k = Len(Undone) + 1 /\ waiters'[k] = p
    BY <1>u, <2>3
  <2>7. ASSUME NEW a \in Pending, NEW b \in Pending
        PROVE  Precedes(waiters', a, b) <=> Precedes(waiters, a, b)
    <3>1. Precedes(waiters', a, b) => Precedes(Undone, a, b)
      BY <2>1, <2>6 DEF Precedes
    <3>2. Precedes(Undone, a, b) => Precedes(waiters', a, b)
      <4> SUFFICES ASSUME Precedes(Undone, a, b) PROVE Precedes(waiters', a, b)
        OBVIOUS
      <4>1. PICK k, l \in 1 .. Len(Undone) : k < l /\ Undone[k] = a /\ Undone[l] = b
        BY DEF Precedes
      <4>2. k \in 1 .. Len(waiters') /\ l \in 1 .. Len(waiters')
        BY <1>u, <2>3
      <4> QED BY <2>3, <4>1, <4>2 DEF Precedes
    <3> QED BY <1>o, <3>1, <3>2
  <2>8. ASSUME NEW a \in Pending
        PROVE  Precedes(waiters', a, p)
    <3>1. PICK k \in 1 .. Len(Undone) : Undone[k] = a
      BY <1>u
    <3>2. /\ k \in 1 .. Len(waiters') /\ Len(Undone) + 1 \in 1 .. Len(waiters')
          /\ k < Len(Undone) + 1
      BY <1>u, <2>3
    <3> QED BY <2>3, <3>1, <3>2 DEF Precedes
  <2>9. ASSUME NEW b \in Pending \cup {p}
        PROVE  ~Precedes(waiters', p, b)
    <3> SUFFICES ASSUME NEW k \in 1 .. Len(waiters'), NEW l \in 1 .. Len(waiters'),
                        k < l, waiters'[k] = p
                 PROVE  FALSE
      BY DEF Precedes
    <3>1. k = Len(Undone) + 1
      BY <2>1, <2>6
    <3> QED BY <1>u, <2>3, <3>1
  <2>10. AheadRelation' = AheadRelation \cup (Pending \X {p})
    <3>1. AheadRelation' = {e \in (Pending \cup {p}) \X (Pending \cup {p}) :
                               Precedes(waiters', e[1], e[2])}
      BY <2>2 DEF AheadRelation, Before
    <3>2. \A a, b : <<a, b>> \in AheadRelation' <=> <<a, b>> \in AheadRelation \cup (Pending \X {p})
      BY <2>1, <2>7, <2>8, <2>9, <3>1 DEF AheadRelation, Before
    <3>3. \A e \in AheadRelation' : e = <<e[1], e[2]>>
      BY <3>1
    <3>4. \A e \in AheadRelation \cup (Pending \X {p}) : e = <<e[1], e[2]>>
      BY DEF AheadRelation
    <3> QED BY <3>2, <3>3, <3>4
  <2>11. RefusedTasks' = RefusedTasks \ {p}
    BY <1>2, <1>t DEF Enqueue, RefusedTasks
  <2>12. Slots!Join(p)
    BY <2>1, <2>2, <2>4, <2>5, <2>10, <2>11, SameCardinality DEF Slots!Join
  <2> QED BY <2>12 DEF Slots!Next
<1>3. ASSUME NEW p \in Task, RejectFull(p)
      PROVE  Slots!Next
  <2>1. Holders' = Holders /\ Pending' = Pending
    BY <1>3, <1>t DEF RejectFull, Holders, Pending
  <2>2. \A a, b \in Pending : Precedes(waiters', a, b) <=> Precedes(waiters, a, b)
    BY <1>3, <1>o DEF RejectFull
  <2>3. AheadRelation' = {e \in Pending \X Pending : Precedes(waiters', e[1], e[2])}
    BY <2>1 DEF AheadRelation, Before
  <2>4. AheadRelation' = AheadRelation
    BY <2>2, <2>3 DEF AheadRelation, Before
  <2>5. p \notin Holders /\ p \notin Pending
    BY <1>3, <1>c DEF RejectFull, Holders, Pending
  <2>6. Cardinality(Holders) = Limit
    <3>1. CASE Pending # {}
      BY <1>h, <3>1 DEF CapacityInv, NoIdleSlot
    <3>2. CASE Pending = {}
      <4>1. Undone = <<>>
        BY <1>u, <3>2, EmptySeq
      <4> QED BY <1>3, <1>t, <1>h, <4>1, CapacityAssumption DEF RejectFull
    <3> QED BY <3>1, <3>2
  <2>7. Cardinality(Pending) >= QueueSize
    BY <1>3, <1>n DEF RejectFull
  <2>8. RefusedTasks' = RefusedTasks \cup {p}
    BY <1>3, <1>t DEF RejectFull, RefusedTasks
  <2>9. Slots!TurnAway(p)
    BY <2>1, <2>4, <2>5, <2>6, <2>7, <2>8, SameCardinality DEF Slots!TurnAway
  <2> QED BY <2>9 DEF Slots!Next
<1>4. ASSUME NEW p \in Task, NEW cause \in {"timeout", "cancel"}, Interrupt(p, cause)
      PROVE  Slots!Next \/ UNCHANGED <<Holders, Pending, AheadRelation, RefusedTasks>>
  <2>1. /\ Holders' = Holders /\ Pending' = Pending \ {p} /\ waiters' = waiters
        /\ RefusedTasks' = RefusedTasks
    BY <1>4, <1>t DEF Interrupt, Holders, Pending, RefusedTasks
  <2>2. AheadRelation' = {e \in (Pending \ {p}) \X (Pending \ {p}) : Precedes(waiters, e[1], e[2])}
    BY <2>1 DEF AheadRelation, Before
  <2>3. CASE p \in Pending
    <3>1. AheadRelation' = {e \in AheadRelation : p \notin {e[1], e[2]}}
      BY <2>2 DEF AheadRelation, Before
    <3>2. Slots!Leave(p)
      BY <2>1, <2>3, <3>1 DEF Slots!Leave
    <3> QED BY <3>2 DEF Slots!Next
  <2>4. CASE p \notin Pending
    <3>1. Pending' = Pending
      BY <2>1, <2>4
    <3>2. AheadRelation' = AheadRelation
      BY <2>1, <3>1 DEF AheadRelation, Before
    <3> QED BY <2>1, <3>1, <3>2
  <2> QED BY <2>3, <2>4
<1>5. ASSUME NEW p \in Task, Resume(p)
      PROVE  UNCHANGED <<Holders, Pending, AheadRelation, RefusedTasks>>
  <2>1. Holders' = Holders /\ Pending' = Pending /\ waiters' = waiters
    BY <1>5, <1>t DEF Resume, Holders, Pending
  <2>2. AheadRelation' = AheadRelation
    BY <2>1 DEF AheadRelation, Before
  <2>3. RefusedTasks' = RefusedTasks
    BY <1>5, <1>t DEF Resume, RefusedTasks
  <2> QED BY <2>1, <2>2, <2>3
<1>6. ASSUME NEW p \in Task, Withdraw(p)
      PROVE  Slots!Next \/ UNCHANGED <<Holders, Pending, AheadRelation, RefusedTasks>>
  <2>1. /\ stage' \in [Task -> Stages]
        /\ stage'[p] \notin {"holding", "waiting", "queue_full"}
        /\ \A q \in Task \ {p} : stage'[q] = stage[q]
    BY <1>6, <1>t DEF Withdraw, Refused, Stages, Refusals
  <2>2. CASE future[p] = "granted"
    <3>1. p \in Holders /\ ReleaseTo([future EXCEPT ![p] = "none"])
      BY <1>6, <2>2 DEF Withdraw, Holders
    <3> QED BY <2>1, <3>1, ReleaseToRefines
  <2>3. CASE future[p] # "granted"
    <3>0. PICK others : others = Task \ {p}
      BY Zenon
    <3>1. /\ waiters' = Keep(waiters, others)
          /\ future' = [future EXCEPT ![p] = "none"]
          /\ stage[p] = "waiting" /\ interrupt[p] # "none"
      BY <1>6, <2>3, <3>0 DEF Withdraw
    <3>2. Holders' = Holders /\ Pending' = Pending /\ Pending \subseteq others
      BY <1>t, <1>c, <2>1, <2>3, <3>0, <3>1 DEF Holders, Pending
    <3>3. \A a, b \in Pending : Precedes(waiters', a, b) <=> Precedes(waiters, a, b)
      BY <1>t, <3>1, <3>2, KeepOrder
    <3>4. AheadRelation' = {e \in Pending \X Pending : Precedes(waiters', e[1], e[2])}
      BY <3>2 DEF AheadRelation, Before
    <3>5. AheadRelation' = AheadRelation
      BY <3>3, <3>4 DEF AheadRelation, Before
    <3>6. RefusedTasks' = RefusedTasks
      BY <1>t, <2>1, <3>1 DEF RefusedTasks
    <3> QED BY SMTT(30), <3>2, <3>5, <3>6
  <2> QED BY <2>2, <2>3
<1>7. ASSUME NEW p \in Task, Release(p)
      PROVE  Slots!Next
  <2>1. p \in Holders /\ future[p] = "none"
    BY <1>7, <1>c DEF Release, Holders
  <2>2. future = [future EXCEPT ![p] = "none"]
    BY <1>t, <2>1
  <2>3. ReleaseTo([future EXCEPT ![p] = "none"])
    BY <1>7, <2>2 DEF Release
  <2>4. /\ stage' \in [Task -> Stages]
        /\ stage'[p] \notin {"holding", "waiting", "queue_full"}
        /\ \A q \in Task \ {p} : stage'[q] = stage[q]
    BY <1>7, <1>t DEF Release, Stages
  <2> QED BY <2>1, <2>3, <2>4, ReleaseToRefines
<1>8. CASE UNCHANGED vars
  BY <1>8 DEF vars, Holders, Pending, AheadRelation, Before, Precedes, RefusedTasks
<1> QED
  BY <1>1, <1>2, <1>3, <1>4, <1>5, <1>6, <1>7, <1>8 DEF Next

\* _BoundedCapacity is a first-in first-out pool of Limit slots: whatever the
\* timing of timeouts and cancellations, its behaviours are FifoSlots'.
THEOREM CapacityImplementsFifoSlots == Spec => ImplementsFifoSlots
<1>1. Init => Slots!Init
  <2> SUFFICES ASSUME Init PROVE Slots!Init
    OBVIOUS
  <2>1. Holders = {} /\ Pending = {}
    BY DEF Init, Holders, Pending
  <2>2. AheadRelation = {} /\ RefusedTasks = {}
    BY <2>1 DEF Init, AheadRelation, RefusedTasks
  <2> QED BY <2>1, <2>2 DEF Slots!Init
<1> QED
  BY <1>1, NextRefines, CapacityInvariant, PTL DEF Spec, ImplementsFifoSlots, Slots!Spec
=============================================================================
