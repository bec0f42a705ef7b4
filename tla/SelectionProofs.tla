---------------------------- MODULE SelectionProofs ----------------------------
(****************************************************************************)
(* Proofs about selection_data.                                             *)
(*                                                                          *)
(* SelectionTransfers: the vectors hold exactly the transfers that live,    *)
(* and the timer exists exactly while one does, whatever the sweep does to  *)
(* the vector it runs over.                                                 *)
(*                                                                          *)
(* SelectionBridge: the bridge never offers both sides to each other,       *)
(* shields the Wayland selection from X clients without focus, follows the  *)
(* focus exactly while it has to, and never leaves the seat with a source   *)
(* that was deleted; for every set of X clients and of data types and       *)
(* however long the queues grow.                                            *)
(****************************************************************************)
EXTENDS SelectionTransfers, SelectionBridge, FiniteSetTheorems, SequenceTheorems, TLAPS

--------------------------------------------------------------------------------
(****************************************************************************)
(* The transfers: the invariant.                                            *)
(****************************************************************************)
Vector == {vec \in [slots: Seq(Transfers), size: Nat] : vec.size <= Len(vec.slots)}
In(vec) == {vec.slots[i] : i \in 1..vec.size}
Distinct(vec) == \A i, j \in 1..vec.size : vec.slots[i] = vec.slots[j] => i = j

\* The loop of a sweep stays within the memory of its vector, which no handler of
\* finished() shrinks.
SweepInside ==
    /\ sweep \in [vector: Vectors \cup {"none"}, i: Nat, end: Nat]
    /\ sweep.vector # "none" =>
         sweep.i >= 1 /\ sweep.end <= Len(transfers[sweep.vector].slots)

\* VectorsExact, by the elements of the vectors.
Exact ==
    /\ \A v \in Vectors : Distinct(transfers[v])
    /\ In(transfers["x11_to_wl"]) \cap In(transfers["wl_to_x11"]) = {}
    /\ In(transfers["x11_to_wl"]) \cup In(transfers["wl_to_x11"]) = Alive

TransfersInv == TransfersTypeOK /\ SweepInside /\ Exact /\ TimerIffTransfers

--------------------------------------------------------------------------------
(****************************************************************************)
(* The operators.                                                           *)
(****************************************************************************)
\* Each number up to its size is the rank of one member of a set of numbers.
LEMMA NthMember ==
    ASSUME NEW n \in Nat, NEW S \in SUBSET (1..n)
    PROVE  /\ IsFiniteSet(S) /\ Cardinality(S) \in Nat /\ Cardinality(S) <= n
           /\ \A k \in 1..Cardinality(S) : Nth(S, k) \in S
           /\ \A k, l \in 1..Cardinality(S) : Nth(S, k) = Nth(S, l) => k = l
           /\ \A i \in S : \E k \in 1..Cardinality(S) : Nth(S, k) = i
  <1>1. IsFiniteSet(1..n) /\ Cardinality(1..n) = n
    BY FS_Interval
  <1>2. IsFiniteSet(S) /\ Cardinality(S) <= n
    BY <1>1, FS_Subset
  <1>3. Cardinality(S) \in Nat
    BY <1>2, FS_CardinalityType
  <1> DEFINE c == Cardinality(S)
             Upto(i) == {j \in S : j <= i}
             rank == [i \in S |-> Cardinality(Upto(i))]
  <1>4. \A i \in S : IsFiniteSet(Upto(i)) /\ Cardinality(Upto(i)) \in 1..c
    <2> SUFFICES ASSUME NEW i \in S
                 PROVE  IsFiniteSet(Upto(i)) /\ Cardinality(Upto(i)) \in 1..c
      OBVIOUS
    <2>1. Upto(i) \in SUBSET S /\ i \in Upto(i)
      OBVIOUS
    <2> HIDE DEF Upto
    <2>2. IsFiniteSet(Upto(i)) /\ Cardinality(Upto(i)) <= c
      BY <1>2, <2>1, FS_Subset
    <2>3. Cardinality(Upto(i)) \in Nat /\ Cardinality(Upto(i)) # 0
      BY <2>1, <2>2, FS_CardinalityType, FS_EmptySet
    <2> QED BY <1>3, <2>2, <2>3
  <1>5. \A i, l \in S : i < l => Cardinality(Upto(i)) # Cardinality(Upto(l))
    <2> SUFFICES ASSUME NEW i \in S, NEW l \in S, i < l
                 PROVE  Cardinality(Upto(i)) # Cardinality(Upto(l))
      OBVIOUS
    <2>1. Upto(i) \in SUBSET Upto(l) /\ l \in Upto(l) /\ l \notin Upto(i)
      <3>1. \A j \in S : j <= i => j <= l
        OBVIOUS
      <3>2. l <= l /\ ~(l <= i)
        OBVIOUS
      <3> QED BY <3>1, <3>2
    <2>2. IsFiniteSet(Upto(l))
      BY <1>4
    <2> HIDE DEF Upto
    <2> QED BY <2>1, <2>2, FS_Subset
  <1>6. rank \in [S -> 1..c] /\ \A i \in S : rank[i] = Cardinality(Upto(i))
    <2> HIDE DEF Upto, c
    <2> QED BY <1>4
  <1>7. \A i, l \in S : rank[i] = rank[l] => i = l
    <2>1. \A i, l \in S : i < l \/ l < i \/ i = l
      OBVIOUS
    <2> HIDE DEF rank, Upto
    <2> QED BY <1>5, <1>6, <2>1
  <1> HIDE DEF c
  <1>8. rank \in Injection(S, 1..c)
    <2> HIDE DEF rank
    <2> QED BY <1>6, <1>7 DEF Injection, IsInjective
  <1>9. IsFiniteSet(1..c) /\ Cardinality(1..c) = c
    BY <1>3, FS_Interval DEF c
  <1>10. rank \in Surjection(S, 1..c)
    <2> HIDE DEF rank
    <2> QED BY <1>8, <1>9, FS_Injection DEF c
  <1>11. \A k \in 1..c : \E i \in S : rank[i] = k
    <2> HIDE DEF rank
    <2> QED BY <1>10 DEF Surjection
  <1>12. \A k \in 1..c : Nth(S, k) \in S /\ rank[Nth(S, k)] = k
    <2> TAKE k \in 1..c
    <2>1. \E i \in S : Cardinality({j \in S : j <= i}) = k
      BY <1>11
    <2>2. Nth(S, k) \in S /\ Cardinality({j \in S : j <= Nth(S, k)}) = k
      BY <2>1 DEF Nth
    <2> QED BY <2>2
  <1>13. \A i \in S : \E k \in 1..c : Nth(S, k) = i
    <2> TAKE i \in S
    <2>1. rank[i] \in 1..c
      BY <1>6
    <2> HIDE DEF rank
    <2>2. Nth(S, rank[i]) \in S /\ rank[Nth(S, rank[i])] = rank[i]
      BY <1>12, <2>1
    <2> QED BY <1>7, <2>1, <2>2
  <1> HIDE DEF rank
  <1> QED BY <1>2, <1>3, <1>12, <1>13 DEF c

\* The fields of a vector, and its elements up to its size.
LEMMA VectorFields ==
    ASSUME NEW vec \in Vector
    PROVE  /\ vec.slots \in Seq(Transfers) /\ vec.size \in Nat /\ Len(vec.slots) \in Nat
           /\ vec.size <= Len(vec.slots) /\ DOMAIN vec.slots = 1..Len(vec.slots)
           /\ \A i \in 1..vec.size : i \in 1..Len(vec.slots) /\ vec.slots[i] \in Transfers
  <1>1. vec.slots \in Seq(Transfers) /\ vec.size \in Nat /\ vec.size <= Len(vec.slots)
    BY DEF Vector
  <1>2. Len(vec.slots) \in Nat /\ DOMAIN vec.slots = 1..Len(vec.slots)
    BY <1>1
  <1>3. \A i \in 1..vec.size : i \in 1..Len(vec.slots)
    BY <1>1, <1>2
  <1>4. \A i \in 1..Len(vec.slots) : vec.slots[i] \in Transfers
    BY <1>1
  <1> QED BY <1>1, <1>2, <1>3, <1>4

\* remove_all() takes one transfer out, and leaves the others and the memory.
LEMMA RemovedVector ==
    ASSUME NEW vec \in Vector, Distinct(vec), NEW t, NEW r, r = Removed(vec, t)
    PROVE  /\ r \in Vector /\ Distinct(r) /\ In(r) = In(vec) \ {t}
           /\ Len(r.slots) = Len(vec.slots)
  <1> DEFINE kept == {i \in 1..vec.size : vec.slots[i] # t}
             c == Cardinality(kept)
             q == [k \in DOMAIN vec.slots |-> vec.slots[IF k <= c THEN Nth(kept, k) ELSE k]]
  <1>1. /\ vec.slots \in Seq(Transfers) /\ vec.size \in Nat /\ Len(vec.slots) \in Nat
        /\ vec.size <= Len(vec.slots) /\ DOMAIN vec.slots = 1..Len(vec.slots)
        /\ \A i \in 1..vec.size : i \in 1..Len(vec.slots) /\ vec.slots[i] \in Transfers
    BY VectorFields
  <1>2. r = [slots |-> q, size |-> c]
    BY DEF Removed
  <1>3. kept \in SUBSET (1..vec.size)
    OBVIOUS
  <1>4. \A i \in 1..vec.size : i \in kept <=> vec.slots[i] # t
    OBVIOUS
  <1> HIDE DEF kept
  <1>5. /\ c \in Nat /\ c <= vec.size
        /\ \A k \in 1..c : Nth(kept, k) \in kept
        /\ \A k, l \in 1..c : Nth(kept, k) = Nth(kept, l) => k = l
        /\ \A i \in kept : \E k \in 1..c : Nth(kept, k) = i
    BY <1>1, <1>3, NthMember
  <1> HIDE DEF c
  <1>6. \A k \in 1..c : k \in 1..Len(vec.slots) /\ k <= c
    BY <1>1, <1>5
  <1>7. \A k \in 1..c : q[k] = vec.slots[Nth(kept, k)]
    BY <1>1, <1>6
  <1>8. q \in Seq(Transfers) /\ Len(q) = Len(vec.slots)
    <2>1. \A k \in 1..Len(vec.slots) : q[k] \in Transfers
      <3> TAKE k \in 1..Len(vec.slots)
      <3>1. CASE k <= c
        <4>1. k \in 1..c
          BY <1>5, <3>1
        <4>2. Nth(kept, k) \in 1..vec.size
          BY <1>3, <1>5, <4>1
        <4> QED BY <1>1, <1>7, <4>1, <4>2
      <3>2. CASE ~(k <= c)
        <4>1. q[k] = vec.slots[k]
          BY <1>1, <3>2
        <4> QED BY <1>1, <4>1
      <3> QED BY <3>1, <3>2
    <2>2. q \in [1..Len(vec.slots) -> Transfers]
      BY <1>1, <2>1
    <2> HIDE DEF q
    <2> QED BY <1>1, <2>2
  <1> HIDE DEF q
  <1>9. r \in Vector /\ r.slots = q /\ r.size = c
    BY <1>1, <1>2, <1>5, <1>8 DEF Vector
  <1>10. Distinct(r)
    <2> SUFFICES ASSUME NEW k \in 1..c, NEW l \in 1..c, q[k] = q[l] PROVE k = l
      BY <1>9 DEF Distinct
    <2>1. Nth(kept, k) \in 1..vec.size /\ Nth(kept, l) \in 1..vec.size
      BY <1>3, <1>5
    <2>2. Nth(kept, k) = Nth(kept, l)
      BY <1>7, <2>1 DEF Distinct
    <2> QED BY <1>5, <2>2
  <1>11. In(r) \subseteq In(vec) \ {t}
    <2> SUFFICES ASSUME NEW k \in 1..c PROVE q[k] \in In(vec) \ {t}
      BY <1>9 DEF In
    <2>1. Nth(kept, k) \in kept /\ Nth(kept, k) \in 1..vec.size
      BY <1>3, <1>5
    <2>2. vec.slots[Nth(kept, k)] # t
      BY <1>4, <2>1
    <2> QED BY <1>7, <2>1, <2>2 DEF In
  <1>12. In(vec) \ {t} \subseteq In(r)
    <2> SUFFICES ASSUME NEW i \in 1..vec.size, vec.slots[i] # t PROVE vec.slots[i] \in In(r)
      BY DEF In
    <2>1. PICK k \in 1..c : Nth(kept, k) = i
      BY <1>4, <1>5
    <2>2. q[k] = vec.slots[i]
      BY <1>7, <2>1
    <2> QED BY <1>9, <2>2 DEF In
  <1> QED BY <1>8, <1>9, <1>10, <1>11, <1>12

\* push_back() puts a new transfer behind the others.
LEMMA AppendedVector ==
    ASSUME NEW vec \in Vector, Distinct(vec), NEW t \in Transfers, t \notin In(vec),
           NEW r, r = [slots |-> Append(SubSeq(vec.slots, 1, vec.size), t),
                       size |-> vec.size + 1]
    PROVE  r \in Vector /\ Distinct(r) /\ In(r) = In(vec) \cup {t}
  <1> DEFINE n == vec.size
             m == SubSeq(vec.slots, 1, n)
             q == Append(m, t)
  <1>1. /\ vec.slots \in Seq(Transfers) /\ n \in Nat /\ n <= Len(vec.slots)
        /\ Len(vec.slots) \in Nat /\ \A i \in 1..n : vec.slots[i] \in Transfers
    BY VectorFields
  <1> HIDE DEF n
  <1>2. m \in Seq(Transfers) /\ Len(m) = n /\ \A i \in 1..n : m[i] = vec.slots[i]
    BY <1>1
  <1> HIDE DEF m
  <1>3. /\ q \in Seq(Transfers) /\ Len(q) = n + 1 /\ q[n + 1] = t
        /\ \A i \in 1..n : q[i] = vec.slots[i]
    BY <1>1, <1>2
  <1>4. r = [slots |-> q, size |-> n + 1]
    BY DEF m, n
  <1> HIDE DEF q
  <1>5. r.slots = q /\ r.size = n + 1 /\ r \in Vector
    BY <1>1, <1>3, <1>4 DEF Vector
  <1>6. \A i \in 1..n + 1 : i \in 1..n \/ i = n + 1
    BY <1>1
  <1>7. \A i \in 1..n : vec.slots[i] # t
    BY DEF In, n
  <1>8. Distinct(r)
    <2>1. ASSUME NEW k \in 1..n + 1, NEW l \in 1..n + 1, q[k] = q[l] PROVE k = l
      <3>1. CASE k \in 1..n /\ l \in 1..n
        <4>1. vec.slots[k] = vec.slots[l] => k = l
          BY <3>1 DEF Distinct, n
        <4>2. q[k] = vec.slots[k] /\ q[l] = vec.slots[l]
          BY <1>3, <3>1
        <4> QED BY <2>1, <4>1, <4>2
      <3>2. CASE k = n + 1 \/ l = n + 1
        BY <1>3, <1>6, <1>7, <2>1, <3>2
      <3> QED BY <1>6, <3>1, <3>2
    <2>2. r.slots = q /\ r.size = n + 1 /\ \A k, l \in 1..n + 1 : q[k] = q[l] => k = l
      BY <1>5, <2>1
    <2> QED BY ONLY <2>2 DEF Distinct
  <1>9. In(r) \subseteq In(vec) \cup {t}
    <2> SUFFICES ASSUME NEW i \in 1..n + 1 PROVE q[i] \in In(vec) \cup {t}
      BY <1>5 DEF In
    <2>1. CASE i \in 1..n
      <3>1. q[i] = vec.slots[i]
        BY <1>3, <2>1
      <3> QED BY <2>1, <3>1 DEF In, n
    <2>2. CASE i = n + 1
      BY <1>3, <2>2
    <2> QED BY <1>6, <2>1, <2>2
  <1>10. In(vec) \subseteq In(r)
    <2> SUFFICES ASSUME NEW i \in 1..n PROVE vec.slots[i] \in In(r)
      BY DEF In, n
    <2>1. i \in 1..n + 1 /\ q[i] = vec.slots[i]
      BY <1>1, <1>3
    <2> QED BY <1>5, <2>1 DEF In
  <1>11. t \in In(r)
    <2>1. n + 1 \in 1..n + 1
      BY <1>1
    <2> QED BY <1>3, <1>5, <2>1 DEF In
  <1> QED BY <1>5, <1>8, <1>9, <1>10, <1>11


\* The vectors of the model.
LEMMA TheVectors ==
    ASSUME TransfersTypeOK
    PROVE  /\ transfers \in [Vectors -> Vector]
           /\ "x11_to_wl" \in Vectors /\ "wl_to_x11" \in Vectors
           /\ \A v \in Vectors : /\ Members(v) \in Seq(Transfers)
                                 /\ Len(Members(v)) = transfers[v].size
                                 /\ ToSet(Members(v)) = In(transfers[v])
                                 /\ IsInjective(Members(v)) <=> Distinct(transfers[v])
                                 /\ \A t : (\E i \in 1..transfers[v].size : Members(v)[i] = t)
                                             <=> t \in In(transfers[v])
  <1>1. transfers \in [Vectors -> Vector]
    BY DEF TransfersTypeOK, Vector
  <1>2. \A v \in Vectors : /\ Members(v) \in Seq(Transfers)
                           /\ Len(Members(v)) = transfers[v].size
                           /\ \A i \in 1..transfers[v].size :
                                 Members(v)[i] = transfers[v].slots[i]
    <2> TAKE v \in Vectors
    <2>1. transfers[v] \in Vector
      BY <1>1
    <2> DEFINE n == transfers[v].size
               q == transfers[v].slots
    <2>2. q \in Seq(Transfers) /\ n \in Nat /\ Len(q) \in Nat /\ n <= Len(q)
      BY <2>1, VectorFields
    <2>3. Members(v) = SubSeq(q, 1, n)
      BY DEF Members
    <2> HIDE DEF n, q
    <2>4. SubSeq(q, 1, n) \in Seq(Transfers) /\ Len(SubSeq(q, 1, n)) = n
          /\ \A i \in 1..n : SubSeq(q, 1, n)[i] = q[i]
      BY <2>2
    <2> QED BY <2>3, <2>4 DEF n, q
  <1>3. \A v \in Vectors : DOMAIN Members(v) = 1..transfers[v].size
    <2> TAKE v \in Vectors
    <2>1. Members(v) \in Seq(Transfers) /\ Len(Members(v)) = transfers[v].size
      BY <1>2
    <2> QED BY <2>1
  <1>4. \A v \in Vectors : IsInjective(Members(v)) <=> Distinct(transfers[v])
    BY <1>2, <1>3 DEF IsInjective, Distinct
  <1>5. \A v \in Vectors : ToSet(Members(v)) = In(transfers[v])
    <2> TAKE v \in Vectors
    <2>1. DOMAIN Members(v) = 1..transfers[v].size
      BY <1>3
    <2>2. \A i \in 1..transfers[v].size : Members(v)[i] = transfers[v].slots[i]
      BY <1>2
    <2> QED BY <2>1, <2>2 DEF ToSet, In
  <1>6. \A v \in Vectors : \A t :
          (\E i \in 1..transfers[v].size : Members(v)[i] = t) <=> t \in In(transfers[v])
    BY <1>2 DEF In
  <1> QED BY <1>1, <1>2, <1>4, <1>5, <1>6 DEF Vectors

\* A vector has members just if its size is not 0.
LEMMA InEmpty ==
    ASSUME NEW vec \in Vector
    PROVE  vec.size > 0 <=> In(vec) # {}
  <1>1. vec.size \in Nat
    BY VectorFields
  <1>2. vec.size > 0 <=> 1 \in 1..vec.size
    BY <1>1
  <1>3. 1..vec.size # {} => 1 \in 1..vec.size
    BY <1>1
  <1> QED BY <1>2, <1>3 DEF In

--------------------------------------------------------------------------------
(****************************************************************************)
(* The steps.                                                               *)
(****************************************************************************)
\* The handler of finished() takes a transfer that lives out of its vector.
LEMMA FinishedStep ==
    ASSUME TransfersInv, NEW t \in Transfers, life[t] = "alive", finished(t)
    PROVE  /\ transfers' \in [Vectors -> Vector]
           /\ \A v \in Vectors : Len(transfers'[v].slots) = Len(transfers[v].slots)
           /\ life' \in [Transfers -> {"new", "alive", "deleted"}]
           /\ timer' \in BOOLEAN
           /\ Exact' /\ TimerIffTransfers'
  <1>1. /\ transfers \in [Vectors -> Vector] /\ \A v \in Vectors : Distinct(transfers[v])
        /\ life \in [Transfers -> {"new", "alive", "deleted"}]
    BY TheVectors DEF TransfersInv, Exact, TransfersTypeOK
  <1>2. life' = [life EXCEPT ![t] = "deleted"]
    BY DEF finished
  <1>3. life' \in [Transfers -> {"new", "alive", "deleted"}] /\ Alive' = Alive \ {t}
    BY <1>1, <1>2 DEF Alive
  <1>4. \A v \in Vectors :
          transfers'[v] = IF t \in In(transfers[v]) THEN Removed(transfers[v], t)
                          ELSE transfers[v]
    <2>1. transfers' = [v \in Vectors |-> IF \E i \in 1..transfers[v].size : Members(v)[i] = t
                                           THEN Removed(transfers[v], t) ELSE transfers[v]]
      BY DEF finished
    <2>2. \A v \in Vectors : (\E i \in 1..transfers[v].size : Members(v)[i] = t)
                               <=> t \in In(transfers[v])
      BY TheVectors DEF TransfersInv
    <2> QED BY <2>1, <2>2
  <1>5. \A v \in Vectors : /\ transfers'[v] \in Vector /\ Distinct(transfers'[v])
                           /\ In(transfers'[v]) = In(transfers[v]) \ {t}
                           /\ Len(transfers'[v].slots) = Len(transfers[v].slots)
    <2> TAKE v \in Vectors
    <2>1. transfers[v] \in Vector /\ Distinct(transfers[v])
      BY <1>1
    <2>2. CASE t \in In(transfers[v])
      <3>1. transfers'[v] = Removed(transfers[v], t)
        BY <1>4, <2>2
      <3> QED BY <2>1, <3>1, RemovedVector
    <2>3. CASE t \notin In(transfers[v])
      <3>1. transfers'[v] = transfers[v]
        BY <1>4, <2>3
      <3> QED BY <2>1, <2>3, <3>1
    <2> QED BY <2>2, <2>3
  <1>6. transfers' \in [Vectors -> Vector]
    <2>1. transfers' = [v \in Vectors |-> transfers'[v]]
      BY DEF finished
    <2> QED BY <1>5, <2>1
  <1>7. Exact'
    BY <1>3, <1>5, TheVectors DEF TransfersInv, Exact
  <1>8. timer' = (\E v \in Vectors : transfers'[v].size > 0)
    BY DEF finished, end_timeout_transfers_timer
  <1>9. (\E v \in Vectors : transfers'[v].size > 0) <=> Alive' # {}
    <2>1. \A v \in Vectors : transfers'[v].size > 0 <=> In(transfers'[v]) # {}
      BY <1>5, InEmpty
    <2>2. In(transfers'["x11_to_wl"]) \cup In(transfers'["wl_to_x11"]) = Alive'
      BY <1>7 DEF Exact
    <2> QED BY <2>1, <2>2 DEF Vectors
  <1>10. timer' \in BOOLEAN /\ TimerIffTransfers'
    BY <1>8, <1>9 DEF TimerIffTransfers
  <1> QED BY <1>3, <1>5, <1>6, <1>7, <1>10

\* What leaves the vectors, the objects and the timer alone.
LEMMA SameVectors ==
    ASSUME TransfersInv, UNCHANGED <<transfers, timer, life>>
    PROVE  Exact' /\ TimerIffTransfers'
  <1>1. Alive' = Alive
    BY DEF Alive
  <1> QED BY <1>1 DEF TransfersInv, Exact, TimerIffTransfers



\* A transfer starts: it joins one vector, and the timer exists.
LEMMA StartInv == ASSUME TransfersInv, NEW t \in Transfers, NEW v \in Vectors, Start(t, v) PROVE TransfersInv'
  <1> DEFINE r == [slots |-> Append(SubSeq(transfers[v].slots, 1, transfers[v].size), t),
                   size |-> transfers[v].size + 1]
  <1>1. /\ transfers \in [Vectors -> Vector] /\ transfers[v] \in Vector
        /\ Distinct(transfers[v]) /\ life \in [Transfers -> {"new", "alive", "deleted"}]
    BY TheVectors DEF TransfersInv, Exact, TransfersTypeOK
  <1>2. t \notin Alive /\ \A u \in Vectors : t \notin In(transfers[u])
    BY DEF Start, Alive, TransfersInv, Exact, Vectors
  <1>3. life' = [life EXCEPT ![t] = "alive"] /\ transfers' = [transfers EXCEPT ![v] = r]
    BY DEF Start, Members
  <1>4. r \in Vector /\ Distinct(r) /\ In(r) = In(transfers[v]) \cup {t}
    BY <1>1, <1>2, AppendedVector
  <1> HIDE DEF r
  <1>5. /\ transfers' \in [Vectors -> Vector] /\ transfers'[v] = r
        /\ \A u \in Vectors \ {v} : transfers'[u] = transfers[u]
    BY <1>1, <1>3, <1>4
  <1>6. /\ life' \in [Transfers -> {"new", "alive", "deleted"}] /\ Alive' = Alive \cup {t}
    BY <1>1, <1>3 DEF Alive
  <1>7. Exact'
    <2>1. \A u \in Vectors : Distinct(transfers'[u])
      BY <1>4, <1>5 DEF TransfersInv, Exact
    <2>2. \A u \in Vectors : In(transfers'[u]) = In(transfers[u]) \cup (IF u = v THEN {t} ELSE {})
      BY <1>4, <1>5
    <2>3. v = "x11_to_wl" \/ v = "wl_to_x11"
      BY DEF Vectors
    <2> DEFINE A == In(transfers["x11_to_wl"])
               B == In(transfers["wl_to_x11"])
    <2>4. A \cap B = {} /\ A \cup B = Alive /\ t \notin A /\ t \notin B
      BY <1>2 DEF TransfersInv, Exact, Vectors
    <2>5. \/ In(transfers'["x11_to_wl"]) = A \cup {t} /\ In(transfers'["wl_to_x11"]) = B
          \/ In(transfers'["x11_to_wl"]) = A /\ In(transfers'["wl_to_x11"]) = B \cup {t}
      BY <2>2, <2>3 DEF Vectors
    <2> HIDE DEF A, B
    <2>6. /\ In(transfers'["x11_to_wl"]) \cap In(transfers'["wl_to_x11"]) = {}
          /\ In(transfers'["x11_to_wl"]) \cup In(transfers'["wl_to_x11"]) = Alive \cup {t}
      BY <2>4, <2>5
    <2> QED BY <1>6, <2>1, <2>6 DEF Exact
  <1>8. timer' = TRUE /\ TimerIffTransfers'
    BY <1>6 DEF Start, start_timeout_transfers_timer, TimerIffTransfers
  <1>9. SweepInside'
    BY DEF Start, Free, Idle, TransfersInv, SweepInside
  <1>10. TransfersTypeOK'
    <2>1. /\ transfers' \in [Vectors -> [slots: Seq(Transfers), size: Nat]]
          /\ \A u \in Vectors : transfers'[u].size <= Len(transfers'[u].slots)
      BY <1>5 DEF Vector
    <2> QED BY <1>6, <1>8, <2>1 DEF Start, TransfersInv, TransfersTypeOK
  <1> QED BY <1>7, <1>8, <1>9, <1>10 DEF TransfersInv

\* A transfer ends by itself.
LEMMA EndInv == ASSUME TransfersInv, NEW t \in Transfers, End(t) PROVE TransfersInv'
  <1>1. /\ transfers' \in [Vectors -> Vector]
        /\ life' \in [Transfers -> {"new", "alive", "deleted"}]
        /\ timer' \in BOOLEAN
        /\ Exact' /\ TimerIffTransfers'
    BY FinishedStep DEF End
  <1>2. SweepInside'
    BY DEF End, Free, Idle, TransfersInv, SweepInside
  <1>3. TransfersTypeOK'
    <2>1. /\ transfers' \in [Vectors -> [slots: Seq(Transfers), size: Nat]]
          /\ \A u \in Vectors : transfers'[u].size <= Len(transfers'[u].slots)
      BY <1>1 DEF Vector
    <2> QED BY <1>1, <2>1 DEF End, TransfersInv, TransfersTypeOK
  <1> QED BY <1>1, <1>2, <1>3 DEF TransfersInv

\* Progress leaves the vectors alone, whichever transfer makes it.
LEMMA ProgressInv ==
    ASSUME TransfersInv, UNCHANGED <<transfers, timer, life, request, sweep, used_deleted, early>>,
           misled' \in BOOLEAN,
           \/ \E t : Progress(t)
           \/ UNCHANGED <<activity, timed_out, marked>>
    PROVE  TransfersInv'
  <1>1. Exact' /\ TimerIffTransfers'
    BY SameVectors
  <1>2. SweepInside'
    BY DEF TransfersInv, SweepInside
  <1>3. /\ activity' \in [Transfers -> 0..MaxActivity] /\ timed_out' \in [Transfers -> BOOLEAN]
        /\ marked' \subseteq Transfers
    <2>1. ASSUME NEW t, Progress(t)
          PROVE  /\ activity' \in [Transfers -> 0..MaxActivity]
                 /\ timed_out' \in [Transfers -> BOOLEAN]
                 /\ marked' \subseteq Transfers
      <3>1. timed_out' \in [Transfers -> BOOLEAN] /\ marked' \subseteq Transfers
        BY <2>1 DEF Progress, TransfersInv, TransfersTypeOK
      <3>2. activity' \in [Transfers -> 0..MaxActivity]
        <4>1. activity \in [Transfers -> 0..1] /\ activity[t] < 1
          BY <2>1 DEF Progress, TransfersInv, TransfersTypeOK, MaxActivity
        <4>2. t \in Transfers => activity[t] + 1 \in 0..1
          BY <4>1
        <4>3. activity' = [activity EXCEPT ![t] = activity[t] + 1]
          BY <2>1 DEF Progress
        <4> QED BY <4>1, <4>2, <4>3 DEF MaxActivity
      <3> QED BY <3>1, <3>2
    <2> QED BY <2>1 DEF TransfersInv, TransfersTypeOK
  <1>4. TransfersTypeOK'
    BY <1>3 DEF TransfersInv, TransfersTypeOK
  <1> QED BY <1>1, <1>2, <1>4 DEF TransfersInv

\* A transfer makes progress on its descriptor.
LEMMA ActivityInv == ASSUME TransfersInv, NEW t \in Transfers, Activity(t) PROVE TransfersInv'
  <1>1. misled' \in BOOLEAN
    BY DEF Activity, TransfersInv, TransfersTypeOK
  <1> QED BY <1>1, ProgressInv DEF Activity

\* A property event is dispatched, to whichever transfer takes it.
LEMMA PropertyDeletedInv == ASSUME TransfersInv, NEW r \in Requests, PropertyDeleted(r) PROVE TransfersInv'
  <1> DEFINE t == Head(SelectSeq(Members("wl_to_x11"), LAMBDA u : request[u][1] = r[1]))
  <1>1. /\ UNCHANGED <<transfers, timer, life, request, sweep, used_deleted, early>>
        /\ misled' = (misled \/ request[t] # r)
        /\ Progress(t) \/ UNCHANGED <<activity, timed_out, marked>>
    BY DEF PropertyDeleted
  <1> HIDE DEF t
  <1>2. misled' \in BOOLEAN
    BY <1>1
  <1> QED BY <1>1, <1>2, ProgressInv

\* The timer fires, and the loop over the first vector fixes its end.
LEMMA SweepStartsInv == TransfersInv /\ SweepStarts => TransfersInv'
  <1> SUFFICES ASSUME TransfersInv, SweepStarts PROVE TransfersInv'
    OBVIOUS
  <1>1. Exact' /\ TimerIffTransfers'
    BY SameVectors DEF SweepStarts
  <1>2. marked' \subseteq Transfers
    BY DEF SweepStarts, Alive
  <1>3. transfers["x11_to_wl"] \in Vector /\ "x11_to_wl" \in Vectors
    BY TheVectors DEF TransfersInv
  <1> DEFINE n == transfers["x11_to_wl"].size
  <1>4. n \in Nat /\ n <= Len(transfers["x11_to_wl"].slots)
    BY <1>3, VectorFields
  <1>5. sweep' = [vector |-> "x11_to_wl", i |-> 1, end |-> n] /\ transfers' = transfers
    BY DEF SweepStarts, Loop
  <1> HIDE DEF n
  <1>6. SweepInside'
    BY <1>3, <1>4, <1>5 DEF SweepInside
  <1>7. TransfersTypeOK'
    BY <1>2, <1>3, <1>4, <1>5 DEF SweepStarts, TransfersInv, TransfersTypeOK
  <1> QED BY <1>1, <1>6, <1>7 DEF TransfersInv

\* The sweep goes on to the other vector, or ends.
LEMMA SweepGoesOnInv == TransfersInv /\ SweepGoesOn => TransfersInv'
  <1> SUFFICES ASSUME TransfersInv, SweepGoesOn PROVE TransfersInv'
    OBVIOUS
  <1>1. Exact' /\ TimerIffTransfers'
    BY SameVectors DEF SweepGoesOn
  <1>2. transfers["wl_to_x11"] \in Vector /\ "wl_to_x11" \in Vectors
    BY TheVectors DEF TransfersInv
  <1> DEFINE n == transfers["wl_to_x11"].size
  <1>3. n \in Nat /\ n <= Len(transfers["wl_to_x11"].slots)
    BY <1>2, VectorFields
  <1>4. /\ \/ sweep' = [vector |-> "wl_to_x11", i |-> 1, end |-> n]
           \/ sweep' = [vector |-> "none", i |-> 0, end |-> 0]
        /\ transfers' = transfers
    BY DEF SweepGoesOn, Loop, Idle
  <1> HIDE DEF n
  <1>5. SweepInside'
    BY <1>2, <1>3, <1>4 DEF SweepInside
  <1>6. TransfersTypeOK'
    BY <1>2, <1>3, <1>4 DEF SweepGoesOn, TransfersInv, TransfersTypeOK
  <1> QED BY <1>1, <1>5, <1>6 DEF TransfersInv

\* The slot the loop is at is one of its vector's memory.
LEMMA CurrentInside ==
    ASSUME TransfersInv, sweep.vector # "none", sweep.i <= sweep.end
    PROVE  Current \in Transfers /\ sweep.vector \in Vectors
  <1>1. sweep.vector \in Vectors /\ sweep.i \in Nat /\ sweep.end \in Nat /\ sweep.i >= 1
        /\ sweep.end <= Len(transfers[sweep.vector].slots)
    BY DEF TransfersInv, SweepInside
  <1>2. transfers[sweep.vector] \in Vector
    BY <1>1, TheVectors DEF TransfersInv
  <1>3. /\ transfers[sweep.vector].slots \in Seq(Transfers)
        /\ Len(transfers[sweep.vector].slots) \in Nat
    BY <1>2, VectorFields
  <1>4. sweep.i \in 1..Len(transfers[sweep.vector].slots)
    BY <1>1, <1>3
  <1> QED BY <1>1, <1>3, <1>4 DEF Current

\* The sweep marks the transfer in its slot, or ends it and shrinks the vector it runs over.
LEMMA SweepVisitsInv == TransfersInv /\ SweepVisits => TransfersInv'
  <1> SUFFICES ASSUME TransfersInv, SweepVisits PROVE TransfersInv'
    OBVIOUS
  <1> DEFINE t == Current
  <1>1. t \in Transfers /\ sweep.vector \in Vectors /\ life[t] = "alive"
    BY CurrentInside DEF SweepVisits
  <1>2. \/ finished(t) /\ early' = (early \/ t \notin marked)
        \/ UNCHANGED <<life, transfers, timer, early>>
    BY DEF SweepVisits
  <1>3. /\ timed_out' = [timed_out EXCEPT ![t] = TRUE]
        /\ UNCHANGED <<request, activity, marked, used_deleted, misled>>
        /\ sweep' = [sweep EXCEPT !.i = @ + 1]
    BY DEF SweepVisits
  <1> HIDE DEF t
  <1>4. /\ transfers' \in [Vectors -> Vector]
        /\ \A v \in Vectors : Len(transfers'[v].slots) = Len(transfers[v].slots)
        /\ life' \in [Transfers -> {"new", "alive", "deleted"}]
        /\ timer' \in BOOLEAN /\ early' \in BOOLEAN
        /\ Exact' /\ TimerIffTransfers'
    <2>1. CASE finished(t) /\ early' = (early \/ t \notin marked)
      BY <1>1, <2>1, FinishedStep
    <2>2. CASE UNCHANGED <<life, transfers, timer, early>>
      BY <2>2, SameVectors, TheVectors DEF TransfersInv, TransfersTypeOK
    <2> QED BY <1>2, <2>1, <2>2
  <1>5. /\ sweep' \in [vector: Vectors \cup {"none"}, i: Nat, end: Nat]
        /\ sweep'.vector = sweep.vector /\ sweep'.i = sweep.i + 1 /\ sweep'.end = sweep.end
        /\ sweep.i \in Nat
    BY <1>3 DEF TransfersInv, SweepInside
  <1>6. SweepInside'
    <2>1. sweep'.i >= 1
      BY <1>5
    <2> QED BY <1>1, <1>4, <1>5, <2>1 DEF TransfersInv, SweepInside
  <1>7. TransfersTypeOK'
    <2>1. /\ transfers' \in [Vectors -> [slots: Seq(Transfers), size: Nat]]
          /\ \A u \in Vectors : transfers'[u].size <= Len(transfers'[u].slots)
      BY <1>4 DEF Vector
    <2>2. timed_out' \in [Transfers -> BOOLEAN]
      BY <1>3 DEF TransfersInv, TransfersTypeOK
    <2>3. sweep'.vector \in Vectors \cup {"none"} /\ sweep'.i \in Nat /\ sweep'.end \in Nat
      BY <1>5
    <2> QED BY <1>3, <1>4, <2>1, <2>2, <2>3 DEF TransfersInv, TransfersTypeOK
  <1> QED BY <1>4, <1>6, <1>7 DEF TransfersInv

\* The sweep meets a transfer that is gone in the memory behind the end.
LEMMA SweepVisitsDeletedInv == TransfersInv /\ SweepVisitsDeleted => TransfersInv'
  <1> SUFFICES ASSUME TransfersInv, SweepVisitsDeleted PROVE TransfersInv'
    OBVIOUS
  <1>1. Exact' /\ TimerIffTransfers'
    BY SameVectors DEF SweepVisitsDeleted
  <1> QED BY <1>1 DEF SweepVisitsDeleted, TransfersInv, TransfersTypeOK, SweepInside

--------------------------------------------------------------------------------
(****************************************************************************)
(* The theorems.                                                            *)
(****************************************************************************)
\* The invariant holds from the start, whichever transfers start, end, are active or
\* swept, and in whichever order.
THEOREM TransfersInvariance == TransfersSpec => []TransfersInv
<1>1. TransfersInit => TransfersInv
  <2> SUFFICES ASSUME TransfersInit PROVE TransfersInv
    OBVIOUS
  <2>1. \A v \in Vectors : /\ transfers[v] = Empty /\ transfers[v].slots = <<>>
                           /\ transfers[v].size = 0
    BY DEF TransfersInit, Empty
  <2>2. Empty \in [slots: Seq(Transfers), size: Nat] /\ 0 <= Len(<<>>)
    BY DEF Empty
  <2>3. Alive = {} /\ \A v \in Vectors : In(transfers[v]) = {} /\ Distinct(transfers[v])
    BY <2>1 DEF TransfersInit, Alive, In, Distinct
  <2>4. SweepInside
    BY DEF TransfersInit, Idle, SweepInside
  <2>5. TransfersTypeOK
    <3>1. /\ transfers \in [Vectors -> [slots: Seq(Transfers), size: Nat]]
          /\ \A v \in Vectors : transfers[v].size <= Len(transfers[v].slots)
      BY <2>1, <2>2 DEF TransfersInit
    <3>2. /\ life \in [Transfers -> {"new", "alive", "deleted"}]
          /\ timed_out \in [Transfers -> BOOLEAN] /\ request \in [Transfers -> Requests]
          /\ activity \in [Transfers -> 0..MaxActivity] /\ marked \subseteq Transfers
      BY DEF TransfersInit, MaxActivity
    <3>3. /\ sweep.vector \in Vectors \cup {"none"} /\ sweep.i \in Nat /\ sweep.end \in Nat
      BY DEF TransfersInit, Idle
    <3> QED BY <3>1, <3>2, <3>3 DEF TransfersInit, TransfersTypeOK
  <2>6. Exact /\ TimerIffTransfers
    BY <2>3 DEF TransfersInit, Exact, TimerIffTransfers, Vectors
  <2> QED BY <2>4, <2>5, <2>6 DEF TransfersInv
<1>2. TransfersInv /\ [TransfersNext]_transfersVars => TransfersInv'
  <2> SUFFICES ASSUME TransfersInv, [TransfersNext]_transfersVars PROVE TransfersInv'
    OBVIOUS
  <2>1. CASE UNCHANGED transfersVars
    <3>1. Exact' /\ TimerIffTransfers'
      BY <2>1, SameVectors DEF transfersVars
    <3> QED BY <2>1, <3>1 DEF transfersVars, TransfersInv, TransfersTypeOK, SweepInside
  <2>2. CASE Sweep
    BY <2>2, SweepStartsInv, SweepVisitsInv, SweepVisitsDeletedInv, SweepGoesOnInv DEF Sweep
  <2> QED BY <2>1, <2>2, StartInv, EndInv, ActivityInv, PropertyDeletedInv DEF TransfersNext
<1> QED BY <1>1, <1>2, PTL DEF TransfersSpec

\* The variables have their types; a vector's size is within its memory.
THEOREM TransfersTypeCorrect == TransfersSpec => []TransfersTypeOK
<1>1. TransfersInv => TransfersTypeOK
  BY DEF TransfersInv
<1> QED BY <1>1, TransfersInvariance, PTL

\* start_transfer_to_x11(), start_transfer_to_wayland(), the handlers of finished() and
\* the sweep keep the vectors and the objects together: each transfer that lives is in
\* one vector, once, and no deleted one is in any.
THEOREM VectorsHoldTheLiving == TransfersSpec => []VectorsExact
<1>1. TransfersInv => VectorsExact
  BY TheVectors DEF TransfersInv, Exact, VectorsExact
<1> QED BY <1>1, TransfersInvariance, PTL

\* end_timeout_transfers_timer() ends the timer with the last transfer of both
\* directions, and never before.
THEOREM TimerWhileTransfers == TransfersSpec => []TimerIffTransfers
<1>1. TransfersInv => TimerIffTransfers
  BY DEF TransfersInv
<1> QED BY <1>1, TransfersInvariance, PTL

--------------------------------------------------------------------------------
(****************************************************************************)
(* The ownership of the selection.                                          *)
(****************************************************************************)
USE BoundsAssumption

\* What is in the queues at time n: no event and no disown is from the future.
Event(n) == [type: {"owner"}, owner: Owners, time: 0..n, ours: BOOLEAN]
              \cup [type: {"targets", "refusal"}]
RequestAt(n) == [type: {"own", "convert"}] \cup [type: {"disown"}, time: 0..n]

\* The server, the queues and what the bridge has learned of them.
QueueInv ==
    /\ disown_pending \in BOOLEAN /\ swallowed \in BOOLEAN
    /\ now \in Nat /\ timestamp \in 0..now /\ owner \in Owners /\ lastChange \in 0..now
    /\ asked \subseteq XClients /\ targets \in [set: BOOLEAN, types: SUBSET Mimes]
    /\ events \in Seq(Event(now)) /\ requests \in Seq(RequestAt(now))

\* The seat and the bridge's sources.
SourceTypes ==
    /\ active \in {"none", "wayland", "x11"}
    /\ selection \in {"none", "native", "internal"} \X Nat
    /\ natives \in 0..MaxNative /\ wayland_source \in 0..MaxNative
    /\ internals \in Nat /\ source_int \in 0..internals /\ deleted \subseteq 1..internals
    /\ x11_source \in [exists: BOOLEAN, offers: SUBSET Mimes, source: 0..internals,
                      window: Owners]
    /\ active_window_notifier \in BOOLEAN /\ undefined \in BOOLEAN

\* A native selection is one that was made.
NativeMade == selection[1] = "native" => selection[2] \in 1..natives

\* An internal source that was deleted is not the seat's selection; this needs no
\* assumption on double deletion.
DeletedNotSelected == \A k \in deleted : selection # Internal(k)

SourceInv ==
    /\ SourceTypes /\ NativeMade /\ DeletedNotSelected
    /\ AtMostOneSource /\ Shielded /\ FollowsFocus

IInv == QueueInv /\ SourceInv

--------------------------------------------------------------------------------
(****************************************************************************)
(* Queues.                                                                  *)
(****************************************************************************)

\* What is not from the future stays so.
LEMMA LaterTimes ==
    ASSUME NEW n \in Nat, NEW m \in Nat, n <= m
    PROVE  /\ Event(n) \subseteq Event(m) /\ RequestAt(n) \subseteq RequestAt(m)
           /\ Seq(Event(n)) \subseteq Seq(Event(m)) /\ Seq(RequestAt(n)) \subseteq Seq(RequestAt(m))
<1>1. Event(n) \subseteq Event(m) /\ RequestAt(n) \subseteq RequestAt(m)
  BY DEF Event, RequestAt
<1> QED BY <1>1

\* The queue without its first entry.
LEMMA TailOf ==
    ASSUME NEW S, NEW q \in Seq(S), q # <<>>
    PROVE  Tail(q) \in Seq(S) /\ Head(q) \in S
OBVIOUS

\* Appending keeps the type of a queue.
LEMMA AppendTo ==
    ASSUME NEW S, NEW q \in Seq(S), NEW e \in S
    PROVE  Append(q, e) \in Seq(S)
OBVIOUS

\* The server gives the selection away: the event has the time of the change.
LEMMA OwnerSet ==
    ASSUME QueueInv, NEW w \in Owners, NEW t \in 0..(now + 1), NEW ours \in BOOLEAN,
           ServerSetsOwner(w, t, ours), requests' \in Seq(RequestAt(now)),
           asked' \subseteq XClients,
           UNCHANGED <<disown_pending, swallowed, timestamp, targets>>
    PROVE  QueueInv'
<1>1. now' = now + 1 /\ now \in Nat /\ now' \in Nat /\ now <= now' /\ owner' = w /\ lastChange' = t
      /\ events' = Append(events, OwnerEvent(w, ours))
  BY DEF ServerSetsOwner, QueueInv
<1>2. OwnerEvent(w, ours) \in Event(now')
  BY <1>1 DEF OwnerEvent, Event
<1>3. events \in Seq(Event(now')) /\ requests' \in Seq(RequestAt(now'))
  BY <1>1, LaterTimes DEF QueueInv
<1>4. events' \in Seq(Event(now'))
  BY <1>1, <1>2, <1>3, AppendTo
<1>5. lastChange' \in 0..now' /\ timestamp' \in 0..now'
  BY <1>1 DEF QueueInv
<1> QED BY <1>1, <1>3, <1>4, <1>5 DEF QueueInv

\* own_selection(): a claim, or a disown with the time of the last claim.
LEMMA OwnRequested ==
    ASSUME QueueInv, NEW own, own_selection(own)
    PROVE  requests' \in Seq(RequestAt(now)) /\ disown_pending' \in BOOLEAN
<1>1. requests \in Seq(RequestAt(now)) /\ timestamp \in 0..now /\ disown_pending \in BOOLEAN
  BY DEF QueueInv
<1>2. [type |-> "own"] \in RequestAt(now) /\ [type |-> "disown", time |-> timestamp] \in RequestAt(now)
  BY <1>1 DEF RequestAt
<1> QED BY <1>1, <1>2, AppendTo DEF own_selection, Request

\* A step of the bridge that leaves the server alone.
LEMMA BridgeQueues ==
    ASSUME QueueInv, UNCHANGED <<now, owner, lastChange, asked>>,
           events' \in Seq(Event(now)), requests' \in Seq(RequestAt(now)),
           disown_pending' \in BOOLEAN, swallowed' \in BOOLEAN, timestamp' \in 0..now,
           targets' \in [set: BOOLEAN, types: SUBSET Mimes]
    PROVE  QueueInv'
BY DEF QueueInv

\* The queues are type-correct after every step.
LEMMA NextQueues == IInv /\ [Next]_vars => QueueInv'
<1> SUFFICES ASSUME IInv, [Next]_vars PROVE QueueInv'
  OBVIOUS
<1>0. QueueInv /\ SourceTypes
  BY DEF IInv, SourceInv
<1>1. /\ now \in Nat /\ timestamp \in 0..now /\ owner \in Owners /\ lastChange \in 0..now
      /\ asked \subseteq XClients /\ targets \in [set: BOOLEAN, types: SUBSET Mimes]
      /\ events \in Seq(Event(now)) /\ requests \in Seq(RequestAt(now))
      /\ disown_pending \in BOOLEAN /\ swallowed \in BOOLEAN
  BY <1>0 DEF QueueInv
<1>2. Nobody \in Owners /\ Bridge \in Owners /\ XClients \subseteq Owners
  BY DEF Owners
<1>3. now + 1 \in 0..(now + 1) /\ lastChange \in 0..(now + 1)
  BY <1>1
<1>4. NoTargets \in [set: BOOLEAN, types: SUBSET Mimes]
  BY DEF NoTargets
<1>5. [type |-> "targets"] \in Event(now) /\ [type |-> "refusal"] \in Event(now)
      /\ [type |-> "convert"] \in RequestAt(now)
  BY DEF Event, RequestAt
<1>6. CASE Server
  <2>1. ASSUME NEW c \in XClients, XClientClaims(c) PROVE QueueInv'
    BY <1>0, <1>1, <1>2, <1>3, <2>1, OwnerSet DEF XClientClaims
  <2>2. ASSUME NEW c \in XClients, XClientExits(c) PROVE QueueInv'
    BY <1>0, <1>1, <1>2, <1>3, <2>2, OwnerSet DEF XClientExits
  <2>3. ASSUME NEW c \in XClients, XClientAnswers(c) PROVE QueueInv'
    <3>1. events' \in Seq(Event(now))
      BY <1>1, <1>5, <2>3, AppendTo DEF XClientAnswers
    <3>2. targets' \in [set: BOOLEAN, types: SUBSET Mimes] /\ asked' \subseteq XClients
      BY <1>1, <2>3 DEF XClientAnswers
    <3>3. UNCHANGED <<disown_pending, timestamp, swallowed, requests, now, owner, lastChange>>
      BY <2>3 DEF XClientAnswers
    <3> QED BY <1>0, <3>1, <3>2, <3>3 DEF QueueInv
  <2>4. CASE ServerOwns
    <3>1. requests' \in Seq(RequestAt(now))
      BY <1>1, <2>4, TailOf DEF ServerOwns
    <3> QED BY <1>0, <1>1, <1>2, <1>3, <2>4, <3>1, OwnerSet DEF ServerOwns
  <2>5. CASE ServerDisowns
    <3> DEFINE t == Head(requests).time
    <3>1. requests' \in Seq(RequestAt(now)) /\ Head(requests) \in RequestAt(now)
      BY <1>1, <2>5, TailOf DEF ServerDisowns
    <3>2. t \in 0..now
      BY <2>5, <3>1 DEF ServerDisowns, RequestAt
    <3>3. CASE t = 0 \/ t >= lastChange
      <4>1. (IF t = 0 THEN now + 1 ELSE t) \in 0..(now + 1)
        BY <1>1, <3>2
      <4>2. ServerSetsOwner(Nobody, IF t = 0 THEN now + 1 ELSE t, TRUE)
            /\ UNCHANGED <<disown_pending, swallowed, timestamp, asked, targets>>
        BY <2>5, <3>3 DEF ServerDisowns
      <4> HIDE DEF t
      <4> QED BY <1>0, <1>1, <1>2, <3>1, <4>1, <4>2, OwnerSet
    <3>4. CASE ~(t = 0 \/ t >= lastChange)
      <4>1. UNCHANGED <<now, owner, lastChange, events, disown_pending, swallowed, timestamp, asked,
                        targets>>
        BY <2>5, <3>4 DEF ServerDisowns
      <4> QED BY <1>0, <3>1, <4>1 DEF QueueInv
    <3> QED BY <3>3, <3>4
  <2>6. CASE ServerConverts
    <3>1. requests' \in Seq(RequestAt(now))
      BY <1>1, <2>6, TailOf DEF ServerConverts
    <3>2. events' \in Seq(Event(now))
      BY <1>1, <1>5, <2>6, AppendTo DEF ServerConverts
    <3>3. /\ asked' \subseteq XClients
          /\ UNCHANGED <<disown_pending, timestamp, swallowed, now, owner, lastChange, targets>>
      BY <1>1, <2>6 DEF ServerConverts
    <3> QED BY <1>0, <3>1, <3>2, <3>3 DEF QueueInv
  <2> QED BY <1>6, <2>1, <2>2, <2>3, <2>4, <2>5, <2>6 DEF Server
<1>7. ASSUME NEW i, NEW a, NEW had, handle_wl_selection_client_change(i, a, had)
      PROVE  requests' \in Seq(RequestAt(now)) /\ disown_pending' \in BOOLEAN
  BY <1>0, <1>1, <1>7, OwnRequested DEF handle_wl_selection_client_change, cleanup_wl_to_x11_source
<1>8. ASSUME SelectionRemoved
      PROVE  requests' \in Seq(RequestAt(now)) /\ disown_pending' \in BOOLEAN
  BY <1>0, <1>8, OwnRequested DEF SelectionRemoved, cleanup_wl_to_x11_source
<1>9. CASE Seat
  <2>1. UNCHANGED <<timestamp, swallowed, events, now, owner, lastChange, asked, targets>>
    BY <1>9 DEF Seat, WindowActivated, NativeSelection, NativeRemoved, serverVars
  <2>2. requests' \in Seq(RequestAt(now)) /\ disown_pending' \in BOOLEAN
    BY <1>1, <1>7, <1>8, <1>9 DEF Seat, WindowActivated, NativeSelection, NativeRemoved
  <2> QED BY <1>0, <1>1, <2>1, <2>2, BridgeQueues
<1>10. CASE XEvent
  <2>1. UNCHANGED <<now, owner, lastChange, asked>>
    BY <1>10 DEF XEvent, IgnoreOwner, ConfirmOwner, RejectOwner, AcceptOwner, HandleTargets,
                 DropTargets, HandleRefusal, serverVars
  <2>2. events # <<>> /\ events' = Tail(events)
    BY <1>10 DEF XEvent, IgnoreOwner, ConfirmOwner, RejectOwner, AcceptOwner, HandleTargets,
                 DropTargets, HandleRefusal, NextEvent
  <2>3. events' \in Seq(Event(now)) /\ Head(events) \in Event(now)
    BY <1>1, <2>2, TailOf
  <2>4. targets' \in [set: BOOLEAN, types: SUBSET Mimes]
    BY <1>1, <1>4, <1>10 DEF XEvent, IgnoreOwner, ConfirmOwner, RejectOwner, AcceptOwner,
                             HandleTargets, DropTargets, HandleRefusal, serverVars
  <2>5. swallowed' \in BOOLEAN
    BY <1>1, <1>10 DEF XEvent, IgnoreOwner, ConfirmOwner, RejectOwner, AcceptOwner,
                       HandleTargets, DropTargets, HandleRefusal
  <2>6. timestamp' \in 0..now
    <3>1. CASE ConfirmOwner
      <4>1. Head(events).type = "owner" /\ timestamp' = Head(events).time
        BY <3>1 DEF ConfirmOwner, NextEvent
      <4> QED BY <2>3, <4>1 DEF Event
    <3>2. CASE timestamp' = timestamp
      BY <1>1, <3>2
    <3> QED BY <1>10, <3>1, <3>2 DEF XEvent, IgnoreOwner, RejectOwner, AcceptOwner,
                                     HandleTargets, DropTargets, HandleRefusal
  <2>7. requests' \in Seq(RequestAt(now)) /\ disown_pending' \in BOOLEAN
    <3>1. CASE UNCHANGED requests /\ disown_pending' \in {FALSE, disown_pending}
      BY <1>1, <3>1
    <3>2. CASE IgnoreOwner \/ ConfirmOwner \/ DropTargets \/ HandleRefusal
      BY <3>1, <3>2 DEF IgnoreOwner, ConfirmOwner, DropTargets, HandleRefusal
    <3>3. CASE RejectOwner
      BY <1>8, <3>1, <3>3 DEF RejectOwner
    <3>4. CASE AcceptOwner
      BY <1>1, <1>5, <3>4, AppendTo DEF AcceptOwner, Request
    <3>5. CASE HandleTargets
      BY <1>8, <3>1, <3>5 DEF HandleTargets, handle_x11_offer_change, ReplaceInternal
    <3> QED BY <1>10, <3>2, <3>3, <3>4, <3>5 DEF XEvent
  <2> QED BY <1>0, <2>1, <2>3, <2>4, <2>5, <2>6, <2>7, BridgeQueues
<1>11. CASE UNCHANGED vars
  BY <1>0, <1>11 DEF vars, serverVars, QueueInv
<1> QED BY <1>6, <1>9, <1>10, <1>11 DEF Next


--------------------------------------------------------------------------------
(****************************************************************************)
(* Sources.                                                                 *)
(****************************************************************************)
X11Sources(n) == [exists: BOOLEAN, offers: SUBSET Mimes, source: 0..n, window: Owners]

\* The value for "no X11 source" is one of every time.
LEMMA NoSourceIs ==
    /\ \A n \in Nat : NoSource \in X11Sources(n)
    /\ NoSource.exists = FALSE /\ NoSource.source = 0
BY DEF NoSource, X11Sources, Owners

\* Changes of the members of an x11_source.
LEMMA X11SourceChanged ==
    ASSUME NEW n \in Nat, NEW s \in X11Sources(n), NEW T \in SUBSET Mimes
    PROVE  /\ [s EXCEPT !.offers = T] \in X11Sources(n)
           /\ [s EXCEPT !.offers = T].exists = s.exists
           /\ [s EXCEPT !.offers = T, !.source = n + 1] \in X11Sources(n + 1)
           /\ [s EXCEPT !.offers = T, !.source = n + 1].exists = s.exists
           /\ \A w \in Owners : [NoSource EXCEPT !.exists = TRUE, !.window = w] \in X11Sources(n)
           /\ s.source \in 0..n /\ s.exists \in BOOLEAN
<1>1. s.source \in 0..n /\ s.exists \in BOOLEAN
  BY DEF X11Sources
<1>2. [s EXCEPT !.offers = T] \in X11Sources(n) /\ [s EXCEPT !.offers = T].exists = s.exists
  BY DEF X11Sources
<1>3. /\ [s EXCEPT !.offers = T, !.source = n + 1] \in X11Sources(n + 1)
      /\ [s EXCEPT !.offers = T, !.source = n + 1].exists = s.exists
  <2>1. n + 1 \in 0..(n + 1) /\ 0..n \subseteq 0..(n + 1)
    OBVIOUS
  <2> QED BY <2>1 DEF X11Sources
<1>4. \A w \in Owners : [NoSource EXCEPT !.exists = TRUE, !.window = w] \in X11Sources(n)
  <2>1. \A v \in X11Sources(n), w \in Owners :
          [v EXCEPT !.exists = TRUE, !.window = w] \in X11Sources(n)
    BY DEF X11Sources
  <2> QED BY <2>1, NoSourceIs
<1> QED BY <1>1, <1>2, <1>3, <1>4

\* The bridge's own variables do not change.
LEMMA SourcesStay ==
    ASSUME SourceInv, UNCHANGED <<active, seatVars, sourceVars>>
    PROVE  SourceInv'
<1>1. UNCHANGED <<active, selection, active_window_notifier, natives, wayland_source, x11_source,
                  source_int, deleted, internals, undefined>>
  BY DEF seatVars, sourceVars
<1> QED BY <1>1 DEF SourceInv, SourceTypes, NativeMade, DeletedNotSelected, AtMostOneSource,
                    Shielded, FollowsFocus

\* The seat's selection stays, and an x11_source is made, changed or goes beside no
\* Wayland source.
LEMMA X11SourceStep ==
    ASSUME SourceInv, UNCHANGED <<active, selection, active_window_notifier, natives, internals,
                                  undefined>>,
           x11_source' \in X11Sources(internals), wayland_source' \in {0, wayland_source},
           ~x11_source'.exists \/ wayland_source' = 0,
           source_int' \in {0, source_int},
           deleted' \subseteq deleted \cup ({source_int} \ {0}),
           \A k \in deleted' : selection # Internal(k)
    PROVE  SourceInv'
<1>1. SourceTypes'
  <2>1. SourceTypes
    BY DEF SourceInv
  <2>2. deleted' \subseteq 1..internals /\ source_int' \in 0..internals
    BY <2>1 DEF SourceTypes
  <2>3. wayland_source' \in 0..MaxNative
    BY <2>1 DEF SourceTypes
  <2> QED BY <2>1, <2>2, <2>3 DEF SourceTypes, X11Sources
<1>2. NativeMade' /\ DeletedNotSelected' /\ AtMostOneSource' /\ FollowsFocus'
  BY DEF SourceInv, NativeMade, DeletedNotSelected, AtMostOneSource, FollowsFocus
<1>3. Shielded'
  BY DEF SourceInv, Shielded
<1> QED BY <1>1, <1>2, <1>3 DEF SourceInv

\* The seat's selection goes, and the bridge's sources with it.
LEMMA RemovedStep ==
    ASSUME SourceInv, SelectionRemoved, UNCHANGED <<active, internals, undefined>>,
           source_int' \in {0, source_int}, deleted' \subseteq deleted \cup ({source_int} \ {0})
    PROVE  SourceInv'
<1>1. /\ selection' = <<"none", 0>> /\ active_window_notifier' = FALSE /\ wayland_source' = 0
      /\ x11_source' = NoSource /\ natives' = natives
  BY DEF SelectionRemoved, cleanup_wl_to_x11_source, set_wl_source, NoSelection
<1>2. SourceTypes'
  <2>1. SourceTypes
    BY DEF SourceInv
  <2>2. deleted' \subseteq 1..internals /\ source_int' \in 0..internals
    BY <2>1 DEF SourceTypes
  <2>3. x11_source' \in X11Sources(internals')
    BY <1>1, <2>1, NoSourceIs DEF SourceTypes
  <2>4. selection' \in {"none", "native", "internal"} \X Nat /\ wayland_source' \in 0..MaxNative
    BY <1>1
  <2>5. natives' \in 0..MaxNative /\ active_window_notifier' \in BOOLEAN
    BY <1>1, <2>1 DEF SourceTypes
  <2> QED BY <2>1, <2>2, <2>3, <2>4, <2>5 DEF SourceTypes, X11Sources
<1>3. NativeMade' /\ FollowsFocus'
  BY <1>1 DEF NativeMade, FollowsFocus
<1>4. AtMostOneSource' /\ Shielded'
  BY <1>1 DEF AtMostOneSource, Shielded
<1>5. DeletedNotSelected'
  BY <1>1 DEF DeletedNotSelected, Internal
<1> QED BY <1>2, <1>3, <1>4, <1>5 DEF SourceInv

\* handle_wl_selection_client_change() shields the source when the active window is not
\* an X client's, keeps the one there was, or makes one.
LEMMA ClientChange ==
    ASSUME NEW i, NEW a, NEW had, handle_wl_selection_client_change(i, a, had)
    PROVE  \/ a # "x11" /\ wayland_source' = 0 /\ x11_source' \in {x11_source, NoSource}
           \/ a = "x11" /\ had # 0 /\ wayland_source' = had /\ x11_source' = x11_source
           \/ a = "x11" /\ had = 0 /\ wayland_source' = i /\ x11_source' = NoSource
BY DEF handle_wl_selection_client_change, cleanup_wl_to_x11_source, set_wl_source

\* A window is activated (handle_wl_selection_client_change()).
LEMMA ActivationStep ==
    ASSUME SourceInv, NEW a \in {"none", "wayland", "x11"}, WindowActivated(a)
    PROVE  SourceInv'
<1>1. /\ active' = a
      /\ UNCHANGED <<selection, active_window_notifier, natives, source_int, deleted, internals,
                     undefined>>
  BY DEF WindowActivated, seatVars
<1>2. SourceTypes
  BY DEF SourceInv
<1>3. CASE active_window_notifier
  <2>1. selection[1] = "native" /\ selection[2] \in 1..natives
        /\ selection = Native(selection[2])
    BY <1>2, <1>3 DEF SourceInv, FollowsFocus, NativeMade, SourceTypes, Native
  <2>2. \/ a # "x11" /\ wayland_source' = 0 /\ x11_source' \in {x11_source, NoSource}
        \/ /\ a = "x11" /\ wayland_source # 0 /\ wayland_source' = wayland_source
           /\ x11_source' = x11_source
        \/ a = "x11" /\ wayland_source' = selection[2] /\ x11_source' = NoSource
    BY <1>3, ClientChange DEF WindowActivated
  <2>3. SourceTypes'
    <3>1. wayland_source' \in 0..MaxNative
      BY <1>2, <2>1, <2>2 DEF SourceTypes
    <3>2. x11_source' \in X11Sources(internals)
      BY <1>2, <2>2, NoSourceIs DEF SourceTypes, X11Sources
    <3> QED BY <1>1, <1>2, <3>1, <3>2 DEF SourceTypes, X11Sources
  <2>4. AtMostOneSource'
    BY <2>2, NoSourceIs DEF SourceInv, AtMostOneSource
  <2>5. Shielded'
    BY <1>1, <2>1, <2>2 DEF SourceInv, Shielded
  <2>6. NativeMade' /\ DeletedNotSelected' /\ FollowsFocus'
    BY <1>1 DEF SourceInv, NativeMade, DeletedNotSelected, FollowsFocus
  <2> QED BY <2>3, <2>4, <2>5, <2>6 DEF SourceInv
<1>4. CASE ~active_window_notifier
  <2>1. wayland_source = 0
    BY <1>4 DEF SourceInv, FollowsFocus, Shielded, Native
  <2>2. UNCHANGED <<wayland_source, x11_source>>
    BY <1>4 DEF WindowActivated
  <2>3. SourceTypes'
    BY <1>1, <1>2, <2>2 DEF SourceTypes
  <2>4. NativeMade' /\ DeletedNotSelected' /\ FollowsFocus' /\ AtMostOneSource' /\ Shielded'
    BY <1>1, <2>1, <2>2 DEF SourceInv, NativeMade, DeletedNotSelected, FollowsFocus,
                            AtMostOneSource, Shielded
  <2> QED BY <2>3, <2>4 DEF SourceInv
<1> QED BY <1>3, <1>4

\* A Wayland client sets the selection (handle_wl_selection_change()).
LEMMA NativeStep == ASSUME SourceInv, NativeSelection PROVE SourceInv'
<1>1. /\ natives < MaxNative /\ natives' = natives + 1 /\ selection' = <<"native", natives + 1>>
      /\ active_window_notifier' = TRUE
      /\ UNCHANGED <<active, source_int, deleted, internals, undefined>>
  BY DEF NativeSelection, Native
<1>2. SourceTypes /\ natives \in 0..MaxNative
  BY DEF SourceInv, SourceTypes
<1>3. \/ active # "x11" /\ wayland_source' = 0 /\ x11_source' \in {x11_source, NoSource}
      \/ active = "x11" /\ wayland_source' = natives + 1 /\ x11_source' = NoSource
  BY ClientChange DEF NativeSelection
<1>4. SourceTypes'
  <2>1. wayland_source' \in 0..MaxNative /\ natives' \in 0..MaxNative /\ natives + 1 \in Nat
    BY <1>1, <1>2, <1>3
  <2>2. x11_source' \in X11Sources(internals)
    BY <1>2, <1>3, NoSourceIs DEF SourceTypes, X11Sources
  <2>3. selection' \in {"none", "native", "internal"} \X Nat
    BY <1>1, <2>1
  <2> QED BY <1>1, <1>2, <2>1, <2>2, <2>3 DEF SourceTypes, X11Sources
<1>5. NativeMade'
  BY <1>1, <1>2 DEF NativeMade
<1>6. DeletedNotSelected' /\ FollowsFocus'
  BY <1>1 DEF DeletedNotSelected, FollowsFocus, Internal
<1>7. AtMostOneSource'
  BY <1>3, NoSourceIs DEF AtMostOneSource
<1>8. Shielded'
  BY <1>1, <1>3 DEF Shielded, Native
<1> QED BY <1>4, <1>5, <1>6, <1>7, <1>8 DEF SourceInv

\* handle_x11_offer_change() with a new internal source: it is none of those that were
\* deleted.
LEMMA ReplaceStep ==
    ASSUME SourceInv, NEW T \in SUBSET Mimes, ReplaceInternal(T), x11_source.exists,
           UNCHANGED active
    PROVE  SourceInv'
<1> DEFINE k == internals + 1
<1>1. /\ internals' = k /\ source_int' = k /\ selection' = <<"internal", k>>
      /\ x11_source' = [x11_source EXCEPT !.offers = T, !.source = k]
      /\ active_window_notifier' = FALSE /\ UNCHANGED <<natives, wayland_source>>
      /\ deleted' = deleted \cup ({x11_source.source} \ {0}) \cup ({source_int} \ {0})
      /\ undefined' \in BOOLEAN
  BY DEF ReplaceInternal, DeletedBySetSource, Internal
<1>2. SourceTypes /\ internals \in Nat /\ k \in Nat /\ x11_source \in X11Sources(internals)
  BY DEF SourceInv, SourceTypes, X11Sources
<1>3. deleted' \subseteq 1..internals /\ source_int' \in 0..k
  <2>1. x11_source.source \in 0..internals /\ source_int \in 0..internals
        /\ deleted \subseteq 1..internals
    BY <1>2, X11SourceChanged DEF SourceTypes
  <2> QED BY <1>1, <1>2, <2>1
<1>4. SourceTypes'
  <2>1. x11_source' \in X11Sources(k)
    BY <1>1, <1>2, X11SourceChanged
  <2>2. deleted' \subseteq 1..k /\ selection' \in {"none", "native", "internal"} \X Nat
    BY <1>1, <1>2, <1>3
  <2> HIDE DEF k
  <2> QED BY <1>1, <1>2, <1>3, <2>1, <2>2 DEF SourceTypes, X11Sources
<1>5. wayland_source' = 0
  BY <1>1 DEF SourceInv, AtMostOneSource
<1>6. NativeMade' /\ FollowsFocus'
  BY <1>1 DEF NativeMade, FollowsFocus
<1>7. AtMostOneSource' /\ Shielded'
  BY <1>5 DEF AtMostOneSource, Shielded
<1>8. DeletedNotSelected'
  <2>1. \A j \in deleted' : j # k
    BY <1>2, <1>3
  <2> HIDE DEF k
  <2> QED BY <1>1, <2>1 DEF DeletedNotSelected, Internal
<1> QED BY <1>4, <1>6, <1>7, <1>8 DEF SourceInv

\* An event about the owner that do_handle_xfixes_notify() takes no source from.
LEMMA RejectStep == ASSUME SourceInv, RejectOwner PROVE SourceInv'
<1>1. UNCHANGED <<active, internals, undefined>>
  BY DEF RejectOwner
<1>2. SourceTypes /\ internals \in Nat
  BY DEF SourceInv, SourceTypes
<1>3. NoSource \in X11Sources(internals) /\ ~NoSource.exists
  BY <1>2, NoSourceIs
<1>4. DeletedNotSelected
  BY DEF SourceInv
<1>5. CASE x11_source.exists /\ source_int # 0 /\ selection = Internal(source_int)
  <2>1. SelectionRemoved /\ source_int' = 0 /\ deleted' = deleted \cup {source_int}
    BY <1>5 DEF RejectOwner
  <2> QED BY <1>1, <1>5, <2>1, RemovedStep
<1>6. CASE x11_source.exists /\ source_int # 0 /\ selection # Internal(source_int)
  <2>1. /\ x11_source' = NoSource /\ source_int' = 0 /\ deleted' = deleted \cup {source_int}
        /\ UNCHANGED <<selection, active_window_notifier, natives, wayland_source>>
    BY <1>6 DEF RejectOwner, seatVars
  <2>2. \A k \in deleted' : selection # Internal(k)
    BY <1>4, <1>6, <2>1 DEF DeletedNotSelected
  <2> QED BY <1>1, <1>3, <1>6, <2>1, <2>2, X11SourceStep
<1>7. CASE ~(x11_source.exists /\ source_int # 0)
  <2>1. /\ x11_source' = NoSource
        /\ UNCHANGED <<selection, active_window_notifier, natives, wayland_source, source_int,
                       deleted>>
    BY <1>7 DEF RejectOwner, seatVars
  <2>2. \A k \in deleted' : selection # Internal(k)
    BY <1>4, <2>1 DEF DeletedNotSelected
  <2> QED BY <1>1, <1>3, <2>1, <2>2, X11SourceStep
<1> QED BY <1>5, <1>6, <1>7

\* An event about the owner that makes an X11 source.
LEMMA AcceptStep == ASSUME IInv, AcceptOwner PROVE SourceInv'
<1>1. /\ UNCHANGED <<active, selection, active_window_notifier, natives, internals, undefined,
                     source_int, deleted>>
      /\ create_x11_source(Head(events).owner)
  BY DEF AcceptOwner, seatVars
<1>2. SourceInv /\ SourceTypes /\ internals \in Nat /\ DeletedNotSelected
      /\ x11_source \in X11Sources(internals)
  BY DEF IInv, SourceInv, SourceTypes, X11Sources
<1>3. Head(events).owner \in Owners
  <2>1. events \in Seq(Event(now)) /\ events # <<>> /\ Head(events).type = "owner"
    BY DEF IInv, QueueInv, AcceptOwner, NextEvent
  <2>2. Head(events) \in Event(now)
    BY <2>1, TailOf
  <2> QED BY <2>1, <2>2 DEF Event
<1>4. /\ x11_source' \in X11Sources(internals) /\ wayland_source' \in {0, wayland_source}
      /\ ~x11_source'.exists \/ wayland_source' = 0
  <2>1. CASE Head(events).owner = Nobody
    BY <1>1, <1>2, <2>1, NoSourceIs DEF create_x11_source
  <2>2. CASE Head(events).owner # Nobody
    <3>1. \A w \in Owners : [NoSource EXCEPT !.exists = TRUE, !.window = w] \in X11Sources(internals)
      BY <1>2, X11SourceChanged
    <3>2. /\ x11_source' = [NoSource EXCEPT !.exists = TRUE, !.window = Head(events).owner]
          /\ wayland_source' = 0
      BY <1>1, <2>2 DEF create_x11_source
    <3> QED BY <1>3, <3>1, <3>2
  <2> QED BY <2>1, <2>2
<1>5. \A k \in deleted' : selection # Internal(k)
  BY <1>1, <1>2 DEF DeletedNotSelected
<1> QED BY <1>1, <1>2, <1>4, <1>5, X11SourceStep

\* The answer about the targets (handle_x11_offer_change()).
LEMMA TargetsStep == ASSUME IInv, HandleTargets PROVE SourceInv'
<1> DEFINE T == targets.types
<1>1. x11_source.exists /\ handle_x11_offer_change(T) /\ active' = active
  BY DEF HandleTargets
<1>2. SourceInv /\ SourceTypes /\ internals \in Nat /\ DeletedNotSelected /\ AtMostOneSource
      /\ x11_source \in X11Sources(internals) /\ T \in SUBSET Mimes
  BY DEF IInv, SourceInv, SourceTypes, X11Sources, QueueInv
<1> HIDE DEF T
<1>3. wayland_source = 0
  BY <1>1, <1>2 DEF AtMostOneSource
<1>4. ASSUME x11_source' = [x11_source EXCEPT !.offers = T],
             UNCHANGED <<seatVars, wayland_source, source_int, deleted, internals, undefined>>
      PROVE  SourceInv'
  <2>1. x11_source' \in X11Sources(internals)
    BY <1>2, <1>4, X11SourceChanged
  <2>2. UNCHANGED <<selection, active_window_notifier, natives>>
    BY <1>4 DEF seatVars
  <2>3. \A k \in deleted' : selection # Internal(k)
    BY <1>2, <1>4 DEF DeletedNotSelected
  <2> QED BY <1>1, <1>2, <1>3, <1>4, <2>1, <2>2, <2>3, X11SourceStep
<1>5. CASE SelectionRemoved /\ UNCHANGED <<source_int, deleted, internals, undefined>>
  BY <1>1, <1>2, <1>5, RemovedStep
<1>6. CASE ReplaceInternal(T)
  BY <1>1, <1>2, <1>6, ReplaceStep
<1> QED BY <1>1, <1>4, <1>5, <1>6 DEF handle_x11_offer_change

\* Every step keeps what the sources satisfy.
LEMMA NextSources == IInv /\ [Next]_vars => SourceInv'
<1> SUFFICES ASSUME IInv, [Next]_vars PROVE SourceInv'
  OBVIOUS
<1>0. SourceInv
  BY DEF IInv
<1>1. CASE Server
  <2>1. UNCHANGED <<active, seatVars, sourceVars>>
    BY <1>1 DEF Server, XClientClaims, XClientExits, XClientAnswers, ServerOwns, ServerDisowns,
                ServerConverts
  <2> QED BY <1>0, <2>1, SourcesStay
<1>2. CASE NativeRemoved
  BY <1>0, <1>2, RemovedStep DEF NativeRemoved
<1>3. CASE IgnoreOwner \/ ConfirmOwner \/ DropTargets \/ HandleRefusal
  <2>1. UNCHANGED <<active, seatVars, sourceVars>>
    BY <1>3 DEF IgnoreOwner, ConfirmOwner, DropTargets, HandleRefusal
  <2> QED BY <1>0, <2>1, SourcesStay
<1>4. CASE UNCHANGED vars
  BY <1>0, <1>4, SourcesStay DEF vars
<1> QED BY <1>0, <1>1, <1>2, <1>3, <1>4, ActivationStep, NativeStep, RejectStep, AcceptStep,
           TargetsStep DEF Next, Seat, XEvent

--------------------------------------------------------------------------------
(****************************************************************************)
(* The theorems.                                                            *)
(****************************************************************************)

\* The inductive invariant holds in every reachable state.
THEOREM Invariance == Spec => []IInv
<1>1. Init => IInv
  <2> SUFFICES ASSUME Init PROVE IInv
    OBVIOUS
  <2>1. QueueInv
    <3>1. events = <<>> /\ requests = <<>> /\ now = 0
      BY DEF Init
    <3>2. events \in Seq(Event(now)) /\ requests \in Seq(RequestAt(now))
      BY <3>1
    <3>3. targets \in [set: BOOLEAN, types: SUBSET Mimes] /\ owner \in Owners /\ asked \subseteq XClients
      BY DEF Init, Owners, NoTargets
    <3>4. timestamp \in 0..now /\ lastChange \in 0..now /\ now \in Nat
      BY DEF Init
    <3> QED BY <3>2, <3>3, <3>4 DEF Init, QueueInv
  <2>2. SourceTypes
    <3>1. x11_source \in X11Sources(internals)
      BY NoSourceIs DEF Init
    <3>2. selection \in {"none", "native", "internal"} \X Nat
      BY DEF Init, NoSelection
    <3>3. /\ natives \in 0..MaxNative /\ wayland_source \in 0..MaxNative
          /\ internals \in Nat /\ source_int \in 0..internals /\ deleted \subseteq 1..internals
      BY DEF Init
    <3> QED BY <3>1, <3>2, <3>3 DEF Init, SourceTypes, X11Sources
  <2>3. NativeMade /\ DeletedNotSelected /\ AtMostOneSource /\ Shielded /\ FollowsFocus
    BY DEF Init, NativeMade, DeletedNotSelected, AtMostOneSource, Shielded, FollowsFocus, NoSelection
  <2> QED BY <2>1, <2>2, <2>3 DEF IInv, SourceInv
<1>2. IInv /\ [Next]_vars => IInv'
  BY NextQueues, NextSources DEF IInv
<1> QED BY <1>1, <1>2, PTL DEF Spec

\* The variables of the bridge and of the X server have their types.
THEOREM TypeCorrect == Spec => []TypeOK
<1>1. IInv => TypeOK
  <2> SUFFICES ASSUME IInv PROVE TypeOK
    OBVIOUS
  <2>1. QueueInv /\ SourceTypes
    BY DEF IInv, SourceInv
  <2>2. \A i \in 1..Len(requests) : requests[i].type \in {"own", "disown", "convert"}
    <3>1. \A i \in 1..Len(requests) : requests[i] \in RequestAt(now)
      BY <2>1 DEF QueueInv
    <3> QED BY <3>1 DEF RequestAt
  <2>3. \A i \in 1..Len(events) : events[i].type \in {"owner", "targets", "refusal"}
    <3>1. \A i \in 1..Len(events) : events[i] \in Event(now)
      BY <2>1 DEF QueueInv
    <3> QED BY <3>1 DEF Event
  <2> QED BY <2>1, <2>2, <2>3 DEF QueueInv, SourceTypes, TypeOK
<1> QED BY <1>1, Invariance, PTL

\* "Only one of them at max can exist at the same time" (selection_data.h), whichever
\* events of the seat and of the X server come in between.
THEOREM OneSource == Spec => []AtMostOneSource
<1>1. IInv => AtMostOneSource
  BY DEF IInv, SourceInv
<1> QED BY <1>1, Invariance, PTL

\* A Wayland selection is offered to X clients only while one of them is active
\* (handle_wl_selection_client_change()), and never one the seat has given up.
THEOREM NoSnooping == Spec => []Shielded
<1>1. IInv => Shielded
  BY DEF IInv, SourceInv
<1> QED BY <1>1, Invariance, PTL

\* The seat never keeps an internal source that handle_x11_offer_change() or
\* do_handle_xfixes_notify() has deleted.
THEOREM SelectionNotDeleted == Spec => []SelectionLives
<1>1. IInv => SelectionLives
  BY DEF IInv, SourceInv, DeletedNotSelected, SelectionLives
<1> QED BY <1>1, Invariance, PTL

\* active_window_notifier is connected exactly while the selection is a Wayland
\* client's (handle_wl_selection_change()).
THEOREM FocusFollowed == Spec => []FollowsFocus
<1>1. IInv => FollowsFocus
  BY DEF IInv, SourceInv
<1> QED BY <1>1, Invariance, PTL


================================================================================
