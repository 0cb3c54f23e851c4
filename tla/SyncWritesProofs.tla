--------------------------- MODULE SyncWritesProofs ---------------------------
(***************************************************************************)
(* Proofs about the rules of the queue (SyncQueueRules) and the write path   *)
(* (SyncWrites): for any writes, failures, kills and limits.                 *)
(***************************************************************************)
EXTENDS SyncWrites, SyncQueueRules, FiniteSetTheorems, SequenceTheorems, NaturalsInduction,
        WellFoundedInduction, TLAPS

-------------------------------------------------------------------------------
(* Induction through a least counterexample, and functions defined along the *)
(* numbers                                                                   *)

LEMMA Least ==
    ASSUME NEW S, S \subseteq Nat, S # {}
    PROVE  \E m \in S : \A n \in S : m <= n
  <1>1. PICK m \in S : \A n \in S : ~(<<n, m>> \in OpToRel(<, Nat))
    BY NatLessThanWellFounded, WFMin
  <1>2. \A n \in S : ~(n < m)
    BY <1>1 DEF OpToRel
  <1> QED BY <1>2

(* What holds at 0 and passes from each number to the next holds up to N. *)
LEMMA UpTo ==
    ASSUME NEW N \in Nat, NEW good, 0 \in good,
           \A n \in 1..N : n - 1 \in good => n \in good
    PROVE  \A n \in 0..N : n \in good
  <1> DEFINE bad == {n \in 0..N : n \notin good}
  <1>1. ASSUME bad # {} PROVE FALSE
    <2>0. bad \subseteq Nat
      OBVIOUS
    <2>1. PICK m \in bad : \A n \in bad : m <= n
      <3> HIDE DEF bad
      <3> QED BY <1>1, <2>0, Least
    <2>2. m \in 1..N /\ m - 1 \in 0..N
      BY <2>1
    <2>3. m - 1 \notin bad
      BY <2>1, <2>2
    <2> QED BY <2>1, <2>2, <2>3
  <1> QED BY <1>1

(* A recursion along 1..N has a solution. *)
Follows(f, m, base, step) ==
    f[0] = base /\ \A n \in 1..m : f[n] = step[n][f[n - 1]]

LEMMA Recursion ==
    ASSUME NEW T, NEW N \in Nat, NEW base \in T, NEW step \in [1..N -> [T -> T]]
    PROVE  \E f \in [0..N -> T] : Follows(f, N, base, step)
  <1> DEFINE good == {m \in 0..N : \E f \in [0..m -> T] : Follows(f, m, base, step)}
  <1>1. 0 \in good
    <2>1. Follows([n \in 0..0 |-> base], 0, base, step)
      BY DEF Follows
    <2>2. [n \in 0..0 |-> base] \in [0..0 -> T]
      OBVIOUS
    <2> QED BY <2>1, <2>2
  <1>2. ASSUME NEW m \in 1..N, m - 1 \in good PROVE m \in good
    <2>1. PICK f \in [0..(m - 1) -> T] : Follows(f, m - 1, base, step)
      BY <1>2
    <2> DEFINE g == [n \in 0..m |-> IF n = m THEN step[m][f[m - 1]] ELSE f[n]]
    <2>2. m - 1 \in 0..(m - 1) /\ f[m - 1] \in T /\ step[m] \in [T -> T]
      OBVIOUS
    <2>3. g \in [0..m -> T]
      <3>1. step[m][f[m - 1]] \in T
        BY <2>2
      <3>2. \A n \in 0..m : n # m => n \in 0..(m - 1)
        OBVIOUS
      <3> QED BY <3>1, <3>2
    <2>4. Follows(g, m, base, step)
      <3>1. g[0] = base
        BY <2>1 DEF Follows
      <3>2. ASSUME NEW n \in 1..m PROVE g[n] = step[n][g[n - 1]]
        <4>1. n - 1 \in 0..m /\ n - 1 # m /\ g[n - 1] = f[n - 1]
          OBVIOUS
        <4>2. CASE n = m
          BY <4>1, <4>2
        <4>3. CASE n # m
          <5>1. n \in 1..(m - 1) /\ n \in 0..m
            BY <4>3
          <5> QED BY <2>1, <4>1, <4>3, <5>1 DEF Follows
        <4> QED BY <4>2, <4>3
      <3> HIDE DEF g
      <3> QED BY <3>1, <3>2 DEF Follows
    <2> HIDE DEF g
    <2> QED BY <2>3, <2>4
  <1>3. \A n \in 0..N : n \in good
    <2> HIDE DEF good
    <2> QED BY <1>1, <1>2, UpTo
  <1> QED BY <1>3

-------------------------------------------------------------------------------
(* What is picked from a sequence *)

(* How many of S come up to i. *)
rank(S, i) == Cardinality({j \in S : j <= i})

LEMMA RankBijects ==
    ASSUME NEW S, S \subseteq Nat, IsFiniteSet(S)
    PROVE  /\ \A i \in S : rank(S, i) \in 1..Cardinality(S)
           /\ \A i, j \in S : i < j => rank(S, i) < rank(S, j)
           /\ \A i, j \in S : rank(S, i) = rank(S, j) => i = j
           /\ \A n \in 1..Cardinality(S) : \E i \in S : rank(S, i) = n
  <1> DEFINE N == Cardinality(S)
             ranks == [i \in S |-> rank(S, i)]
  <1>1. N \in Nat
    BY FS_CardinalityType
  <1>2. \A i \in S : rank(S, i) \in 1..N
    <2> SUFFICES ASSUME NEW i \in S PROVE rank(S, i) \in 1..N
      OBVIOUS
    <2> DEFINE R == {j \in S : j <= i}
    <2>1. R \in SUBSET S /\ i \in R
      OBVIOUS
    <2> HIDE DEF R
    <2>2. IsFiniteSet(R) /\ Cardinality(R) <= N /\ Cardinality(R) \in Nat
      BY <2>1, FS_Subset, FS_CardinalityType
    <2>3. Cardinality(R) # 0
      BY <2>1, <2>2, FS_EmptySet
    <2>4. Cardinality(R) \in 1..N
      BY <1>1, <2>2, <2>3
    <2> QED BY <2>4 DEF R, rank
  <1>3. \A i, j \in S : i < j => rank(S, i) < rank(S, j)
    <2> SUFFICES ASSUME NEW i \in S, NEW j \in S, i < j PROVE rank(S, i) < rank(S, j)
      OBVIOUS
    <2> DEFINE A == {k \in S : k <= i}  B == {k \in S : k <= j}
    <2>1. j \in B /\ j \notin A /\ B \in SUBSET S
      OBVIOUS
    <2>0. A \in SUBSET B
      <3>1. \A k \in S : k <= i => k <= j
        OBVIOUS
      <3> QED BY <3>1
    <2> HIDE DEF A, B
    <2>2. IsFiniteSet(B)
      BY <2>1, FS_Subset
    <2>3. Cardinality(A) <= Cardinality(B) /\ Cardinality(A) # Cardinality(B) /\ IsFiniteSet(A)
      BY <2>0, <2>1, <2>2, FS_Subset
    <2>4. Cardinality(A) \in Nat /\ Cardinality(B) \in Nat
      BY <2>2, <2>3, FS_CardinalityType
    <2>5. Cardinality(A) < Cardinality(B)
      BY <2>3, <2>4
    <2> QED BY <2>5 DEF A, B, rank
  <1>4. \A n \in 1..N : \E i \in S : rank(S, i) = n
    <2>1. \A i, j \in S : ranks[i] = ranks[j] => i = j
      <3> SUFFICES ASSUME NEW i \in S, NEW j \in S, i # j PROVE ranks[i] # ranks[j]
        OBVIOUS
      <3>1. i < j \/ j < i
        OBVIOUS
      <3>2. rank(S, i) \in Nat /\ rank(S, j) \in Nat
        BY <1>1, <1>2
      <3>3. rank(S, i) < rank(S, j) \/ rank(S, j) < rank(S, i)
        BY <1>3, <3>1
      <3>4. ranks[i] = rank(S, i) /\ ranks[j] = rank(S, j)
        OBVIOUS
      <3> HIDE DEF ranks
      <3> QED BY <3>2, <3>3, <3>4
    <2>2. ranks \in [S -> 1..N]
      BY <1>2
    <2>3. ranks \in Injection(S, 1..N)
      BY <2>1, <2>2 DEF Injection, IsInjective
    <2>4. IsFiniteSet(1..N) /\ Cardinality(1..N) = N
      BY <1>1, FS_Interval
    <2>5. ranks \in Surjection(S, 1..N)
      <3> HIDE DEF ranks
      <3> QED BY <2>3, <2>4, FS_Injection
    <2>6. \A n \in 1..N : \E i \in S : ranks[i] = n
      <3> HIDE DEF ranks
      <3> QED BY <2>5 DEF Surjection
    <2> QED BY <2>6
  <1>5. \A i, j \in S : rank(S, i) = rank(S, j) => i = j
    <2> SUFFICES ASSUME NEW i \in S, NEW j \in S, i # j PROVE rank(S, i) # rank(S, j)
      OBVIOUS
    <2>1. rank(S, i) \in Nat /\ rank(S, j) \in Nat /\ (i < j \/ j < i)
      BY <1>1, <1>2
    <2> QED BY <1>3, <2>1
  <1> QED BY <1>2, <1>3, <1>4, <1>5

(* place[n] is where in ops the n-th of pick(ops, S) stands. *)
Picks(place, ops, S) ==
    /\ pick(ops, S) = [n \in 1..Cardinality(S) |-> ops[place[n]]]
    /\ \A m, n \in 1..Cardinality(S) : m < n => place[m] < place[n]
    /\ \A i \in S : \E n \in 1..Cardinality(S) : place[n] = i

LEMMA PickPlaces ==
    ASSUME NEW ops, NEW S, S \subseteq Nat, IsFiniteSet(S)
    PROVE  \E place \in [1..Cardinality(S) -> S] : Picks(place, ops, S)
  <1> DEFINE N == Cardinality(S)
             place == [n \in 1..N |-> CHOOSE i \in S : rank(S, i) = n]
  <1>1. N \in Nat
    BY FS_CardinalityType
  <1>2. /\ \A i \in S : rank(S, i) \in 1..N
        /\ \A i, j \in S : i < j => rank(S, i) < rank(S, j)
        /\ \A i, j \in S : rank(S, i) = rank(S, j) => i = j
        /\ \A n \in 1..N : \E i \in S : rank(S, i) = n
    BY RankBijects
  <1>5. \A n \in 1..N : place[n] \in S /\ rank(S, place[n]) = n
    BY <1>2
  <1>6. place \in [1..N -> S]
    BY <1>5
  <1>7. pick(ops, S) = [n \in 1..N |-> ops[place[n]]]
    BY DEF pick, rank
  <1>8. \A m, n \in 1..N : m < n => place[m] < place[n]
    <2> SUFFICES ASSUME NEW m \in 1..N, NEW n \in 1..N, m < n PROVE place[m] < place[n]
      OBVIOUS
    <2>1. place[m] \in S /\ place[n] \in S /\ rank(S, place[m]) = m /\ rank(S, place[n]) = n
      BY <1>5
    <2> HIDE DEF place
    <2>2. ~(place[n] < place[m])
      <3>1. place[n] < place[m] => rank(S, place[n]) < rank(S, place[m])
        BY <1>2, <2>1
      <3> QED BY <1>1, <2>1, <3>1
    <2>3. place[n] # place[m]
      BY <1>1, <2>1
    <2>4. \A a, b \in Nat : ~(b < a) /\ b # a => a < b
      OBVIOUS
    <2>5. place[m] \in Nat /\ place[n] \in Nat
      BY <2>1
    <2> QED BY <2>2, <2>3, <2>4, <2>5
  <1>9. \A i \in S : \E n \in 1..N : place[n] = i
    <2> SUFFICES ASSUME NEW i \in S PROVE \E n \in 1..N : place[n] = i
      OBVIOUS
    <2>1. rank(S, i) \in 1..N
      BY <1>2
    <2>2. place[rank(S, i)] \in S /\ rank(S, place[rank(S, i)]) = rank(S, i)
      BY <1>5, <2>1
    <2> HIDE DEF place
    <2> QED BY <1>2, <2>1, <2>2
  <1> HIDE DEF place
  <1>10. Picks(place, ops, S)
    BY <1>7, <1>8, <1>9 DEF Picks
  <1> QED BY <1>6, <1>10

(* What stands at i is as many places on as S has numbers up to i. *)
LEMMA PickAt ==
    ASSUME NEW ops, NEW S, S \subseteq Nat, IsFiniteSet(S), NEW i \in S
    PROVE  /\ rank(S, i) \in 1..Cardinality(S)
           /\ pick(ops, S)[rank(S, i)] = ops[i]
  <1> DEFINE place(n) == CHOOSE j \in S : rank(S, j) = n
  <1>1. /\ \A j \in S : rank(S, j) \in 1..Cardinality(S)
        /\ \A j, k \in S : rank(S, j) = rank(S, k) => j = k
    BY RankBijects
  <1>2. place(rank(S, i)) = i
    BY <1>1
  <1>3. pick(ops, S) = [n \in 1..Cardinality(S) |-> ops[place(n)]]
    BY DEF pick, rank
  <1> HIDE DEF place
  <1> QED BY <1>1, <1>2, <1>3

(* The count grows by one at each number of S. *)
LEMMA RankGrows ==
    ASSUME NEW L \in Nat, NEW S, S \subseteq 1..L
    PROVE  /\ S \subseteq Nat /\ IsFiniteSet(S) /\ Cardinality(S) \in Nat
           /\ rank(S, 0) = 0 /\ rank(S, L) = Cardinality(S)
           /\ \A i \in 0..L : rank(S, i) \in 0..Cardinality(S)
           /\ \A i \in 1..L : rank(S, i) = rank(S, i - 1) + IF i \in S THEN 1 ELSE 0
  <1> DEFINE upTo(i) == {j \in S : j <= i}
  <1>1. S \subseteq Nat /\ IsFiniteSet(S)
    <2>1. IsFiniteSet(1..L)
      BY FS_Interval
    <2>2. IsFiniteSet(S)
      BY <2>1, FS_Subset
    <2>3. 1..L \subseteq Nat
      OBVIOUS
    <2> QED BY <2>2, <2>3
  <1>2. Cardinality(S) \in Nat
    BY <1>1, FS_CardinalityType
  <1>3. \A i : IsFiniteSet(upTo(i)) /\ Cardinality(upTo(i)) \in 0..Cardinality(S)
    <2> SUFFICES ASSUME NEW i
                 PROVE  IsFiniteSet(upTo(i)) /\ Cardinality(upTo(i)) \in 0..Cardinality(S)
      OBVIOUS
    <2>1. upTo(i) \in SUBSET S
      OBVIOUS
    <2> HIDE DEF upTo
    <2>2. IsFiniteSet(upTo(i)) /\ Cardinality(upTo(i)) <= Cardinality(S)
      BY <1>1, <2>1, FS_Subset
    <2> QED BY <1>2, <2>2, FS_CardinalityType
  <1>4. upTo(0) = {} /\ upTo(L) = S
    <2>1. \A j \in S : j \in 1..L
      OBVIOUS
    <2>2. \A j \in S : ~(j <= 0) /\ j <= L
      BY <2>1
    <2> QED BY <2>2
  <1>5. ASSUME NEW i \in 1..L
        PROVE  Cardinality(upTo(i)) = Cardinality(upTo(i - 1)) + IF i \in S THEN 1 ELSE 0
    <2>1. i \notin upTo(i - 1)
      OBVIOUS
    <2>2. upTo(i) = IF i \in S THEN upTo(i - 1) \cup {i} ELSE upTo(i - 1)
      <3>1. \A j \in S : j <= i <=> (j <= i - 1 \/ j = i)
        BY <1>1
      <3> QED BY <3>1
    <2> HIDE DEF upTo
    <2>3. CASE i \in S
      BY <1>3, <2>1, <2>2, <2>3, FS_AddElement
    <2>4. CASE i \notin S
      BY <1>3, <2>2, <2>4
    <2> QED BY <2>3, <2>4
  <1>6. \A i : rank(S, i) = Cardinality(upTo(i))
    BY DEF rank
  <1> HIDE DEF upTo
  <1>7. rank(S, 0) = 0 /\ rank(S, L) = Cardinality(S)
    BY <1>4, <1>6, FS_EmptySet
  <1> QED BY <1>1, <1>2, <1>3, <1>5, <1>6, <1>7

(* What is picked stays in its set, and is all of what stands at S. *)
LEMMA PickSeq ==
    ASSUME NEW T, NEW ops \in Seq(T), NEW S \in SUBSET DOMAIN ops
    PROVE  /\ pick(ops, S) \in Seq(T)
           /\ Len(pick(ops, S)) = Cardinality(S)
           /\ Cardinality(S) \in Nat
           /\ \A n \in DOMAIN pick(ops, S) : \E i \in S : pick(ops, S)[n] = ops[i]
           /\ \A i \in S : \E n \in DOMAIN pick(ops, S) : pick(ops, S)[n] = ops[i]
  <1>1. S \subseteq Nat /\ IsFiniteSet(S) /\ Cardinality(S) \in Nat
    <2>1. DOMAIN ops = 1..Len(ops) /\ Len(ops) \in Nat
      OBVIOUS
    <2>2. S \in SUBSET Nat /\ S \in SUBSET (1..Len(ops)) /\ IsFiniteSet(1..Len(ops))
      BY <2>1, FS_Interval
    <2>3. IsFiniteSet(S)
      BY <2>2, FS_Subset
    <2> QED BY <2>2, <2>3, FS_CardinalityType
  <1>2. PICK place \in [1..Cardinality(S) -> S] : Picks(place, ops, S)
    BY <1>1, PickPlaces
  <1>3. ASSUME NEW n \in 1..Cardinality(S)
        PROVE  pick(ops, S)[n] = ops[place[n]] /\ ops[place[n]] \in T
    <2>1. place[n] \in DOMAIN ops
      BY <1>2
    <2>2. ops[place[n]] \in T
      BY <2>1
    <2> QED BY <1>2, <2>2 DEF Picks
  <1>4. pick(ops, S) \in Seq(T) /\ Len(pick(ops, S)) = Cardinality(S)
        /\ DOMAIN pick(ops, S) = 1..Cardinality(S)
    <2> DEFINE N == Cardinality(S)  seq == [n \in 1..N |-> ops[place[n]]]
    <2>1. \A n \in 1..N : seq[n] \in T
      BY <1>3
    <2>2. seq \in [1..N -> T]
      BY <2>1
    <2>3. seq \in Seq(T) /\ Len(seq) = N /\ DOMAIN seq = 1..N
      <3> HIDE DEF seq
      <3> QED BY <1>1, <2>2
    <2>4. pick(ops, S) = seq
      BY <1>2 DEF Picks
    <2> QED BY <2>3, <2>4
  <1> QED BY <1>1, <1>2, <1>3, <1>4 DEF Picks

(* The operations of a queue. *)
members(ops) == {ops[i] : i \in DOMAIN ops}

LEMMA WithoutSeq ==
    ASSUME NEW T, NEW ops \in Seq(T), NEW gone
    PROVE  /\ without(ops, gone) \in Seq(T)
           /\ Len(without(ops, gone)) <= Len(ops)
           /\ members(without(ops, gone)) = {op \in members(ops) : op.opId \notin gone}
           /\ ids(without(ops, gone)) = ids(ops) \ gone
  <1> DEFINE S == {i \in DOMAIN ops : ops[i].opId \notin gone}
             left == pick(ops, S)
  <1>1. S \in SUBSET DOMAIN ops
    OBVIOUS
  <1>2. /\ left \in Seq(T) /\ Len(left) = Cardinality(S)
        /\ \A n \in DOMAIN left : \E i \in S : left[n] = ops[i]
        /\ \A i \in S : \E n \in DOMAIN left : left[n] = ops[i]
    <2> HIDE DEF S
    <2> QED BY <1>1, PickSeq
  <1>3. without(ops, gone) = left
    BY DEF without
  <1>4. Cardinality(S) <= Len(ops)
    <2>1. DOMAIN ops = 1..Len(ops) /\ Len(ops) \in Nat
      OBVIOUS
    <2>2. IsFiniteSet(1..Len(ops)) /\ Cardinality(1..Len(ops)) = Len(ops)
      BY <2>1, FS_Interval
    <2> HIDE DEF S
    <2> QED BY <1>1, <2>1, <2>2, FS_Subset
  <1> HIDE DEF left
  <1>5. members(left) = {op \in members(ops) : op.opId \notin gone}
    BY <1>2 DEF members
  <1>6. ids(left) = ids(ops) \ gone
    <2>1. \A o : ids(o) = {op.opId : op \in members(o)}
      BY DEF ids, members
    <2> QED BY <1>5, <2>1
  <1> QED BY <1>2, <1>3, <1>4, <1>5, <1>6

-------------------------------------------------------------------------------
(* Compaction *)

(* A set of operations from which merging two does not lead out. *)
Mergeable(T) ==
    /\ T \subseteq Op
    /\ \A op \in T : \A v \in 0..MaxValue :
           op.kind = "progress.set" => [op EXCEPT !.value = v] \in T

isState(op) == classifyOp(op.kind) = "state"

LEMMA StateKeys ==
    ASSUME NEW op \in Op
    PROVE  /\ stateKeyOf(op) = NoKey <=> ~isState(op)
           /\ isState(op) <=> op.kind \in {"favorite.set", "progress.set"}
           /\ isState(op) => stateKeyOf(op) = <<op.kind, op.key>>
  <1>1. op.kind \in Kind
    BY DEF Op
  <1>2. \A a, b : <<a, b>> # <<>>
    <2> SUFFICES ASSUME NEW a, NEW b, <<a, b>> = <<>> PROVE FALSE
      OBVIOUS
    <2>1. Len(<<a, b>>) = 2 /\ Len(<<>>) = 0
      OBVIOUS
    <2> QED BY <2>1
  <1> QED BY <1>1, <1>2 DEF stateKeyOf, isState, classifyOp, Kind, NoKey

LEMMA SameKey ==
    ASSUME NEW a \in Op, NEW b \in Op, isState(a), stateKeyOf(a) = stateKeyOf(b)
    PROVE  isState(b) /\ a.kind = b.kind /\ a.key = b.key
  <1>1. stateKeyOf(a) # NoKey
    BY StateKeys
  <1>2. isState(b)
    BY <1>1, StateKeys
  <1>3. <<a.kind, a.key>> = <<b.kind, b.key>>
    BY <1>2, StateKeys
  <1> QED BY <1>2, <1>3

(* What merging keeps, and how far it reaches. *)
LEMMA Merged ==
    ASSUME NEW ops \in Seq(Op), NEW i \in DOMAIN ops
    PROVE  /\ \E v \in 0..MaxValue : mergedAt(ops, i) = [ops[i] EXCEPT !.value = v]
           /\ ops[i].kind # "progress.set" => mergedAt(ops, i) = ops[i]
           /\ ops[i].kind = "progress.set" =>
                 /\ \A j \in 1..i : stateKeyOf(ops[j]) = stateKeyOf(ops[i])
                                      => ops[j].value <= mergedAt(ops, i).value
                 /\ \E j \in 1..i : /\ stateKeyOf(ops[j]) = stateKeyOf(ops[i])
                                    /\ ops[j].value = mergedAt(ops, i).value
  <1> DEFINE same == {j \in 1..i : stateKeyOf(ops[j]) = stateKeyOf(ops[i])}
             values == {ops[j].value : j \in same}
             reaches(v) == \A j \in same : ops[j].value <= v
  <1>1. DOMAIN ops = 1..Len(ops) /\ Len(ops) \in Nat /\ i \in 1..Len(ops)
    OBVIOUS
  <1>2. \A j \in same : ops[j] \in Op /\ ops[j].value \in 0..MaxValue
    <2> SUFFICES ASSUME NEW j \in 1..i PROVE ops[j] \in Op /\ ops[j].value \in 0..MaxValue
      OBVIOUS
    <2>1. j \in 1..Len(ops)
      BY <1>1
    <2>2. ops[j] \in Op
      BY <1>1, <2>1
    <2> QED BY <2>2 DEF Op
  <1>3. i \in same
    BY <1>1
  <1>4. \E v \in values : reaches(v)
    <2> DEFINE gap == {MaxValue - v : v \in values}
    <2>1. gap \subseteq Nat /\ gap # {}
      BY <1>2, <1>3, QueueAssumption
    <2>2. PICK g \in gap : \A h \in gap : g <= h
      <3> HIDE DEF gap
      <3> QED BY <2>1, Least
    <2>3. PICK v \in values : g = MaxValue - v
      OBVIOUS
    <2>4. \A j \in same : MaxValue - ops[j].value \in gap
      OBVIOUS
    <2>5. reaches(v)
      <3> SUFFICES ASSUME NEW j \in same PROVE ops[j].value <= v
        OBVIOUS
      <3>1. g <= MaxValue - ops[j].value
        BY <2>2, <2>4
      <3>2. ops[j].value \in Int /\ v \in Int
        BY <1>2
      <3> HIDE DEF values, same
      <3> QED BY <2>3, <3>1, <3>2, QueueAssumption
    <2> QED BY <2>5
  <1> DEFINE furthest == CHOOSE v \in values : reaches(v)
  <1>5. furthest \in values /\ reaches(furthest)
    <2> HIDE DEF values, reaches
    <2> QED BY <1>4
  <1>6. furthest \in 0..MaxValue
    <2> HIDE DEF furthest
    <2> QED BY <1>2, <1>5
  <1>7. mergedAt(ops, i) = IF ops[i].kind = "progress.set"
                           THEN [ops[i] EXCEPT !.value = furthest] ELSE ops[i]
    BY DEF mergedAt
  <1>8. ops[i] \in Op /\ ops[i] = [ops[i] EXCEPT !.value = ops[i].value]
    <2>1. ops[i] \in Op
      BY <1>1
    <2>2. ASSUME NEW op \in Op PROVE op = [op EXCEPT !.value = op.value]
      BY DEF Op
    <2> QED BY <2>1, <2>2
  <1>9. [ops[i] EXCEPT !.value = furthest].value = furthest
    BY <1>8 DEF Op
  <1> HIDE DEF furthest
  <1>10. ops[i].value \in 0..MaxValue
    BY <1>8 DEF Op
  <1>11. \E v \in 0..MaxValue : mergedAt(ops, i) = [ops[i] EXCEPT !.value = v]
    BY <1>6, <1>7, <1>8, <1>10
  <1>12. ASSUME ops[i].kind = "progress.set"
         PROVE  /\ \A j \in 1..i : stateKeyOf(ops[j]) = stateKeyOf(ops[i])
                                      => ops[j].value <= mergedAt(ops, i).value
                /\ \E j \in 1..i : /\ stateKeyOf(ops[j]) = stateKeyOf(ops[i])
                                   /\ ops[j].value = mergedAt(ops, i).value
    <2>1. mergedAt(ops, i).value = furthest
      BY <1>7, <1>9, <1>12
    <2> QED BY <1>5, <2>1
  <1> QED BY <1>7, <1>11, <1>12

(* The place is the last of its key, or has none. *)
stays(ops, i) ==
    \/ stateKeyOf(ops[i]) = NoKey
    \/ \A j \in (i + 1)..Len(ops) : stateKeyOf(ops[j]) # stateKeyOf(ops[i])

(* place[n] is where in ops the n-th of compactQueue(ops) stands. *)
Compacts(place, ops, N) ==
    /\ compactQueue(ops) = [n \in 1..N |-> mergedAt(ops, place[n])]
    /\ \A m, n \in 1..N : m < n => place[m] < place[n]
    /\ \A n \in 1..N : stays(ops, place[n])
    /\ \A i \in DOMAIN ops : stays(ops, i) => \E n \in 1..N : place[n] = i

LEMMA CompactPlaces ==
    ASSUME NEW ops \in Seq(Op)
    PROVE  \E N \in Nat : \E place \in [1..N -> DOMAIN ops] : Compacts(place, ops, N)
  <1> DEFINE S == {i \in DOMAIN ops : stays(ops, i)}
             N == Cardinality(S)
             all == [i \in DOMAIN ops |-> mergedAt(ops, i)]
  <1>1. S \subseteq Nat /\ IsFiniteSet(S) /\ N \in Nat
    <2>1. DOMAIN ops = 1..Len(ops) /\ Len(ops) \in Nat
      OBVIOUS
    <2>2. S \in SUBSET (1..Len(ops)) /\ IsFiniteSet(1..Len(ops))
      BY <2>1, FS_Interval
    <2>3. IsFiniteSet(S)
      BY <2>2, FS_Subset
    <2> QED BY <2>2, <2>3, FS_CardinalityType
  <1>2. compactQueue(ops) = pick(all, S)
    BY DEF compactQueue, stays
  <1>3. PICK place \in [1..N -> S] : Picks(place, all, S)
    <2> HIDE DEF S, all
    <2> QED BY <1>1, PickPlaces
  <1>4. \A n \in 1..N : place[n] \in S /\ all[place[n]] = mergedAt(ops, place[n])
    BY <1>3
  <1>5. pick(all, S) = [n \in 1..N |-> all[place[n]]]
    BY <1>3 DEF Picks
  <1>6. pick(all, S) = [n \in 1..N |-> mergedAt(ops, place[n])]
    BY <1>4, <1>5
  <1>7. place \in [1..N -> DOMAIN ops] /\ \A n \in 1..N : stays(ops, place[n])
    BY <1>4
  <1>8. \A i \in DOMAIN ops : stays(ops, i) => \E n \in 1..N : place[n] = i
    BY <1>3 DEF Picks
  <1>9. \A m, n \in 1..N : m < n => place[m] < place[n]
    BY <1>3 DEF Picks
  <1>10. Compacts(place, ops, N)
    <2> HIDE DEF S, N, all
    <2> QED BY <1>2, <1>6, <1>7, <1>8, <1>9 DEF Compacts
  <1> HIDE DEF S, N
  <1> QED BY <1>1, <1>7, <1>10

(* Compaction invents no identifier and loses nothing but states. *)
Condenses(short, ops) ==
    /\ ids(short) \subseteq ids(ops)
    /\ \A op \in members(ops) : ~isState(op) => op \in members(short)

LEMMA CompactSeq ==
    ASSUME NEW T, Mergeable(T), NEW ops \in Seq(T)
    PROVE  compactQueue(ops) \in Seq(T) /\ Condenses(compactQueue(ops), ops)
  <1>1. ops \in Seq(Op) /\ \A i \in DOMAIN ops : ops[i] \in T /\ ops[i] \in Op
    <2>1. T \subseteq Op
      BY DEF Mergeable
    <2>2. \A i \in DOMAIN ops : ops[i] \in T
      OBVIOUS
    <2> QED BY <2>1, <2>2
  <1>2. PICK N \in Nat : \E place \in [1..N -> DOMAIN ops] : Compacts(place, ops, N)
    BY <1>1, CompactPlaces
  <1>3. PICK place \in [1..N -> DOMAIN ops] : Compacts(place, ops, N)
    BY <1>2
  <1> DEFINE c == compactQueue(ops)
  <1>4. c = [n \in 1..N |-> mergedAt(ops, place[n])]
    BY <1>3 DEF Compacts
  <1>5. \A i \in DOMAIN ops : /\ mergedAt(ops, i) \in T
                              /\ mergedAt(ops, i).opId = ops[i].opId
                              /\ ~isState(ops[i]) => mergedAt(ops, i) = ops[i]
    <2> SUFFICES ASSUME NEW i \in DOMAIN ops
                 PROVE  /\ mergedAt(ops, i) \in T
                        /\ mergedAt(ops, i).opId = ops[i].opId
                        /\ ~isState(ops[i]) => mergedAt(ops, i) = ops[i]
      OBVIOUS
    <2>1. ops[i] \in T /\ ops[i] \in Op
      BY <1>1
    <2>2. \E v \in 0..MaxValue : mergedAt(ops, i) = [ops[i] EXCEPT !.value = v]
      BY <1>1, Merged
    <2>3. ops[i].kind # "progress.set" => mergedAt(ops, i) = ops[i]
      BY <1>1, Merged
    <2>4. mergedAt(ops, i) \in T
      BY <2>1, <2>2, <2>3 DEF Mergeable
    <2>5. mergedAt(ops, i).opId = ops[i].opId
      BY <2>1, <2>2 DEF Op
    <2>6. ~isState(ops[i]) => mergedAt(ops, i) = ops[i]
      BY <2>1, <2>3, StateKeys
    <2> QED BY <2>4, <2>5, <2>6
  <1>6. \A n \in 1..N : place[n] \in DOMAIN ops /\ c[n] = mergedAt(ops, place[n])
    BY <1>4
  <1>7. c \in Seq(T) /\ DOMAIN c = 1..N
    <2>1. \A n \in 1..N : c[n] \in T
      BY <1>5, <1>6
    <2>2. c \in [1..N -> T]
      <3> HIDE DEF c
      <3> QED BY <1>4, <2>1
    <2> HIDE DEF c
    <2> QED BY <2>2
  <1> HIDE DEF c
  <1>8. ids(c) \subseteq ids(ops)
    BY <1>5, <1>6, <1>7 DEF ids
  <1>9. ASSUME NEW op \in members(ops), ~isState(op) PROVE op \in members(c)
    <2>1. PICK i \in DOMAIN ops : op = ops[i]
      BY DEF members
    <2>2. stays(ops, i)
      BY <1>1, <1>9, <2>1, StateKeys DEF stays
    <2>3. PICK n \in 1..N : place[n] = i
      BY <1>3, <2>2 DEF Compacts
    <2>4. c[n] = op
      BY <1>5, <1>6, <1>9, <2>1, <2>3
    <2> QED BY <1>7, <2>4 DEF members
  <1> QED BY <1>7, <1>8, <1>9 DEF c, Condenses

LEMMA TrimSeq ==
    ASSUME NEW T, Mergeable(T), NEW ops \in Seq(T), NEW limit
    PROVE  trimQueue(ops, limit) \in Seq(T) /\ Condenses(trimQueue(ops, limit), ops)
  <1> DEFINE c == compactQueue(ops)
             state(i) == classifyOp(c[i].kind) = "state"
             dropped == {i \in DOMAIN c :
                            state(i) /\ Cardinality({j \in 1..i : state(j)}) <= Len(c) - limit}
             S == DOMAIN c \ dropped
             left == pick(c, S)
  <1>1. c \in Seq(T) /\ Condenses(c, ops)
    BY CompactSeq
  <1>2. trimQueue(ops, limit) = left
    BY DEF trimQueue
  <1>3. \A i \in DOMAIN c : ~isState(c[i]) => i \in S
    BY DEF isState
  <1>4. S \in SUBSET DOMAIN c
    OBVIOUS
  <1> HIDE DEF c, S
  <1>5. /\ left \in Seq(T)
        /\ \A n \in DOMAIN left : \E i \in S : left[n] = c[i]
        /\ \A i \in S : \E n \in DOMAIN left : left[n] = c[i]
    BY <1>1, <1>4, PickSeq
  <1> HIDE DEF left
  <1>6. ids(left) \subseteq ids(ops)
    <2>1. ids(left) \subseteq ids(c)
      BY <1>4, <1>5 DEF ids
    <2> QED BY <1>1, <2>1 DEF Condenses
  <1>7. ASSUME NEW op \in members(ops), ~isState(op) PROVE op \in members(left)
    <2>1. op \in members(c)
      BY <1>1, <1>7 DEF Condenses
    <2>2. PICK i \in DOMAIN c : op = c[i]
      BY <2>1 DEF members
    <2>3. i \in S
      BY <1>3, <1>7, <2>2
    <2> QED BY <1>5, <2>2, <2>3 DEF members
  <1> QED BY <1>2, <1>5, <1>6, <1>7 DEF Condenses

(* The ends of a queue. *)
LEMMA FirstOf ==
    ASSUME NEW T, NEW ops \in Seq(T), NEW n \in Nat
    PROVE  /\ firstOf(ops, n) \in Seq(T)
           /\ Len(firstOf(ops, n)) = IF Len(ops) < n THEN Len(ops) ELSE n
           /\ \A i \in DOMAIN firstOf(ops, n) : i \in DOMAIN ops /\ firstOf(ops, n)[i] = ops[i]
           /\ members(firstOf(ops, n)) \subseteq members(ops)
           /\ ids(firstOf(ops, n)) \subseteq ids(ops)
  <1> DEFINE m == IF Len(ops) < n THEN Len(ops) ELSE n
  <1>1. Len(ops) \in Nat /\ m \in 0..Len(ops)
    OBVIOUS
  <1>2. firstOf(ops, n) = SubSeq(ops, 1, m)
    BY DEF firstOf
  <1> HIDE DEF m
  <1>3. /\ firstOf(ops, n) \in Seq(T) /\ Len(firstOf(ops, n)) = m
        /\ \A i \in 1..m : firstOf(ops, n)[i] = ops[i]
    BY <1>1, <1>2
  <1>4. \A i \in DOMAIN firstOf(ops, n) : i \in DOMAIN ops /\ firstOf(ops, n)[i] = ops[i]
    <2>1. DOMAIN firstOf(ops, n) = 1..m
      BY <1>3
    <2> QED BY <1>1, <1>3, <2>1
  <1> QED BY <1>3, <1>4 DEF members, ids, m

LEMMA LastOf ==
    ASSUME NEW T, NEW ops \in Seq(T), NEW n \in Nat \ {0}
    PROVE  /\ lastOf(ops, n) \in Seq(T)
           /\ Len(ops) <= n => lastOf(ops, n) = ops
  <1>1. CASE Len(ops) <= n
    BY <1>1 DEF lastOf
  <1>2. CASE ~(Len(ops) <= n)
    <2>1. lastOf(ops, n) = SubSeq(ops, Len(ops) - n + 1, Len(ops))
      BY <1>2 DEF lastOf
    <2>2. Len(ops) - n + 1 \in 1..Len(ops)
      BY <1>2
    <2>3. SubSeq(ops, Len(ops) - n + 1, Len(ops)) \in Seq(T)
      BY <2>2, SubSeqProperties
    <2> QED BY <1>2, <2>1, <2>3
  <1> QED BY <1>1, <1>2

LEMMA Joined ==
    ASSUME NEW T, NEW a \in Seq(T), NEW b \in Seq(T)
    PROVE  /\ a \o b \in Seq(T)
           /\ members(a \o b) = members(a) \cup members(b)
           /\ ids(a \o b) = ids(a) \cup ids(b)
  <1>1. a \o b \in Seq(T) /\ Len(a \o b) = Len(a) + Len(b)
    OBVIOUS
  <1>2. \A i \in DOMAIN (a \o b) : (a \o b)[i] \in members(a) \cup members(b)
    <2> SUFFICES ASSUME NEW i \in 1..(Len(a) + Len(b))
                 PROVE  (a \o b)[i] \in members(a) \cup members(b)
      BY <1>1
    <2>1. CASE i <= Len(a)
      <3>1. i \in DOMAIN a /\ (a \o b)[i] = a[i]
        BY <2>1
      <3> QED BY <3>1 DEF members
    <2>2. CASE ~(i <= Len(a))
      <3>1. i - Len(a) \in DOMAIN b /\ (a \o b)[i] = b[i - Len(a)]
        BY <2>2
      <3> QED BY <3>1 DEF members
    <2> QED BY <2>1, <2>2
  <1>3. \A i \in DOMAIN a : i \in DOMAIN (a \o b) /\ (a \o b)[i] = a[i]
    BY <1>1
  <1>4. \A i \in DOMAIN b : Len(a) + i \in DOMAIN (a \o b) /\ (a \o b)[Len(a) + i] = b[i]
    BY <1>1
  <1>5. members(a \o b) = members(a) \cup members(b)
    <2>1. members(a \o b) \subseteq members(a) \cup members(b)
      <3> DEFINE all == members(a) \cup members(b)
      <3> HIDE DEF all
      <3> QED BY <1>2 DEF members, all
    <2>2. members(a) \subseteq members(a \o b) /\ members(b) \subseteq members(a \o b)
      BY <1>3, <1>4 DEF members
    <2> QED BY <2>1, <2>2
  <1>6. \A o : ids(o) = {op.opId : op \in members(o)}
    BY DEF ids, members
  <1> QED BY <1>1, <1>5, <1>6

LEMMA Appended ==
    ASSUME NEW T, NEW a \in Seq(T), NEW x \in T
    PROVE  /\ Append(a, x) \in Seq(T)
           /\ members(Append(a, x)) = members(a) \cup {x}
           /\ ids(Append(a, x)) = ids(a) \cup {x.opId}
  <1>1. Append(a, x) \in Seq(T) /\ Len(Append(a, x)) = Len(a) + 1 /\ Len(a) \in Nat
    OBVIOUS
  <1>2. \A i \in DOMAIN a : i \in DOMAIN Append(a, x) /\ Append(a, x)[i] = a[i]
    OBVIOUS
  <1>3. Len(a) + 1 \in DOMAIN Append(a, x) /\ Append(a, x)[Len(a) + 1] = x
    OBVIOUS
  <1>4. \A i \in DOMAIN Append(a, x) : i = Len(a) + 1 \/ i \in DOMAIN a
    BY <1>1
  <1>5. members(Append(a, x)) = members(a) \cup {x}
    BY <1>2, <1>3, <1>4 DEF members
  <1>6. \A o : ids(o) = {op.opId : op \in members(o)}
    BY DEF ids, members
  <1> QED BY <1>1, <1>5, <1>6

-------------------------------------------------------------------------------
(* The effects of writes, one after the other *)

Table == [favorite : [Key -> 0..MaxValue], progress : [Key -> 0..MaxValue],
          usage : Nat, comments : SUBSET Nat]

LEMMA EmptyTable == emptyTable \in Table /\ emptyTable.usage = 0
  BY QueueAssumption DEF emptyTable, Table

(* The reading time an operation brings. *)
credit(op) == IF op.kind = "usage.add" THEN op.value ELSE 0

LEMMA Effect ==
    ASSUME NEW t \in Table, NEW op \in Op
    PROVE  effect(t, op) \in Table /\ effect(t, op).usage = t.usage + credit(op)
  <1>1. op.kind \in Kind /\ op.key \in Key /\ op.value \in 0..MaxValue /\ op.opId \in Nat
    BY DEF Op
  <1>2. /\ t.favorite \in [Key -> 0..MaxValue] /\ t.progress \in [Key -> 0..MaxValue]
        /\ t.usage \in Nat /\ t.comments \in SUBSET Nat
    BY DEF Table
  <1>3. CASE op.kind = "favorite.set"
    <2>1. effect(t, op) = [t EXCEPT !.favorite = [t.favorite EXCEPT ![op.key] = op.value]]
      BY <1>3 DEF effect, setFavorite
    <2>2. [t.favorite EXCEPT ![op.key] = op.value] \in [Key -> 0..MaxValue]
      BY <1>1, <1>2
    <2>3. credit(op) = 0
      BY <1>3 DEF credit
    <2> QED BY <1>2, <2>1, <2>2, <2>3 DEF Table
  <1>4. CASE op.kind = "progress.set"
    <2> DEFINE far == IF op.value > t.progress[op.key] THEN op.value ELSE t.progress[op.key]
    <2>1. effect(t, op) = [t EXCEPT !.progress = [t.progress EXCEPT ![op.key] = far]]
      BY <1>4 DEF effect, setProgress
    <2>2. far \in 0..MaxValue
      BY <1>1, <1>2
    <2> HIDE DEF far
    <2>3. [t.progress EXCEPT ![op.key] = far] \in [Key -> 0..MaxValue]
      BY <1>1, <1>2, <2>2
    <2>4. credit(op) = 0
      BY <1>4 DEF credit
    <2> QED BY <1>2, <2>1, <2>3, <2>4 DEF Table
  <1>5. CASE op.kind = "usage.add"
    <2>1. effect(t, op) = [t EXCEPT !.usage = t.usage + op.value]
      BY <1>5 DEF effect, addUsage
    <2>2. t.usage + op.value \in Nat /\ credit(op) = op.value
      BY <1>1, <1>2, <1>5 DEF credit
    <2> QED BY <1>2, <2>1, <2>2 DEF Table
  <1>6. CASE op.kind = "comment.add"
    <2>1. effect(t, op) = [t EXCEPT !.comments = t.comments \cup {op.opId}]
      BY <1>6 DEF effect, addComment
    <2>2. credit(op) = 0 /\ t.comments \cup {op.opId} \in SUBSET Nat
      BY <1>1, <1>2, <1>6 DEF credit
    <2> QED BY <1>2, <2>1, <2>2 DEF Table
  <1> QED BY <1>1, <1>3, <1>4, <1>5, <1>6 DEF Kind

(* The tables after each of the operations. *)
Replays(after, t, ops) ==
    /\ after[0] = t
    /\ \A n \in 1..Len(ops) : after[n] = effect(after[n - 1], ops[n])
    /\ replay(t, ops) = after[Len(ops)]

LEMMA ReplayRuns ==
    ASSUME NEW t \in Table, NEW ops \in Seq(Op)
    PROVE  \E after \in [0..Len(ops) -> Table] : Replays(after, t, ops)
  <1> DEFINE N == Len(ops)
             step == [n \in 1..N |-> [u \in Table |-> effect(u, ops[n])]]
             fits(f) == f = [n \in 0..N |-> IF n = 0 THEN t ELSE effect(f[n - 1], ops[n])]
             run == CHOOSE f : fits(f)
  <1>1. N \in Nat /\ \A n \in 1..N : ops[n] \in Op
    OBVIOUS
  <1>2. step \in [1..N -> [Table -> Table]]
    <2>1. ASSUME NEW n \in 1..N PROVE [u \in Table |-> effect(u, ops[n])] \in [Table -> Table]
      BY <1>1, Effect
    <2> QED BY <2>1
  <1>3. PICK g \in [0..N -> Table] : Follows(g, N, t, step)
    <2> HIDE DEF N, step
    <2> QED BY <1>1, <1>2, Recursion
  <1>4. g[0] = t /\ \A n \in 1..N : g[n] = effect(g[n - 1], ops[n])
    <2>1. ASSUME NEW n \in 1..N PROVE g[n] = effect(g[n - 1], ops[n])
      <3>1. n - 1 \in 0..N /\ g[n - 1] \in Table
        BY <1>1
      <3>2. step[n][g[n - 1]] = effect(g[n - 1], ops[n])
        BY <3>1
      <3> QED BY <1>3, <3>2 DEF Follows
    <2> QED BY <1>3, <2>1 DEF Follows
  <1>5. fits(g)
    <2> DEFINE h == [n \in 0..N |-> IF n = 0 THEN t ELSE effect(g[n - 1], ops[n])]
    <2>1. \A n \in 0..N : g[n] = h[n]
      BY <1>1, <1>4
    <2>2. g = h
      <3>1. DOMAIN g = 0..N /\ DOMAIN h = 0..N
        OBVIOUS
      <3>2. h = [n \in 0..N |-> h[n]] /\ g = [n \in 0..N |-> g[n]]
        OBVIOUS
      <3> HIDE DEF h
      <3> QED BY <2>1, <3>2
    <2> QED BY <2>2
  <1>6. fits(run)
    <2> HIDE DEF fits
    <2> QED BY <1>5
  <1>7. replay(t, ops) = run[N]
    BY DEF replay
  <1> HIDE DEF run
  <1>8. run[0] = t /\ \A n \in 1..N : run[n] = effect(run[n - 1], ops[n])
    BY <1>1, <1>6
  <1>9. \A n \in 0..N : run[n] = g[n]
    <2> DEFINE good == {n \in 0..N : run[n] = g[n]}
    <2>1. 0 \in good
      BY <1>1, <1>4, <1>8
    <2>2. ASSUME NEW n \in 1..N, n - 1 \in good PROVE n \in good
      BY <1>4, <1>8, <2>2
    <2>3. \A n \in 0..N : n \in good
      <3> HIDE DEF good, N
      <3> QED BY <1>1, <2>1, <2>2, UpTo
    <2> QED BY <2>3
  <1>10. Replays(g, t, ops)
    BY <1>1, <1>4, <1>7, <1>9 DEF Replays
  <1> QED BY <1>3, <1>10

(* The reading time up to each of the operations. *)
Sums(total, ops, done) ==
    /\ total[0] = 0
    /\ \A n \in 1..Len(ops) :
           total[n] = total[n - 1] + IF ops[n].opId \in done THEN credit(ops[n]) ELSE 0
    /\ usageOf(ops, done) = total[Len(ops)]

LEMMA UsageSums ==
    ASSUME NEW ops \in Seq(Op), NEW done
    PROVE  \E total \in [0..Len(ops) -> Nat] : Sums(total, ops, done)
  <1> DEFINE N == Len(ops)
             more(n) == IF ops[n].kind = "usage.add" /\ ops[n].opId \in done
                        THEN ops[n].value ELSE 0
             step == [n \in 1..N |-> [u \in Nat |-> u + more(n)]]
             fits(f) == f = [n \in 0..N |-> IF n = 0 THEN 0 ELSE f[n - 1] + more(n)]
             run == CHOOSE f : fits(f)
  <1>1. N \in Nat /\ \A n \in 1..N : ops[n] \in Op
    OBVIOUS
  <1>2. \A n \in 1..N : /\ more(n) \in Nat
                        /\ more(n) = IF ops[n].opId \in done THEN credit(ops[n]) ELSE 0
    <2>1. \A n \in 1..N : ops[n].value \in Nat
      BY <1>1 DEF Op
    <2> QED BY <2>1 DEF credit
  <1> HIDE DEF more
  <1>3. step \in [1..N -> [Nat -> Nat]]
    BY <1>2
  <1>4. PICK g \in [0..N -> Nat] : Follows(g, N, 0, step)
    <2> HIDE DEF N, step
    <2> QED BY <1>1, <1>3, Recursion
  <1>5. g[0] = 0 /\ \A n \in 1..N : g[n] = g[n - 1] + more(n)
    <2>1. ASSUME NEW n \in 1..N PROVE g[n] = g[n - 1] + more(n)
      <3>1. n - 1 \in 0..N /\ g[n - 1] \in Nat
        BY <1>1
      <3>2. step[n][g[n - 1]] = g[n - 1] + more(n)
        BY <3>1
      <3> QED BY <1>4, <3>2 DEF Follows
    <2> QED BY <1>4, <2>1 DEF Follows
  <1>6. fits(g)
    <2> DEFINE h == [n \in 0..N |-> IF n = 0 THEN 0 ELSE g[n - 1] + more(n)]
    <2>1. \A n \in 0..N : g[n] = h[n]
      BY <1>1, <1>5
    <2>2. g = h
      <3>1. h = [n \in 0..N |-> h[n]] /\ g = [n \in 0..N |-> g[n]]
        OBVIOUS
      <3> HIDE DEF h
      <3> QED BY <2>1, <3>1
    <2> QED BY <2>2
  <1>7. fits(run)
    <2> HIDE DEF fits
    <2> QED BY <1>6
  <1>8. usageOf(ops, done) = run[N]
    BY DEF usageOf, more
  <1> HIDE DEF run
  <1>9. run[0] = 0 /\ \A n \in 1..N : run[n] = run[n - 1] + more(n)
    BY <1>1, <1>7
  <1>10. \A n \in 0..N : run[n] = g[n]
    <2> DEFINE good == {n \in 0..N : run[n] = g[n]}
    <2>1. 0 \in good
      BY <1>1, <1>5, <1>9
    <2>2. ASSUME NEW n \in 1..N, n - 1 \in good PROVE n \in good
      BY <1>5, <1>9, <2>2
    <2>3. \A n \in 0..N : n \in good
      <3> HIDE DEF good, N
      <3> QED BY <1>1, <2>1, <2>2, UpTo
    <2> QED BY <2>3
  <1>11. Sums(g, ops, done)
    BY <1>1, <1>2, <1>5, <1>8, <1>10 DEF Sums
  <1> QED BY <1>4, <1>11

-------------------------------------------------------------------------------
(* A compacted queue has the effect of the whole *)

about(op, kind, k) == op.kind = kind /\ op.key = k

(* What one write does to each part of the tables. *)
LEMMA EffectParts ==
    ASSUME NEW t \in Table, NEW op \in Op
    PROVE  /\ effect(t, op) \in Table
           /\ effect(t, op).usage = t.usage + credit(op)
           /\ effect(t, op).comments =
                 t.comments \cup (IF op.kind = "comment.add" THEN {op.opId} ELSE {})
           /\ \A k \in Key : effect(t, op).favorite[k] =
                 IF about(op, "favorite.set", k) THEN op.value ELSE t.favorite[k]
           /\ \A k \in Key : effect(t, op).progress[k] =
                 IF about(op, "progress.set", k) /\ op.value > t.progress[k]
                 THEN op.value ELSE t.progress[k]
  <1>1. op.kind \in Kind /\ op.key \in Key
    BY DEF Op
  <1>2. effect(t, op) \in Table /\ effect(t, op).usage = t.usage + credit(op)
    BY Effect
  <1>3. CASE op.kind = "favorite.set"
    <2>1. effect(t, op) = [t EXCEPT !.favorite = [t.favorite EXCEPT ![op.key] = op.value]]
      BY <1>3 DEF effect, setFavorite
    <2> QED BY <1>1, <1>2, <1>3, <2>1 DEF Table, about
  <1>4. CASE op.kind = "progress.set"
    <2> DEFINE far == IF op.value > t.progress[op.key] THEN op.value ELSE t.progress[op.key]
    <2>1. effect(t, op) = [t EXCEPT !.progress = [t.progress EXCEPT ![op.key] = far]]
      BY <1>4 DEF effect, setProgress
    <2>2. /\ effect(t, op).comments = t.comments /\ effect(t, op).favorite = t.favorite
          /\ effect(t, op).progress = [t.progress EXCEPT ![op.key] = far]
      BY <2>1 DEF Table
    <2>3. \A k \in Key : effect(t, op).progress[k] = IF k = op.key THEN far ELSE t.progress[k]
      BY <2>2 DEF Table
    <2> QED BY <1>1, <1>2, <1>4, <2>2, <2>3 DEF about
  <1>5. CASE op.kind = "usage.add"
    <2>1. effect(t, op) = [t EXCEPT !.usage = t.usage + op.value]
      BY <1>5 DEF effect, addUsage
    <2> QED BY <1>1, <1>2, <1>5, <2>1 DEF Table, about
  <1>6. CASE op.kind = "comment.add"
    <2>1. effect(t, op) = [t EXCEPT !.comments = t.comments \cup {op.opId}]
      BY <1>6 DEF effect, addComment
    <2> QED BY <1>1, <1>2, <1>6, <2>1 DEF Table, about
  <1> QED BY <1>1, <1>3, <1>4, <1>5, <1>6 DEF Kind

(* Where a state stays nothing later is about the same; what is no state     *)
(* stays.                                                                    *)
LEMMA StaysWhere ==
    ASSUME NEW ops \in Seq(Op), NEW i \in DOMAIN ops
    PROVE  /\ ~isState(ops[i]) => stays(ops, i)
           /\ isState(ops[i]) =>
                 (stays(ops, i) <=> \A j \in (i + 1)..Len(ops) :
                                        ~about(ops[j], ops[i].kind, ops[i].key))
  <1>1. Len(ops) \in Nat /\ DOMAIN ops = 1..Len(ops) /\ \A j \in 1..Len(ops) : ops[j] \in Op
    OBVIOUS
  <1>2. ~isState(ops[i]) => stays(ops, i)
    BY <1>1, StateKeys DEF stays
  <1>3. ASSUME isState(ops[i])
        PROVE  stays(ops, i) <=> \A j \in (i + 1)..Len(ops) :
                                     ~about(ops[j], ops[i].kind, ops[i].key)
    <2>1. stateKeyOf(ops[i]) # NoKey /\ stateKeyOf(ops[i]) = <<ops[i].kind, ops[i].key>>
          /\ ops[i].kind \in {"favorite.set", "progress.set"}
      BY <1>1, <1>3, StateKeys
    <2>2. ASSUME NEW j \in (i + 1)..Len(ops)
          PROVE  stateKeyOf(ops[j]) # stateKeyOf(ops[i])
                     <=> ~about(ops[j], ops[i].kind, ops[i].key)
      <3>1. j \in 1..Len(ops) /\ ops[j] \in Op /\ ops[i] \in Op
        BY <1>1
      <3>2. ASSUME about(ops[j], ops[i].kind, ops[i].key)
            PROVE  stateKeyOf(ops[j]) = stateKeyOf(ops[i])
        <4>1. isState(ops[j])
          BY <2>1, <3>1, <3>2, StateKeys DEF about
        <4> QED BY <2>1, <3>1, <3>2, <4>1, StateKeys DEF about
      <3>3. ASSUME stateKeyOf(ops[j]) = stateKeyOf(ops[i])
            PROVE  about(ops[j], ops[i].kind, ops[i].key)
        BY <1>3, <3>1, <3>3, SameKey DEF about
      <3> QED BY <3>2, <3>3
    <2> QED BY <2>1, <2>2 DEF stays
  <1> QED BY <1>2, <1>3

(* Merging an operation about progress. *)
LEMMA MergedParts ==
    ASSUME NEW ops \in Seq(Op), NEW i \in DOMAIN ops
    PROVE  LET m == mergedAt(ops, i)
           IN  /\ m \in Op /\ m.kind = ops[i].kind /\ m.key = ops[i].key /\ m.opId = ops[i].opId
               /\ m.kind # "progress.set" => m = ops[i]
               /\ m.kind = "progress.set" =>
                     /\ \A j \in 1..i : about(ops[j], "progress.set", m.key)
                                            => ops[j].value <= m.value
                     /\ \E j \in 1..i : /\ about(ops[j], "progress.set", m.key)
                                        /\ ops[j].value = m.value
  <1> DEFINE m == mergedAt(ops, i)
  <1>1. Len(ops) \in Nat /\ DOMAIN ops = 1..Len(ops) /\ \A j \in 1..Len(ops) : ops[j] \in Op
    OBVIOUS
  <1>2. /\ \E v \in 0..MaxValue : m = [ops[i] EXCEPT !.value = v]
        /\ ops[i].kind # "progress.set" => m = ops[i]
        /\ ops[i].kind = "progress.set" =>
                 /\ \A j \in 1..i : stateKeyOf(ops[j]) = stateKeyOf(ops[i])
                                      => ops[j].value <= m.value
                 /\ \E j \in 1..i : /\ stateKeyOf(ops[j]) = stateKeyOf(ops[i])
                                    /\ ops[j].value = m.value
    BY Merged
  <1> HIDE DEF m
  <1>3. m \in Op /\ m.kind = ops[i].kind /\ m.key = ops[i].key /\ m.opId = ops[i].opId
    <2>1. ops[i] \in Op
      BY <1>1
    <2> QED BY <1>2, <2>1 DEF Op
  <1>4. ASSUME ops[i].kind = "progress.set", NEW j \in 1..i
        PROVE  stateKeyOf(ops[j]) = stateKeyOf(ops[i])
                   <=> about(ops[j], "progress.set", ops[i].key)
    <2>1. ops[j] \in Op /\ ops[i] \in Op
      BY <1>1
    <2>2. isState(ops[i]) /\ stateKeyOf(ops[i]) = <<"progress.set", ops[i].key>>
      BY <1>4, <2>1, StateKeys
    <2>3. ASSUME about(ops[j], "progress.set", ops[i].key)
          PROVE  stateKeyOf(ops[j]) = stateKeyOf(ops[i])
      <3>1. isState(ops[j]) /\ stateKeyOf(ops[j]) = <<ops[j].kind, ops[j].key>>
        BY <2>1, <2>3, StateKeys DEF about
      <3> QED BY <2>2, <2>3, <3>1 DEF about
    <2>4. ASSUME stateKeyOf(ops[j]) = stateKeyOf(ops[i])
          PROVE  about(ops[j], "progress.set", ops[i].key)
      BY <1>4, <2>1, <2>2, <2>4, SameKey DEF about
    <2> QED BY <2>3, <2>4
  <1> QED BY <1>2, <1>3, <1>4 DEF m

(* How far the tables u of the whole queue and v of the compacted one, both  *)
(* begun from t, are alike after the first i operations: but for the states  *)
(* that are still to be written again.                                       *)
AlikeHearts(u, v, ops, i) ==
    \A k \in Key : (\A j \in (i + 1)..Len(ops) : ~about(ops[j], "favorite.set", k))
                       => v.favorite[k] = u.favorite[k]
ReachedFrom(t, u, ops, i) ==
    \A k \in Key :
        /\ \A j \in 1..i : about(ops[j], "progress.set", k) => ops[j].value <= u.progress[k]
        /\ \/ u.progress[k] = t.progress[k]
           \/ \E j \in 1..i : about(ops[j], "progress.set", k) /\ ops[j].value = u.progress[k]
AlikeProgress(t, u, v, ops, i) ==
    \A k \in Key :
        /\ t.progress[k] <= v.progress[k] /\ v.progress[k] <= u.progress[k]
        /\ (\A j \in (i + 1)..Len(ops) : ~about(ops[j], "progress.set", k))
               => v.progress[k] = u.progress[k]
Alike(t, u, v, ops, i) ==
    /\ v.usage = u.usage /\ v.comments = u.comments
    /\ AlikeHearts(u, v, ops, i) /\ ReachedFrom(t, u, ops, i)
    /\ AlikeProgress(t, u, v, ops, i)

(* One operation more: the whole queue takes it, the compacted one takes it  *)
(* merged where it stays.                                                    *)
taken(v, ops, i) == IF stays(ops, i) THEN effect(v, mergedAt(ops, i)) ELSE v

LEMMA HeartsStep ==
    ASSUME NEW u \in Table, NEW v \in Table, NEW ops \in Seq(Op), NEW i \in DOMAIN ops,
           AlikeHearts(u, v, ops, i - 1)
    PROVE  AlikeHearts(effect(u, ops[i]), taken(v, ops, i), ops, i)
  <1> DEFINE op == ops[i]  m == mergedAt(ops, i)
             last(k, n) == \A j \in (n + 1)..Len(ops) : ~about(ops[j], "favorite.set", k)
  <1>1. Len(ops) \in Nat /\ i \in 1..Len(ops) /\ op \in Op
    OBVIOUS
  <1>2. /\ m \in Op /\ m.kind = op.kind /\ m.key = op.key
        /\ m.kind # "progress.set" => m = op
    BY MergedParts
  <1>3. isState(op) => (stays(ops, i) <=> \A j \in (i + 1)..Len(ops) : ~about(ops[j], op.kind, op.key))
    BY StaysWhere
  <1>4. op.kind = "favorite.set" => isState(op)
    BY <1>1, StateKeys
  <1>5. \A k \in Key : effect(u, op).favorite[k] =
            IF about(op, "favorite.set", k) THEN op.value ELSE u.favorite[k]
    BY <1>1, EffectParts
  <1>6. \A k \in Key : effect(v, m).favorite[k] =
            IF about(m, "favorite.set", k) THEN m.value ELSE v.favorite[k]
    BY <1>2, EffectParts
  <1> HIDE DEF m
  <1> SUFFICES ASSUME NEW k \in Key, last(k, i)
               PROVE  taken(v, ops, i).favorite[k] = effect(u, op).favorite[k]
    BY DEF AlikeHearts
  <1>7. CASE about(op, "favorite.set", k)
    <2>1. stays(ops, i)
      BY <1>3, <1>4, <1>7 DEF about
    <2>2. about(m, "favorite.set", k) /\ m = op
      BY <1>2, <1>7 DEF about
    <2> QED BY <1>5, <1>6, <1>7, <2>1, <2>2 DEF taken, m
  <1>8. CASE ~about(op, "favorite.set", k)
    <2>1. last(k, i - 1)
      <3>1. \A j \in ((i - 1) + 1)..Len(ops) : j = i \/ j \in (i + 1)..Len(ops)
        BY <1>1
      <3> QED BY <1>8, <3>1
    <2>2. v.favorite[k] = u.favorite[k]
      BY <2>1 DEF AlikeHearts
    <2>3. ~about(m, "favorite.set", k)
      BY <1>2, <1>8 DEF about
    <2> QED BY <1>5, <1>6, <1>8, <2>2, <2>3 DEF taken, m
  <1> QED BY <1>7, <1>8

LEMMA ReachedStep ==
    ASSUME NEW t \in Table, NEW u \in Table, NEW ops \in Seq(Op), NEW i \in DOMAIN ops,
           ReachedFrom(t, u, ops, i - 1)
    PROVE  ReachedFrom(t, effect(u, ops[i]), ops, i)
  <1> DEFINE op == ops[i]  w == effect(u, op)
  <1>1. Len(ops) \in Nat /\ i \in 1..Len(ops) /\ op \in Op /\ \A j \in 1..Len(ops) : ops[j] \in Op
    OBVIOUS
  <1>2. w \in Table /\ \A k \in Key : w.progress[k] =
            IF about(op, "progress.set", k) /\ op.value > u.progress[k]
            THEN op.value ELSE u.progress[k]
    BY <1>1, EffectParts
  <1> HIDE DEF w
  <1> SUFFICES ASSUME NEW k \in Key
               PROVE  /\ \A j \in 1..i : about(ops[j], "progress.set", k)
                                             => ops[j].value <= w.progress[k]
                      /\ \/ w.progress[k] = t.progress[k]
                         \/ \E j \in 1..i : /\ about(ops[j], "progress.set", k)
                                            /\ ops[j].value = w.progress[k]
    BY DEF ReachedFrom, w
  <1>3. \A j \in 1..i : j = i \/ j \in 1..(i - 1)
    BY <1>1
  <1>4. u.progress[k] \in Nat /\ w.progress[k] \in Nat /\ u.progress[k] <= w.progress[k]
    <2>1. u.progress[k] \in 0..MaxValue /\ w.progress[k] \in 0..MaxValue
      BY <1>2 DEF Table
    <2> QED BY <1>2, <2>1, QueueAssumption
  <1>5. \A j \in 1..i : ops[j].value \in Nat
    <2>1. \A j \in 1..i : ops[j] \in Op
      BY <1>1
    <2> QED BY <2>1 DEF Op
  <1>6. ASSUME NEW j \in 1..i, about(ops[j], "progress.set", k)
        PROVE  ops[j].value <= w.progress[k]
    <2>1. CASE j = i
      BY <1>2, <1>4, <1>5, <1>6, <2>1
    <2>2. CASE j \in 1..(i - 1)
      <3>1. ops[j].value <= u.progress[k]
        BY <1>6, <2>2 DEF ReachedFrom
      <3> QED BY <1>4, <1>5, <3>1
    <2> QED BY <1>3, <2>1, <2>2
  <1>7. \/ w.progress[k] = t.progress[k]
        \/ \E j \in 1..i : /\ about(ops[j], "progress.set", k)
                           /\ ops[j].value = w.progress[k]
    <2>1. CASE w.progress[k] = op.value /\ about(op, "progress.set", k)
      BY <1>1, <2>1
    <2>2. CASE w.progress[k] = u.progress[k]
      <3>1. \A j \in 1..(i - 1) : j \in 1..i
        BY <1>1
      <3> QED BY <2>2, <3>1 DEF ReachedFrom
    <2> QED BY <1>2, <2>1, <2>2
  <1> QED BY <1>6, <1>7

LEMMA ProgressStep ==
    ASSUME NEW t \in Table, NEW u \in Table, NEW v \in Table,
           NEW ops \in Seq(Op), NEW i \in DOMAIN ops,
           AlikeProgress(t, u, v, ops, i - 1), ReachedFrom(t, effect(u, ops[i]), ops, i)
    PROVE  AlikeProgress(t, effect(u, ops[i]), taken(v, ops, i), ops, i)
  <1> DEFINE op == ops[i]  m == mergedAt(ops, i)  w == effect(u, op)  x == taken(v, ops, i)
             last(k, n) == \A j \in (n + 1)..Len(ops) : ~about(ops[j], "progress.set", k)
  <1>1. Len(ops) \in Nat /\ i \in 1..Len(ops) /\ op \in Op
    OBVIOUS
  <1>2. /\ m \in Op /\ m.kind = op.kind /\ m.key = op.key
        /\ m.kind = "progress.set" =>
             /\ \A j \in 1..i : about(ops[j], "progress.set", m.key) => ops[j].value <= m.value
             /\ \E j \in 1..i : about(ops[j], "progress.set", m.key) /\ ops[j].value = m.value
    BY MergedParts
  <1>3. isState(op) => (stays(ops, i) <=> \A j \in (i + 1)..Len(ops) : ~about(ops[j], op.kind, op.key))
    BY StaysWhere
  <1>4. op.kind = "progress.set" => isState(op)
    BY <1>1, StateKeys
  <1>5. w \in Table /\ \A k \in Key : w.progress[k] =
            IF about(op, "progress.set", k) /\ op.value > u.progress[k]
            THEN op.value ELSE u.progress[k]
    BY <1>1, EffectParts
  <1>6. effect(v, m) \in Table /\ \A k \in Key : effect(v, m).progress[k] =
            IF about(m, "progress.set", k) /\ m.value > v.progress[k]
            THEN m.value ELSE v.progress[k]
    BY <1>2, EffectParts
  <1> HIDE DEF m, w
  <1>7. x = IF stays(ops, i) THEN effect(v, m) ELSE v
    BY DEF taken, m
  <1> HIDE DEF x
  <1> SUFFICES ASSUME NEW k \in Key
               PROVE  /\ t.progress[k] <= x.progress[k] /\ x.progress[k] <= w.progress[k]
                      /\ last(k, i) => x.progress[k] = w.progress[k]
    BY DEF AlikeProgress, w, x
  <1>8. /\ t.progress[k] \in Nat /\ u.progress[k] \in Nat /\ v.progress[k] \in Nat
        /\ w.progress[k] \in Nat /\ x.progress[k] \in Nat /\ op.value \in Nat /\ m.value \in Nat
    <2>1. \A s \in Table : s.progress[k] \in Nat
      BY DEF Table
    <2>2. x \in Table
      BY <1>6, <1>7
    <2> QED BY <1>1, <1>2, <1>5, <2>1, <2>2 DEF Op
  <1>9. t.progress[k] <= v.progress[k] /\ v.progress[k] <= u.progress[k]
    BY DEF AlikeProgress
  <1>10. u.progress[k] <= w.progress[k]
    BY <1>5, <1>8
  <1>11. CASE about(op, "progress.set", k)
    <2>1. about(m, "progress.set", k) /\ m.kind = "progress.set" /\ m.key = k
      BY <1>2, <1>11 DEF about
    <2>2. m.value <= w.progress[k]
      BY <1>2, <2>1 DEF ReachedFrom, w
    <2>3. \/ x.progress[k] = v.progress[k]
          \/ x.progress[k] = m.value /\ m.value > v.progress[k]
      BY <1>6, <1>7
    <2>4. t.progress[k] <= x.progress[k] /\ x.progress[k] <= w.progress[k]
      BY <1>8, <1>9, <1>10, <2>2, <2>3
    <2>5. ASSUME last(k, i) PROVE x.progress[k] = w.progress[k]
      <3>1. stays(ops, i)
        BY <1>3, <1>4, <1>11, <2>5 DEF about
      <3>2. x.progress[k] >= m.value /\ x.progress[k] >= v.progress[k]
        BY <1>6, <1>7, <1>8, <2>1, <3>1
      <3>3. w.progress[k] = t.progress[k] \/ w.progress[k] <= m.value
        BY <1>2, <2>1 DEF ReachedFrom, w
      <3>4. w.progress[k] <= x.progress[k]
        BY <1>8, <1>9, <3>2, <3>3
      <3> QED BY <1>8, <2>4, <3>4
    <2> QED BY <2>4, <2>5
  <1>12. CASE ~about(op, "progress.set", k)
    <2>1. ~about(m, "progress.set", k)
      BY <1>2, <1>12 DEF about
    <2>2. x.progress[k] = v.progress[k] /\ w.progress[k] = u.progress[k]
      BY <1>5, <1>6, <1>7, <1>12, <2>1
    <2>3. last(k, i) => last(k, i - 1)
      <3>1. \A j \in ((i - 1) + 1)..Len(ops) : j = i \/ j \in (i + 1)..Len(ops)
        BY <1>1
      <3> QED BY <1>12, <3>1
    <2>4. last(k, i - 1) => v.progress[k] = u.progress[k]
      BY DEF AlikeProgress
    <2> QED BY <1>9, <2>2, <2>3, <2>4
  <1> QED BY <1>11, <1>12

LEMMA AlikeStep ==
    ASSUME NEW t \in Table, NEW u \in Table, NEW v \in Table,
           NEW ops \in Seq(Op), NEW i \in DOMAIN ops, Alike(t, u, v, ops, i - 1)
    PROVE  Alike(t, effect(u, ops[i]), taken(v, ops, i), ops, i)
  <1> DEFINE op == ops[i]  m == mergedAt(ops, i)
  <1>1. op \in Op
    OBVIOUS
  <1>2. ReachedFrom(t, effect(u, op), ops, i)
    BY ReachedStep DEF Alike
  <1>3. AlikeProgress(t, effect(u, op), taken(v, ops, i), ops, i)
    BY <1>2, ProgressStep DEF Alike
  <1>4. AlikeHearts(effect(u, op), taken(v, ops, i), ops, i)
    BY HeartsStep DEF Alike
  <1>5. v.usage = u.usage /\ v.comments = u.comments
    BY DEF Alike
  <1>6. /\ effect(u, op).usage = u.usage + credit(op)
        /\ effect(u, op).comments =
              u.comments \cup (IF op.kind = "comment.add" THEN {op.opId} ELSE {})
    BY <1>1, EffectParts
  <1>7. CASE isState(op)
    <2>1. m \in Op /\ m.kind = op.kind /\ m.kind \notin {"usage.add", "comment.add"}
      BY <1>1, <1>7, MergedParts, StateKeys
    <2>2. /\ effect(v, m).usage = v.usage + credit(m)
          /\ effect(v, m).comments =
                v.comments \cup (IF m.kind = "comment.add" THEN {m.opId} ELSE {})
      BY <2>1, EffectParts
    <2>3. credit(m) = 0 /\ credit(op) = 0 /\ u.usage \in Nat
      BY <2>1 DEF credit, Table
    <2> HIDE DEF m
    <2>4. /\ effect(u, op).usage = u.usage /\ effect(u, op).comments = u.comments
          /\ effect(v, m).usage = v.usage /\ effect(v, m).comments = v.comments
      BY <1>5, <1>6, <2>1, <2>2, <2>3
    <2>5. taken(v, ops, i) = effect(v, m) \/ taken(v, ops, i) = v
      BY DEF taken, m
    <2>6. taken(v, ops, i).usage = effect(u, op).usage
          /\ taken(v, ops, i).comments = effect(u, op).comments
      BY <1>5, <2>4, <2>5
    <2> QED BY <1>2, <1>3, <1>4, <2>6 DEF Alike
  <1>8. CASE ~isState(op)
    <2>1. stays(ops, i)
      BY <1>8, StaysWhere
    <2>2. m = op
      BY <1>1, <1>8, MergedParts, StateKeys
    <2>3. taken(v, ops, i) = effect(v, op)
      BY <2>1, <2>2 DEF taken
    <2>4. /\ effect(v, op).usage = v.usage + credit(op)
          /\ effect(v, op).comments =
                v.comments \cup (IF op.kind = "comment.add" THEN {op.opId} ELSE {})
      BY <1>1, EffectParts
    <2> QED BY <1>2, <1>3, <1>4, <1>5, <1>6, <2>3, <2>4 DEF Alike
  <1> QED BY <1>7, <1>8

(* Sending a compacted queue leaves the server where sending the whole would, *)
(* whatever the server held before: for queues of any length.                *)
THEOREM CompactionIsExact ==
    ASSUME NEW ops \in Seq(Op), NEW t \in Table
    PROVE  replay(t, compactQueue(ops)) = replay(t, ops)
  <1> DEFINE L == Len(ops)
             S == {i \in DOMAIN ops : stays(ops, i)}
             N == Cardinality(S)
             all == [i \in DOMAIN ops |-> mergedAt(ops, i)]
             c == compactQueue(ops)
  <1>1. L \in Nat /\ DOMAIN ops = 1..L /\ S \subseteq 1..L
    OBVIOUS
  <1>2. /\ S \subseteq Nat /\ IsFiniteSet(S) /\ N \in Nat
        /\ rank(S, 0) = 0 /\ rank(S, L) = N
        /\ \A i \in 0..L : rank(S, i) \in 0..N
        /\ \A i \in 1..L : rank(S, i) = rank(S, i - 1) + IF i \in S THEN 1 ELSE 0
    <2> HIDE DEF S, L
    <2> QED BY <1>1, RankGrows
  <1>3. c = pick(all, S)
    BY DEF compactQueue, stays
  <1>4. all \in Seq(Op)
    BY <1>1, MergedParts
  <1>5. c \in Seq(Op) /\ Len(c) = N
    <2>1. S \in SUBSET DOMAIN all
      OBVIOUS
    <2> HIDE DEF S, all
    <2> QED BY <1>3, <1>4, <2>1, PickSeq
  <1>6. \A i \in S : c[rank(S, i)] = mergedAt(ops, i) /\ rank(S, i) \in 1..N
    <2>1. \A i \in S : all[i] = mergedAt(ops, i)
      OBVIOUS
    <2> HIDE DEF S, all, c
    <2>2. ASSUME NEW i \in S PROVE c[rank(S, i)] = all[i] /\ rank(S, i) \in 1..N
      BY <1>2, <1>3, PickAt
    <2> QED BY <2>1, <2>2
  <1>7. \A i \in DOMAIN ops : i \in S <=> stays(ops, i)
    OBVIOUS
  <1> HIDE DEF S, N, all, c
  <1>8. PICK a \in [0..L -> Table] : Replays(a, t, ops)
    BY <1>1, ReplayRuns
  <1>9. PICK b \in [0..N -> Table] : Replays(b, t, c)
    BY <1>5, ReplayRuns
  <1> DEFINE good == {i \in 0..L : Alike(t, a[i], b[rank(S, i)], ops, i)}
  <1>10. 0 \in good
    <2>1. a[0] = t /\ b[rank(S, 0)] = t
      BY <1>2, <1>8, <1>9 DEF Replays
    <2>2. \A k \in Key : t.progress[k] \in Nat
      BY DEF Table
    <2>3. Alike(t, t, t, ops, 0)
      BY <2>2 DEF Alike, AlikeHearts, ReachedFrom, AlikeProgress
    <2> QED BY <1>1, <2>1, <2>3
  <1>11. ASSUME NEW i \in 1..L, i - 1 \in good PROVE i \in good
    <2> DEFINE u == a[i - 1]  v == b[rank(S, i - 1)]
    <2>1. i - 1 \in 0..L /\ i \in 0..L /\ i \in DOMAIN ops
      BY <1>1
    <2>2. u \in Table /\ v \in Table
      BY <1>2, <2>1
    <2>3. a[i] = effect(u, ops[i])
      BY <1>8 DEF Replays
    <2>4. b[rank(S, i)] = taken(v, ops, i)
      <3>1. CASE i \in S
        <4>1. rank(S, i) = rank(S, i - 1) + 1 /\ rank(S, i) \in 1..N /\ rank(S, i - 1) \in Nat
          BY <1>2, <1>6, <2>1, <3>1
        <4>2. rank(S, i) - 1 = rank(S, i - 1)
          BY <4>1
        <4>3. b[rank(S, i)] = effect(b[rank(S, i) - 1], c[rank(S, i)])
          BY <1>5, <1>9, <4>1 DEF Replays
        <4> QED BY <1>6, <1>7, <2>1, <3>1, <4>2, <4>3 DEF taken
      <3>2. CASE i \notin S
        <4>1. rank(S, i) = rank(S, i - 1)
          BY <1>2, <2>1, <3>2
        <4> QED BY <1>7, <2>1, <3>2, <4>1 DEF taken
      <3> QED BY <3>1, <3>2
    <2>5. Alike(t, u, v, ops, i - 1)
      BY <1>11
    <2> HIDE DEF u, v
    <2>6. Alike(t, effect(u, ops[i]), taken(v, ops, i), ops, i)
      BY <2>1, <2>2, <2>5, AlikeStep
    <2> QED BY <2>1, <2>3, <2>4, <2>6
  <1>12. \A i \in 0..L : i \in good
    <2> HIDE DEF good, L
    <2> QED BY <1>1, <1>10, <1>11, UpTo
  <1>13. Alike(t, a[L], b[N], ops, L)
    BY <1>1, <1>2, <1>12
  <1>14. a[L] \in Table /\ b[N] \in Table
    BY <1>1, <1>2
  <1>15. a[L].favorite = b[N].favorite
    <2>1. \A k \in Key : a[L].favorite[k] = b[N].favorite[k]
      BY <1>1, <1>13 DEF Alike, AlikeHearts
    <2>2. a[L].favorite \in [Key -> 0..MaxValue] /\ b[N].favorite \in [Key -> 0..MaxValue]
      BY <1>14 DEF Table
    <2> QED BY <2>1, <2>2
  <1>16. a[L].progress = b[N].progress
    <2>1. \A k \in Key : a[L].progress[k] = b[N].progress[k]
      BY <1>1, <1>13 DEF Alike, AlikeProgress
    <2>2. a[L].progress \in [Key -> 0..MaxValue] /\ b[N].progress \in [Key -> 0..MaxValue]
      BY <1>14 DEF Table
    <2> QED BY <2>1, <2>2
  <1>17. a[L].usage = b[N].usage /\ a[L].comments = b[N].comments
    BY <1>13 DEF Alike
  <1>18. a[L] = b[N]
    <2>1. \A u \in Table : u = [favorite |-> u.favorite, progress |-> u.progress,
                                usage |-> u.usage, comments |-> u.comments]
      BY DEF Table
    <2> QED BY <1>14, <1>15, <1>16, <1>17, <2>1
  <1> QED BY <1>5, <1>8, <1>9, <1>18 DEF Replays, c

(* Every queue of any number of writes about any keys: compacting it changes *)
(* nothing of what the server comes to (rules 1 and 2 of queue.js).          *)
THEOREM AnyQueueCompacts == QueueSpec => []CompactionKeepsEffect
  <1> DEFINE Queued == waiting \in Seq(Op)
  <1>1. NothingWaits => Queued
    BY DEF NothingWaits
  <1>2. Queued /\ [Write]_waiting => Queued'
    <2> SUFFICES ASSUME Queued, Write PROVE waiting' \in Seq(Op)
      OBVIOUS
    <2>1. PICK p \in Payload :
             waiting' = Append(waiting, [opId |-> Len(waiting) + 1,
                                         kind |-> p.kind, key |-> p.key, value |-> p.value])
      BY DEF Write
    <2>2. Len(waiting) + 1 \in Nat \ {0}
      OBVIOUS
    <2>3. [opId |-> Len(waiting) + 1, kind |-> p.kind, key |-> p.key, value |-> p.value] \in Op
      BY <2>2 DEF Op, Payload
    <2> QED BY <2>1, <2>3
  <1>3. Queued => CompactionKeepsEffect
    <2> SUFFICES ASSUME Queued, NEW p \in [Key -> 0..MaxValue]
                 PROVE  LET before == [emptyTable EXCEPT !.progress = p]
                        IN  replay(before, compactQueue(waiting)) = replay(before, waiting)
      BY DEF CompactionKeepsEffect
    <2> DEFINE before == [emptyTable EXCEPT !.progress = p]
    <2>1. before \in Table
      <3>1. emptyTable \in Table
        BY EmptyTable
      <3> QED BY <3>1 DEF Table
    <2> HIDE DEF before
    <2>2. replay(before, compactQueue(waiting)) = replay(before, waiting)
      BY <2>1, CompactionIsExact
    <2> QED BY <2>2 DEF before
  <1> QED BY <1>1, <1>2, <1>3, PTL DEF QueueSpec

-------------------------------------------------------------------------------
(* What was written, and what it adds up to *)

(* What has been written: each operation under the next identifier. *)
History(w) == w \in Seq(Op) /\ \A i \in DOMAIN w : w[i].opId = i

LEMMA UsageNone == \A done : usageOf(<<>>, done) = 0
  <1> SUFFICES ASSUME NEW done PROVE usageOf(<<>>, done) = 0
    OBVIOUS
  <1>1. <<>> \in Seq(Op) /\ Len(<<>>) = 0
    OBVIOUS
  <1>2. PICK total \in [0..Len(<<>>) -> Nat] : Sums(total, <<>>, done)
    BY <1>1, UsageSums
  <1> QED BY <1>1, <1>2 DEF Sums

(* One more operation counts once. *)
LEMMA UsageMore ==
    ASSUME NEW w, History(w), NEW done, NEW i \in DOMAIN w, i \notin done
    PROVE  usageOf(w, done \cup {i}) = usageOf(w, done) + credit(w[i])
  <1> DEFINE N == Len(w)  more == done \cup {i}
  <1>1. N \in Nat /\ DOMAIN w = 1..N /\ w \in Seq(Op) /\ \A n \in 1..N : w[n].opId = n
    BY DEF History
  <1>2. PICK a \in [0..N -> Nat] : Sums(a, w, done)
    BY <1>1, UsageSums
  <1>3. PICK b \in [0..N -> Nat] : Sums(b, w, more)
    <2> HIDE DEF more
    <2> QED BY <1>1, UsageSums
  <1>4. credit(w[i]) \in Nat
    <2>1. w[i] \in Op
      BY <1>1
    <2> QED BY <2>1 DEF credit, Op
  <1> DEFINE good == {n \in 0..N : b[n] = a[n] + IF i <= n THEN credit(w[i]) ELSE 0}
  <1>5. 0 \in good
    BY <1>1, <1>2, <1>3 DEF Sums
  <1>6. ASSUME NEW n \in 1..N, n - 1 \in good PROVE n \in good
    <2>1. a[n] = a[n - 1] + IF n \in done THEN credit(w[n]) ELSE 0
      BY <1>1, <1>2 DEF Sums
    <2>2. b[n] = b[n - 1] + IF n \in more THEN credit(w[n]) ELSE 0
      BY <1>1, <1>3 DEF Sums
    <2>3. a[n - 1] \in Nat /\ b[n - 1] \in Nat /\ n - 1 \in 0..N
      BY <1>1
    <2>4. credit(w[n]) \in Nat
      <3>1. w[n] \in Op
        BY <1>1
      <3> QED BY <3>1 DEF credit, Op
    <2>5. b[n - 1] = a[n - 1] + IF i <= n - 1 THEN credit(w[i]) ELSE 0
      BY <1>6
    <2>6. CASE n = i
      BY <1>1, <1>4, <2>1, <2>2, <2>3, <2>5, <2>6
    <2>7. CASE n # i
      <3>1. n \in more <=> n \in done
        BY <2>7
      <3>2. i <= n <=> i <= n - 1
        BY <1>1, <2>7
      <3> HIDE DEF more
      <3> QED BY <1>1, <1>4, <2>1, <2>2, <2>3, <2>4, <2>5, <3>1, <3>2
    <2> QED BY <2>6, <2>7
  <1>7. \A n \in 0..N : n \in good
    <2> HIDE DEF good, N
    <2> QED BY <1>1, <1>5, <1>6, UpTo
  <1>8. b[N] = a[N] + credit(w[i])
    BY <1>1, <1>7
  <1> QED BY <1>2, <1>3, <1>8 DEF Sums

(* A write the server has not applied does not count. *)
LEMMA UsageSame ==
    ASSUME NEW w, History(w), NEW done, NEW op \in Op, op.opId \notin done
    PROVE  usageOf(Append(w, op), done) = usageOf(w, done)
  <1> DEFINE N == Len(w)  longer == Append(w, op)
  <1>1. N \in Nat /\ w \in Seq(Op) /\ longer \in Seq(Op) /\ Len(longer) = N + 1
        /\ longer[N + 1] = op /\ \A n \in 1..N : longer[n] = w[n]
    BY DEF History
  <1> HIDE DEF longer
  <1>2. PICK a \in [0..N -> Nat] : Sums(a, w, done)
    BY <1>1, UsageSums
  <1>3. PICK b \in [0..Len(longer) -> Nat] : Sums(b, longer, done)
    BY <1>1, UsageSums
  <1> DEFINE good == {n \in 0..N : b[n] = a[n]}
  <1>4. 0 \in good
    BY <1>1, <1>2, <1>3 DEF Sums
  <1>5. ASSUME NEW n \in 1..N, n - 1 \in good PROVE n \in good
    <2>1. n \in 1..Len(longer) /\ longer[n] = w[n]
      BY <1>1
    <2>2. a[n] = a[n - 1] + IF w[n].opId \in done THEN credit(w[n]) ELSE 0
      BY <1>2 DEF Sums
    <2>3. b[n] = b[n - 1] + IF w[n].opId \in done THEN credit(w[n]) ELSE 0
      BY <1>3, <2>1 DEF Sums
    <2>4. b[n - 1] = a[n - 1]
      BY <1>5
    <2> QED BY <2>2, <2>3, <2>4
  <1>6. \A n \in 0..N : n \in good
    <2> HIDE DEF good, N
    <2> QED BY <1>1, <1>4, <1>5, UpTo
  <1>7. b[N + 1] = b[N]
    <2>1. N + 1 \in 1..Len(longer) /\ b[N] \in Nat /\ (N + 1) - 1 = N
      BY <1>1
    <2> QED BY <1>1, <1>3, <2>1 DEF Sums
  <1>8. b[Len(longer)] = a[N]
    BY <1>1, <1>6, <1>7
  <1> QED BY <1>2, <1>3, <1>8 DEF Sums, longer

(* The operations that may be about for what has been written: merging moves *)
(* the value of a progress, and nothing else.                                *)
Genuine(w) ==
    {op \in Op : /\ op.opId \in DOMAIN w
                 /\ op.kind = w[op.opId].kind /\ op.key = w[op.opId].key
                 /\ op.kind # "progress.set" => op.value = w[op.opId].value}

LEMMA GenuineMergeable == ASSUME NEW w PROVE Mergeable(Genuine(w))
  <1>1. ASSUME NEW op \in Genuine(w), NEW v \in 0..MaxValue, op.kind = "progress.set"
        PROVE  [op EXCEPT !.value = v] \in Genuine(w)
    BY <1>1 DEF Genuine, Op
  <1> QED BY <1>1 DEF Mergeable, Genuine

LEMMA SeqMono ==
    ASSUME NEW A, NEW B, A \subseteq B, NEW s \in Seq(A)
    PROVE  s \in Seq(B)
  OBVIOUS

LEMMA GenuineGrows ==
    ASSUME NEW w, History(w), NEW op \in Op, op.opId = Len(w) + 1
    PROVE  /\ History(Append(w, op))
           /\ Genuine(w) \subseteq Genuine(Append(w, op))
           /\ op \in Genuine(Append(w, op))
  <1> DEFINE longer == Append(w, op)
  <1>1. w \in Seq(Op) /\ Len(w) \in Nat
    BY DEF History
  <1>2. /\ longer \in Seq(Op) /\ DOMAIN longer = DOMAIN w \cup {Len(w) + 1}
        /\ longer[Len(w) + 1] = op /\ \A n \in DOMAIN w : longer[n] = w[n]
    <2>1. longer \in Seq(Op) /\ Len(longer) = Len(w) + 1 /\ longer[Len(w) + 1] = op
          /\ \A n \in 1..Len(w) : longer[n] = w[n]
      BY <1>1
    <2>2. DOMAIN w = 1..Len(w) /\ DOMAIN longer = 1..(Len(w) + 1)
      BY <1>1, <2>1
    <2> HIDE DEF longer
    <2> QED BY <1>1, <2>1, <2>2
  <1> HIDE DEF longer
  <1>3. History(longer)
    BY <1>2 DEF History
  <1>4. Genuine(w) \subseteq Genuine(longer)
    BY <1>2 DEF Genuine
  <1>5. op \in Genuine(longer)
    BY <1>2 DEF Genuine
  <1> QED BY <1>3, <1>4, <1>5 DEF longer

-------------------------------------------------------------------------------
(* The server: what a batch does to its tables *)

fresh(batch) ==
    {i \in DOMAIN batch :
        /\ batch[i].opId \notin applied
        /\ applicable(batch[i])
        /\ \A j \in 1..(i - 1) : batch[j].opId # batch[i].opId}

(* What is fresh in a batch, in its order, and each identifier once. *)
LEMMA FreshOnce ==
    ASSUME NEW T, NEW batch \in Seq(T)
    PROVE  LET p == pick(batch, fresh(batch))
           IN  /\ p \in Seq(T)
               /\ \A n \in DOMAIN p : /\ p[n] \in members(batch)
                                      /\ p[n].opId \notin applied
                                      /\ \A m \in 1..(n - 1) : p[m].opId # p[n].opId
               /\ {batch[i].opId : i \in fresh(batch)} = ids(p)
  <1> DEFINE S == fresh(batch)
             p == pick(batch, S)
  <1>1. S \in SUBSET DOMAIN batch /\ S \subseteq Nat /\ IsFiniteSet(S)
    <2>1. DOMAIN batch = 1..Len(batch) /\ Len(batch) \in Nat
      OBVIOUS
    <2>2. S \in SUBSET (1..Len(batch)) /\ IsFiniteSet(1..Len(batch))
      BY <2>1, FS_Interval DEF fresh
    <2> HIDE DEF S
    <2>3. IsFiniteSet(S)
      BY <2>2, FS_Subset
    <2> QED BY <2>1, <2>2, <2>3
  <1>2. \A i \in S : /\ batch[i].opId \notin applied
                     /\ \A j \in 1..(i - 1) : batch[j].opId # batch[i].opId
    BY DEF fresh
  <1> HIDE DEF S
  <1>3. /\ p \in Seq(T) /\ Len(p) = Cardinality(S) /\ Cardinality(S) \in Nat
        /\ \A n \in DOMAIN p : \E i \in S : p[n] = batch[i]
        /\ \A i \in S : \E n \in DOMAIN p : p[n] = batch[i]
    BY <1>1, PickSeq
  <1>4. PICK place \in [1..Cardinality(S) -> S] : Picks(place, batch, S)
    BY <1>1, PickPlaces
  <1>5. DOMAIN p = 1..Cardinality(S)
    BY <1>3
  <1>6. \A n \in DOMAIN p : p[n] = batch[place[n]] /\ place[n] \in S
    BY <1>4, <1>5 DEF Picks
  <1>7. ASSUME NEW n \in DOMAIN p, NEW m \in 1..(n - 1) PROVE p[m].opId # p[n].opId
    <2>1. m \in DOMAIN p /\ m < n /\ n \in 1..Cardinality(S) /\ m \in 1..Cardinality(S)
      <3> DEFINE N == Cardinality(S)
      <3>1. N \in Nat /\ DOMAIN p = 1..N
        BY <1>3, <1>5
      <3>2. n \in 1..N
        BY <3>1
      <3> HIDE DEF N, p
      <3>3. m \in 1..N /\ m < n
        BY <3>1, <3>2
      <3> QED BY <3>1, <3>2, <3>3 DEF N
    <2>2. place[m] < place[n]
      BY <1>4, <2>1 DEF Picks
    <2>3. place[m] \in DOMAIN batch /\ place[n] \in DOMAIN batch /\ place[n] \in S
      BY <1>1, <1>6, <2>1
    <2>4. place[m] \in 1..(place[n] - 1)
      BY <2>2, <2>3
    <2> QED BY <1>2, <1>6, <2>1, <2>3, <2>4
  <1>8. \A n \in DOMAIN p : p[n] \in members(batch) /\ p[n].opId \notin applied
    BY <1>1, <1>2, <1>6 DEF members
  <1>9. {batch[i].opId : i \in S} = ids(p)
    <2> HIDE DEF p
    <2>1. \A i \in S : batch[i].opId \in ids(p)
      BY <1>3 DEF ids
    <2>2. \A n \in DOMAIN p : p[n].opId \in {batch[i].opId : i \in S}
      BY <1>3
    <2> QED BY <2>1, <2>2 DEF ids
  <1> QED BY <1>3, <1>7, <1>8, <1>9 DEF S

(* The server counts what it applies, once. *)
LEMMA HandleCounts ==
    ASSUME History(written), NEW batch \in Seq(Genuine(written)), handle(batch),
           table \in Table, applied \subseteq DOMAIN written,
           table.usage = usageOf(written, applied)
    PROVE  /\ table' \in Table
           /\ applied' = applied \cup ids(pick(batch, fresh(batch)))
           /\ applied' \subseteq DOMAIN written
           /\ table'.usage = usageOf(written, applied')
  <1> DEFINE p == pick(batch, fresh(batch))
             N == Len(p)
             done(n) == applied \cup {p[m].opId : m \in 1..n}
  <1>1. /\ p \in Seq(Genuine(written))
        /\ \A n \in DOMAIN p : /\ p[n] \in members(batch)
                               /\ p[n].opId \notin applied
                               /\ \A m \in 1..(n - 1) : p[m].opId # p[n].opId
        /\ {batch[i].opId : i \in fresh(batch)} = ids(p)
    BY FreshOnce
  <1>2. table' = replay(table, p) /\ applied' = applied \cup {batch[i].opId : i \in fresh(batch)}
    BY DEF handle, fresh
  <1> HIDE DEF p
  <1>3. applied' = applied \cup ids(p)
    BY <1>1, <1>2
  <1>4. p \in Seq(Op) /\ N \in Nat /\ DOMAIN p = 1..N
    <2>1. Genuine(written) \subseteq Op
      BY DEF Genuine
    <2>2. p \in Seq(Op)
      BY <1>1, <2>1, SeqMono
    <2> QED BY <2>2
  <1>5. PICK after \in [0..N -> Table] : Replays(after, table, p)
    BY <1>4, ReplayRuns
  <1> DEFINE good == {n \in 0..N : after[n].usage = usageOf(written, done(n))}
  <1>6. 0 \in good
    <2>1. done(0) = applied
      OBVIOUS
    <2>2. after[0] = table
      BY <1>5 DEF Replays
    <2> HIDE DEF done
    <2> QED BY <1>4, <2>1, <2>2
  <1>7. ASSUME NEW n \in 1..N, n - 1 \in good PROVE n \in good
    <2> DEFINE i == p[n].opId
    <2>1. p[n] \in Genuine(written) /\ p[n] \in Op
      BY <1>1, <1>4
    <2>2. i \in DOMAIN written /\ credit(p[n]) = credit(written[i])
      BY <2>1 DEF Genuine, credit
    <2>3. done(n) = done(n - 1) \cup {i}
      <3>1. 1..n = (1..(n - 1)) \cup {n}
        BY <1>4
      <3> QED BY <3>1
    <2>4. i \notin done(n - 1)
      BY <1>1, <1>4
    <2> HIDE DEF done, i
    <2>5. usageOf(written, done(n)) = usageOf(written, done(n - 1)) + credit(written[i])
      BY <2>2, <2>3, <2>4, UsageMore
    <2>6. n - 1 \in 0..N /\ after[n - 1] \in Table
      BY <1>4
    <2>7. after[n] = effect(after[n - 1], p[n])
      BY <1>5 DEF Replays
    <2>8. after[n].usage = after[n - 1].usage + credit(p[n])
      BY <2>1, <2>6, <2>7, Effect
    <2> QED BY <1>7, <2>2, <2>5, <2>8
  <1>8. \A n \in 0..N : n \in good
    <2> HIDE DEF good, N
    <2> QED BY <1>4, <1>6, <1>7, UpTo
  <1>9. done(N) = applied'
    BY <1>3, <1>4 DEF ids
  <1>10. table' = after[N] /\ N \in 0..N
    BY <1>2, <1>4, <1>5 DEF Replays
  <1>11. applied' \subseteq DOMAIN written
    <2>1. \A n \in DOMAIN p : p[n].opId \in DOMAIN written
      BY <1>1, <1>4 DEF Genuine
    <2> QED BY <1>3, <2>1 DEF ids
  <1>12. table'.usage = usageOf(written, applied')
    <2> HIDE DEF done
    <2> QED BY <1>8, <1>9, <1>10
  <1> QED BY <1>3, <1>5, <1>10, <1>11, <1>12 DEF p

-------------------------------------------------------------------------------
(* Everything that is about is the user's, and the server counts it once *)

Stored(G) == [queue : Seq(G), quarantine : Seq(G)]

Pushes(G) == [pc : {"idle", "sent", "probe"}, batch : Seq(G), reply : SUBSET Nat]

(* What the device holds, in memory and in store, and what is on its way. *)
Held(G, inQueue, inQuarantine, sent, local, account, astray) ==
    /\ inQueue \in Seq(G) /\ inQuarantine \in Seq(G)
    /\ sent \in Pushes(G)
    /\ local \in Stored(G) /\ account \in Stored(G)
    /\ astray \subseteq Seq(G)

Typed ==
    /\ History(written)
    /\ Held(Genuine(written), queue, quarantine, push, saved, copy, late)
    /\ recovered \in BOOLEAN
    /\ attempts \in [OpId -> Nat]
    /\ table \in Table
    /\ applied \subseteq DOMAIN written

CountInv == Typed /\ table.usage = usageOf(written, applied)

LEMMA Bounds ==
    /\ MAX_QUEUE \in Nat \ {0} /\ MAX_QUARANTINE \in Nat \ {0}
    /\ MAX_PUSH_BATCH \in Nat \ {0} /\ MAX_ATTEMPTS \in Nat \ {0}
    /\ \A payload \in Writes : payload \in Payload
  BY WritesAssumption

LEMMA PersistTyped ==
    ASSUME NEW G, persist, queue' \in Seq(G), quarantine' \in Seq(G),
           saved \in Stored(G), copy \in Stored(G)
    PROVE  saved' \in Stored(G) /\ copy' \in Stored(G)
  <1>1. [queue |-> queue', quarantine |-> quarantine'] \in Stored(G)
    BY DEF Stored
  <1>2. /\ [saved EXCEPT !.queue = queue'] \in Stored(G)
        /\ [saved EXCEPT !.quarantine = quarantine'] \in Stored(G)
    BY DEF Stored
  <1>3. /\ saved' \in {[queue |-> queue', quarantine |-> quarantine'], saved,
                      [saved EXCEPT !.queue = queue'], [saved EXCEPT !.quarantine = quarantine']}
        /\ copy' \in {[queue |-> queue', quarantine |-> quarantine'], copy}
    BY DEF persist
  <1> QED BY <1>1, <1>2, <1>3

LEMMA HeldMore ==
    ASSUME NEW G, NEW H, G \subseteq H, Held(G, queue, quarantine, push, saved, copy, late)
    PROVE  Held(H, queue, quarantine, push, saved, copy, late)
  <1>1. Seq(G) \subseteq Seq(H)
    BY SeqMono
  <1>2. Stored(G) \subseteq Stored(H) /\ Pushes(G) \subseteq Pushes(H)
    BY <1>1 DEF Stored, Pushes
  <1> QED BY <1>1, <1>2 DEF Held

LEMMA PruneTyped ==
    ASSUME attempts \in [OpId -> Nat], NEW ops
    PROVE  prune(attempts, ops) \in [OpId -> Nat]
  BY DEF prune

(* A step that leaves the server alone and writes nothing. *)
LEMMA CountedQuiet ==
    ASSUME CountInv, UNCHANGED <<written, server>>,
           Held(Genuine(written), queue', quarantine', push', saved', copy', late'),
           recovered' \in BOOLEAN, attempts' \in [OpId -> Nat]
    PROVE  CountInv'
  <1>1. Genuine(written)' = Genuine(written)
    BY DEF Genuine
  <1>2. Typed'
    BY DEF CountInv, Typed, server
  <1>3. usageOf(written, applied)' = usageOf(written, applied)
    BY DEF server
  <1> QED BY <1>2, <1>3 DEF CountInv, server

LEMMA CountInit == Init => CountInv
  <1> SUFFICES ASSUME Init PROVE CountInv
    OBVIOUS
  <1>1. \A G : <<>> \in Seq(G)
    OBVIOUS
  <1>2. History(written) /\ DOMAIN written = {}
    BY DEF Init, History
  <1>3. Held(Genuine(written), queue, quarantine, push, saved, copy, late)
    <2> DEFINE G == Genuine(written)
    <2> HIDE DEF G
    <2>1. Held(G, queue, quarantine, push, saved, copy, late)
      BY <1>1 DEF Init, Held, Stored, Pushes, Idle, NoReply
    <2> QED BY <2>1 DEF G
  <1>4. recovered \in BOOLEAN /\ attempts \in [OpId -> Nat] /\ applied = {}
    BY DEF Init
  <1>5. table \in Table /\ table.usage = 0
    BY EmptyTable DEF Init
  <1>6. usageOf(written, applied) = 0
    BY UsageNone DEF Init
  <1> QED BY <1>2, <1>3, <1>4, <1>5, <1>6 DEF CountInv, Typed

LEMMA EnqueueCounts ==
    ASSUME CountInv, NEW payload \in Writes, Enqueue(payload)
    PROVE  CountInv'
  <1> DEFINE op == operation(payload)  longer == Append(queue, op)
             full == Len(longer) > MAX_QUEUE
             H == Genuine(Append(written, op))
  <1>1. /\ written' = Append(written, op)
        /\ queue' = IF full THEN trimQueue(longer, MAX_QUEUE) ELSE longer
        /\ attempts' = IF full THEN prune(attempts, queue') ELSE attempts
        /\ quarantine' = quarantine
        /\ persist
        /\ UNCHANGED <<recovered, push, late, server>>
    BY DEF Enqueue
  <1>2. /\ History(written) /\ Len(written) \in Nat
        /\ Held(Genuine(written), queue, quarantine, push, saved, copy, late)
    BY DEF CountInv, Typed, History
  <1>3. op \in Op /\ op.opId = Len(written) + 1
    <2>1. payload \in Payload
      BY Bounds
    <2> QED BY <1>2, <2>1 DEF operation, Payload, Op
  <1> HIDE DEF op
  <1>4. History(Append(written, op)) /\ Genuine(written) \subseteq H /\ op \in H
    BY <1>2, <1>3, GenuineGrows
  <1>5. Mergeable(H)
    BY GenuineMergeable
  <1> HIDE DEF H
  <1>6. Held(H, queue, quarantine, push, saved, copy, late)
    BY <1>2, <1>4, HeldMore
  <1>7. longer \in Seq(H) /\ queue' \in Seq(H)
    <2>1. longer \in Seq(H)
      BY <1>4, <1>6, Appended DEF Held
    <2> HIDE DEF longer
    <2>2. trimQueue(longer, MAX_QUEUE) \in Seq(H)
      BY <1>5, <2>1, TrimSeq
    <2> QED BY <1>1, <2>1, <2>2
  <1>8. Held(H, queue', quarantine', push', saved', copy', late')
    <2>1. quarantine' \in Seq(H) /\ saved \in Stored(H) /\ copy \in Stored(H)
      BY <1>1, <1>6 DEF Held
    <2>2. saved' \in Stored(H) /\ copy' \in Stored(H)
      BY <1>1, <1>7, <2>1, PersistTyped
    <2>3. push' = push /\ late' = late
      BY <1>1
    <2> QED BY <1>6, <1>7, <2>1, <2>2, <2>3 DEF Held
  <1>9. attempts' \in [OpId -> Nat]
    BY <1>1, PruneTyped DEF CountInv, Typed
  <1>10. DOMAIN written \subseteq DOMAIN written' /\ op.opId \notin applied
    <2>1. DOMAIN written = 1..Len(written) /\ DOMAIN written' = 1..(Len(written) + 1)
      BY <1>1, <1>2, <1>3 DEF History
    <2> QED BY <1>2, <1>3, <2>1 DEF CountInv, Typed
  <1>11. H = Genuine(written')
    BY <1>1 DEF H
  <1>12. Typed'
    BY <1>1, <1>4, <1>8, <1>9, <1>10, <1>11 DEF CountInv, Typed, server
  <1>13. usageOf(written', applied) = usageOf(written, applied)
    BY <1>1, <1>2, <1>3, <1>10, UsageSame
  <1> QED BY <1>1, <1>12, <1>13 DEF CountInv, server

LEMMA StartPushCounts == ASSUME CountInv, StartPush PROVE CountInv'
  <1> DEFINE G == Genuine(written)  compacted == compactQueue(queue)
  <1>1. /\ push' = [pc |-> "sent", batch |-> firstOf(compacted, MAX_PUSH_BATCH), reply |-> NoReply]
        /\ UNCHANGED <<written, quarantine, recovered, late, server>>
        /\ \/ queue' = compacted /\ attempts' = prune(attempts, compacted) /\ persist
           \/ UNCHANGED <<queue, attempts, saved, copy>>
    BY DEF StartPush, send
  <1>2. Held(G, queue, quarantine, push, saved, copy, late) /\ Mergeable(G)
    BY GenuineMergeable DEF CountInv, Typed
  <1> HIDE DEF G
  <1>3. queue \in Seq(G) /\ compacted \in Seq(G)
    BY <1>2, CompactSeq DEF Held
  <1> HIDE DEF compacted
  <1>4. push' \in Pushes(G)
    <2>1. firstOf(compacted, MAX_PUSH_BATCH) \in Seq(G)
      BY <1>3, Bounds, FirstOf
    <2> QED BY <1>1, <2>1 DEF Pushes, NoReply
  <1>5. queue' \in Seq(G) /\ quarantine' \in Seq(G)
    BY <1>1, <1>2, <1>3 DEF Held
  <1>6. saved' \in Stored(G) /\ copy' \in Stored(G)
    BY <1>1, <1>2, <1>5, PersistTyped DEF Held
  <1>7. Held(G, queue', quarantine', push', saved', copy', late')
    BY <1>1, <1>2, <1>4, <1>5, <1>6 DEF Held
  <1>8. attempts' \in [OpId -> Nat] /\ recovered' \in BOOLEAN
    BY <1>1, PruneTyped DEF CountInv, Typed
  <1> QED BY <1>1, <1>7, <1>8, CountedQuiet DEF G

LEMMA HandledCounts ==
    ASSUME CountInv, NEW batch \in Seq(Genuine(written)), handle(batch),
           UNCHANGED <<written, recovered, attempts>>,
           Held(Genuine(written), queue', quarantine', push', saved', copy', late')
    PROVE  CountInv'
  <1>1. /\ table' \in Table /\ applied' \subseteq DOMAIN written
        /\ table'.usage = usageOf(written, applied')
    BY HandleCounts DEF CountInv, Typed
  <1>2. Genuine(written') = Genuine(written)
    OBVIOUS
  <1>3. Typed'
    BY <1>1, <1>2 DEF CountInv, Typed
  <1> QED BY <1>1, <1>3 DEF CountInv

LEMMA ServeCounts == ASSUME CountInv, Serve PROVE CountInv'
  <1> DEFINE G == Genuine(written)
  <1>1. /\ handle(push.batch)
        /\ push' = [push EXCEPT !.reply = ids(push.batch) \cap applied']
        /\ UNCHANGED <<written, queue, quarantine, attempts, recovered, saved, copy, late>>
    BY DEF Serve
  <1>2. Held(G, queue, quarantine, push, saved, copy, late)
    BY DEF CountInv, Typed
  <1> HIDE DEF G
  <1>3. push \in Pushes(G) /\ push.batch \in Seq(G)
    BY <1>2 DEF Held, Pushes
  <1>4. ids(push.batch) \subseteq Nat
    <2>1. \A op \in G : op.opId \in Nat
      BY DEF G, Genuine, Op
    <2>2. \A i \in DOMAIN push.batch : push.batch[i] \in G
      BY <1>3
    <2> QED BY <2>1, <2>2 DEF ids
  <1>5. push' \in Pushes(G)
    BY <1>1, <1>3, <1>4 DEF Pushes
  <1>6. Held(G, queue', quarantine', push', saved', copy', late')
    BY <1>1, <1>2, <1>5 DEF Held
  <1> QED BY <1>1, <1>3, <1>6, HandledCounts DEF G

LEMMA ServeLateCounts ==
    ASSUME CountInv, NEW batch \in late, ServeLate(batch)
    PROVE  CountInv'
  <1> DEFINE G == Genuine(written)
  <1>1. /\ handle(batch) \/ UNCHANGED server
        /\ late' = late \ {batch}
        /\ UNCHANGED <<written, queue, quarantine, attempts, recovered, push, saved, copy>>
    BY DEF ServeLate, device
  <1>2. Held(G, queue, quarantine, push, saved, copy, late)
    BY DEF CountInv, Typed
  <1> HIDE DEF G
  <1>3. batch \in Seq(G) /\ Held(G, queue', quarantine', push', saved', copy', late')
    BY <1>1, <1>2 DEF Held
  <1>4. CASE handle(batch)
    BY <1>1, <1>3, <1>4, HandledCounts DEF G
  <1>5. CASE UNCHANGED server
    <2>1. recovered' \in BOOLEAN /\ attempts' \in [OpId -> Nat]
      BY <1>1 DEF CountInv, Typed
    <2> QED BY <1>1, <1>3, <1>5, <2>1, CountedQuiet DEF G
  <1> QED BY <1>1, <1>4, <1>5

LEMMA AnsweredCounts == ASSUME CountInv, Answered PROVE CountInv'
  <1> DEFINE G == Genuine(written)
             refused == without(push.batch, push.reply)
  <1>1. /\ quarantine' = lastOf(quarantine \o refused, MAX_QUARANTINE)
        /\ queue' = without(queue, ids(push.batch))
        /\ attempts' = prune(attempts, queue')
        /\ persist
        /\ \/ push' = Idle
           \/ push' = [pc |-> "sent", batch |-> firstOf(queue', MAX_PUSH_BATCH),
                       reply |-> NoReply]
        /\ UNCHANGED <<written, recovered, late, server>>
    BY DEF Answered, settle, send
  <1>2. Held(G, queue, quarantine, push, saved, copy, late)
    BY DEF CountInv, Typed
  <1> HIDE DEF G
  <1>3. push.batch \in Seq(G) /\ queue \in Seq(G) /\ quarantine \in Seq(G)
    BY <1>2 DEF Held, Pushes
  <1>4. refused \in Seq(G) /\ queue' \in Seq(G)
    BY <1>1, <1>3, WithoutSeq
  <1> HIDE DEF refused
  <1>5. quarantine' \in Seq(G)
    <2>1. quarantine \o refused \in Seq(G)
      BY <1>3, <1>4
    <2> QED BY <1>1, <2>1, Bounds, LastOf
  <1>6. saved' \in Stored(G) /\ copy' \in Stored(G)
    BY <1>1, <1>2, <1>4, <1>5, PersistTyped DEF Held
  <1>7. push' \in Pushes(G)
    <2>1. firstOf(queue', MAX_PUSH_BATCH) \in Seq(G)
      BY <1>4, Bounds, FirstOf
    <2>2. <<>> \in Seq(G)
      OBVIOUS
    <2>3. Idle \in Pushes(G)
      BY <2>2 DEF Pushes, Idle, NoReply
    <2>4. [pc |-> "sent", batch |-> firstOf(queue', MAX_PUSH_BATCH), reply |-> NoReply]
              \in Pushes(G)
      BY <2>1 DEF Pushes, NoReply
    <2> QED BY <1>1, <2>3, <2>4
  <1>8. Held(G, queue', quarantine', push', saved', copy', late')
    BY <1>1, <1>2, <1>4, <1>5, <1>6, <1>7 DEF Held
  <1>9. attempts' \in [OpId -> Nat] /\ recovered' \in BOOLEAN
    BY <1>1, PruneTyped DEF CountInv, Typed
  <1> QED BY <1>1, <1>8, <1>9, CountedQuiet DEF G

LEMMA FailCounts ==
    ASSUME CountInv, NEW status \in Statuses, Fail(status)
    PROVE  CountInv'
  <1> DEFINE G == Genuine(written)
             tries == [i \in OpId |-> attempts[i] + IF i \in ids(push.batch) THEN 1 ELSE 0]
             given == {i \in DOMAIN push.batch :
                         shouldQuarantine(tries[push.batch[i].opId], status, MAX_ATTEMPTS)}
             isolated == pick(push.batch, given)
             probes == /\ push' = [pc |-> "probe", batch |-> <<push.batch[1]>>,
                                   reply |-> NoReply]
                       /\ Len(push.batch) > 1
                       /\ UNCHANGED <<queue, quarantine, attempts, saved, copy>>
             rests == push' = Idle /\ UNCHANGED <<queue, quarantine, attempts, saved, copy>>
             counts == /\ push' = Idle
                       /\ quarantine' = lastOf(quarantine \o isolated, MAX_QUARANTINE)
                       /\ queue' = without(queue, ids(isolated))
                       /\ attempts' = [i \in OpId |-> IF i \in ids(isolated) THEN 0 ELSE tries[i]]
                       /\ persist \/ UNCHANGED <<saved, copy>>
  <1>1. /\ late' = late \/ late' = late \cup {push.batch}
        /\ UNCHANGED <<written, recovered, server>>
        /\ probes \/ rests \/ counts
    BY DEF Fail, countFailure
  <1>2. Held(G, queue, quarantine, push, saved, copy, late)
    BY DEF CountInv, Typed
  <1> HIDE DEF G
  <1>3. push.batch \in Seq(G) /\ queue \in Seq(G) /\ quarantine \in Seq(G)
    BY <1>2 DEF Held, Pushes
  <1>4. late' \subseteq Seq(G)
    BY <1>1, <1>2, <1>3 DEF Held
  <1>5. Idle \in Pushes(G)
    <2>1. <<>> \in Seq(G)
      OBVIOUS
    <2> QED BY <2>1 DEF Pushes, Idle, NoReply
  <1>6. isolated \in Seq(G)
    <2>1. given \in SUBSET DOMAIN push.batch
      OBVIOUS
    <2> HIDE DEF given
    <2> QED BY <1>3, <2>1, PickSeq
  <1>7. tries \in [OpId -> Nat]
    BY DEF CountInv, Typed
  <1> HIDE DEF isolated, tries
  <1>8. CASE probes
    <2>1. push' \in Pushes(G)
      <3>1. push.batch[1] \in G
        BY <1>3, <1>8
      <3>2. <<push.batch[1]>> \in Seq(G)
        BY <3>1
      <3> QED BY <1>8, <3>2 DEF Pushes, NoReply
    <2>2. Held(G, queue', quarantine', push', saved', copy', late')
      BY <1>2, <1>4, <1>8, <2>1 DEF Held
    <2>3. attempts' \in [OpId -> Nat] /\ recovered' \in BOOLEAN
      BY <1>1, <1>8 DEF CountInv, Typed
    <2> QED BY <1>1, <2>2, <2>3, CountedQuiet DEF G
  <1>9. CASE rests
    <2>1. Held(G, queue', quarantine', push', saved', copy', late')
      BY <1>2, <1>4, <1>5, <1>9 DEF Held
    <2>2. attempts' \in [OpId -> Nat] /\ recovered' \in BOOLEAN
      BY <1>1, <1>9 DEF CountInv, Typed
    <2> QED BY <1>1, <2>1, <2>2, CountedQuiet DEF G
  <1>10. CASE counts
    <2>1. queue' \in Seq(G)
      BY <1>3, <1>10, WithoutSeq
    <2>2. quarantine' \in Seq(G)
      <3>1. quarantine \o isolated \in Seq(G)
        BY <1>3, <1>6
      <3> QED BY <1>10, <3>1, Bounds, LastOf
    <2>3. saved' \in Stored(G) /\ copy' \in Stored(G)
      BY <1>2, <1>10, <2>1, <2>2, PersistTyped DEF Held
    <2>4. Held(G, queue', quarantine', push', saved', copy', late')
      BY <1>2, <1>4, <1>5, <1>10, <2>1, <2>2, <2>3 DEF Held
    <2>5. attempts' \in [OpId -> Nat]
      BY <1>7, <1>10
    <2>6. recovered' \in BOOLEAN
      BY <1>1 DEF CountInv, Typed
    <2> QED BY <1>1, <2>4, <2>5, <2>6, CountedQuiet DEF G
  <1> QED BY <1>1, <1>8, <1>9, <1>10

LEMMA RetryCounts == ASSUME CountInv, RetryQuarantined PROVE CountInv'
  <1> DEFINE G == Genuine(written)  both == queue \o quarantine
  <1>1. /\ queue' = trimQueue(both, MAX_QUEUE) /\ quarantine' = <<>> /\ persist
        /\ UNCHANGED <<written, attempts, recovered, push, late, server>>
    BY DEF RetryQuarantined
  <1>2. Held(G, queue, quarantine, push, saved, copy, late) /\ Mergeable(G)
    BY GenuineMergeable DEF CountInv, Typed
  <1> HIDE DEF G
  <1>3. both \in Seq(G)
    BY <1>2 DEF Held
  <1> HIDE DEF both
  <1>4. queue' \in Seq(G) /\ quarantine' \in Seq(G)
    BY <1>1, <1>2, <1>3, TrimSeq
  <1>5. saved' \in Stored(G) /\ copy' \in Stored(G)
    BY <1>1, <1>2, <1>4, PersistTyped DEF Held
  <1>6. Held(G, queue', quarantine', push', saved', copy', late')
    BY <1>1, <1>2, <1>4, <1>5 DEF Held
  <1> QED BY <1>1, <1>6, CountedQuiet DEF G, CountInv, Typed

LEMMA RestartCounts == ASSUME CountInv, Restart PROVE CountInv'
  <1> DEFINE G == Genuine(written)
  <1>1. /\ queue' = saved.queue /\ quarantine' = saved.quarantine
        /\ attempts' = [i \in OpId |-> 0] /\ recovered' = FALSE /\ push' = Idle
        /\ late' = late \/ late' = late \cup {push.batch}
        /\ UNCHANGED <<written, saved, copy, server>>
    BY DEF Restart
  <1>2. Held(G, queue, quarantine, push, saved, copy, late)
    BY DEF CountInv, Typed
  <1> HIDE DEF G
  <1>3. Idle \in Pushes(G)
    <2>1. <<>> \in Seq(G)
      OBVIOUS
    <2> QED BY <2>1 DEF Pushes, Idle, NoReply
  <1>4. late' \subseteq Seq(G) /\ queue' \in Seq(G) /\ quarantine' \in Seq(G)
    BY <1>1, <1>2 DEF Held, Pushes, Stored
  <1>5. Held(G, queue', quarantine', push', saved', copy', late')
    BY <1>1, <1>2, <1>3, <1>4 DEF Held
  <1>6. attempts' \in [OpId -> Nat] /\ recovered' \in BOOLEAN
    BY <1>1
  <1> QED BY <1>1, <1>5, <1>6, CountedQuiet DEF G

LEMMA RecoverCounts == ASSUME CountInv, Recover PROVE CountInv'
  <1> DEFINE G == Genuine(written)
             more == without(copy.queue, ids(queue))
             others == without(copy.quarantine, ids(quarantine))
  <1>1. /\ queue' = queue \o more
        /\ quarantine' = lastOf(quarantine \o others, MAX_QUARANTINE)
        /\ recovered' = TRUE
        /\ UNCHANGED <<written, attempts, push, saved, copy, late, server>>
    BY DEF Recover
  <1>2. Held(G, queue, quarantine, push, saved, copy, late)
    BY DEF CountInv, Typed
  <1> HIDE DEF G
  <1>3. /\ queue \in Seq(G) /\ quarantine \in Seq(G)
        /\ copy.queue \in Seq(G) /\ copy.quarantine \in Seq(G)
    BY <1>2 DEF Held, Stored
  <1>4. more \in Seq(G) /\ others \in Seq(G)
    BY <1>3, WithoutSeq
  <1> HIDE DEF more, others
  <1>5. queue' \in Seq(G)
    BY <1>1, <1>3, <1>4
  <1>6. quarantine' \in Seq(G)
    <2>1. quarantine \o others \in Seq(G)
      BY <1>3, <1>4
    <2> QED BY <1>1, <2>1, Bounds, LastOf
  <1>7. Held(G, queue', quarantine', push', saved', copy', late')
    BY <1>1, <1>2, <1>5, <1>6 DEF Held
  <1> QED BY <1>1, <1>7, CountedQuiet DEF G, CountInv, Typed

LEMMA CountNext == ASSUME CountInv, [Next]_vars PROVE CountInv'
  <1>1. ASSUME NEW payload \in Writes, Enqueue(payload) PROVE CountInv'
    BY <1>1, EnqueueCounts
  <1>2. ASSUME NEW batch \in late, ServeLate(batch) PROVE CountInv'
    BY <1>2, ServeLateCounts
  <1>3. ASSUME NEW status \in Statuses, Fail(status) PROVE CountInv'
    BY <1>3, FailCounts
  <1>4. CASE UNCHANGED vars
    <2>1. UNCHANGED <<written, queue, quarantine, attempts, recovered, push, saved, copy,
                      late, table, applied>>
      BY <1>4 DEF vars, device, server
    <2>2. Held(Genuine(written), queue', quarantine', push', saved', copy', late')
      BY <2>1 DEF CountInv, Typed
    <2>3. recovered' \in BOOLEAN /\ attempts' \in [OpId -> Nat]
      BY <2>1 DEF CountInv, Typed
    <2> QED BY <2>1, <2>2, <2>3, CountedQuiet DEF server
  <1> QED BY <1>1, <1>2, <1>3, <1>4, StartPushCounts, ServeCounts, AnsweredCounts,
             RetryCounts, RestartCounts, RecoverCounts DEF Next

(* However often an operation is sent, lost, sent again after a kill or      *)
(* delivered late, whatever fails and whatever the limits, the server counts *)
(* it once (CountedOnce).                                                    *)
THEOREM ServerCountsOnce == Spec => []CountedOnce
  <1>1. CountInv => CountedOnce
    <2> SUFFICES ASSUME CountInv PROVE CountedOnce
      OBVIOUS
    <2>1. ids(written) = DOMAIN written
      BY DEF CountInv, Typed, History, ids
    <2> QED BY <2>1 DEF CountInv, Typed, CountedOnce
  <1>2. CountInv /\ [Next]_vars => CountInv'
    BY CountNext
  <1> QED BY <1>1, <1>2, CountInit, PTL DEF Spec

-------------------------------------------------------------------------------
(* Nothing counted is dropped *)

(* Quarantine has room for the batch under way, and for what the account     *)
(* copy may still bring back.                                                *)
Roomy ==
    /\ Len(quarantine) + Len(push.batch) <= MAX_QUARANTINE
    /\ ~recovered => Len(quarantine) + Len(without(copy.quarantine, ids(quarantine)))
                        <= MAX_QUARANTINE

(* What compaction may neither merge nor drop. *)
Counted(w) == {i \in DOMAIN w : ~isState(w[i])}

(* Each of them is applied, or in a queue or its quarantine. *)
Kept(w, done, inQueue, inQuarantine) ==
    \A i \in Counted(w) : i \in done \cup ids(inQueue) \cup ids(inQuarantine)

(* What is in memory keeps everything, and what localStorage has does too:   *)
(* a kill at any moment loses nothing.                                       *)
KeepInv ==
    /\ CountInv
    /\ push.reply # NoReply => push.reply \subseteq applied
    /\ Kept(written, applied, queue, quarantine)
    /\ Kept(written, applied, saved.queue, saved.quarantine)

LEMMA CondensedIds ==
    ASSUME NEW w, NEW ops \in Seq(Genuine(w)), NEW short, Condenses(short, ops),
           NEW i \in Counted(w), i \in ids(ops)
    PROVE  i \in ids(short)
  <1>1. PICK n \in DOMAIN ops : ops[n].opId = i
    BY DEF ids
  <1>2. ops[n] \in Genuine(w) /\ ops[n] \in members(ops)
    BY DEF members
  <1>3. ~isState(ops[n])
    BY <1>1, <1>2 DEF Genuine, Counted, isState
  <1>4. ops[n] \in members(short)
    BY <1>2, <1>3 DEF Condenses
  <1> QED BY <1>1, <1>4 DEF members, ids

LEMMA PersistKeeps ==
    ASSUME persist, ~LocalMayFail
    PROVE  saved'.queue = queue' /\ saved'.quarantine = quarantine'
  BY DEF persist

(* A step that leaves the server alone, writes nothing and stores what it    *)
(* changed.                                                                  *)
LEMMA KeepQuiet ==
    ASSUME KeepInv, CountInv', UNCHANGED <<written, server>>, ~LocalMayFail,
           persist \/ UNCHANGED saved,
           Kept(written, applied, queue', quarantine'),
           push'.reply = NoReply \/ push' = push
    PROVE  KeepInv'
  <1>1. Kept(written, applied, saved'.queue, saved'.quarantine)
    BY PersistKeeps DEF KeepInv
  <1> QED BY <1>1 DEF KeepInv, Kept, server

LEMMA KeepInit == Init => KeepInv
  BY CountInit DEF Init, KeepInv, Kept, Counted, Idle

LEMMA EnqueueKeeps ==
    ASSUME KeepInv, CountInv', NEW payload \in Writes, Enqueue(payload), ~LocalMayFail
    PROVE  KeepInv'
  <1> DEFINE op == operation(payload)  longer == Append(queue, op)
  <1>1. /\ written' = Append(written, op)
        /\ queue' = longer \/ queue' = trimQueue(longer, MAX_QUEUE)
        /\ quarantine' = quarantine /\ persist
        /\ UNCHANGED <<push, server>>
    BY DEF Enqueue
  <1>2. /\ History(written) /\ Len(written) \in Nat /\ History(written')
        /\ queue \in Seq(Genuine(written))
    BY DEF KeepInv, CountInv, Typed, History, Held
  <1>3. op \in Op /\ op.opId = Len(written) + 1
    <2>1. payload \in Payload
      BY Bounds
    <2> QED BY <1>2, <2>1 DEF operation, Payload, Op
  <1> HIDE DEF op
  <1> DEFINE H == Genuine(written')
  <1>4. Genuine(written) \subseteq H /\ op \in H /\ Mergeable(H)
    BY <1>1, <1>2, <1>3, GenuineGrows, GenuineMergeable
  <1>5. longer \in Seq(H) /\ ids(longer) = ids(queue) \cup {op.opId}
    <2> HIDE DEF H
    <2>1. queue \in Seq(H)
      BY <1>2, <1>4, SeqMono
    <2> QED BY <1>4, <2>1, Appended
  <1> HIDE DEF longer
  <1>6. Condenses(trimQueue(longer, MAX_QUEUE), longer)
    <2> HIDE DEF H
    <2> QED BY <1>4, <1>5, TrimSeq
  <1>7. \A i \in Counted(written') : i \in Counted(written) \/ i = op.opId
    <2>1. DOMAIN written' = DOMAIN written \cup {op.opId}
          /\ \A i \in DOMAIN written : written'[i] = written[i]
      <3>1. written \in Seq(Op)
        BY <1>2 DEF History
      <3>2. DOMAIN written = 1..Len(written) /\ DOMAIN written' = 1..(Len(written) + 1)
            /\ \A i \in 1..Len(written) : written'[i] = written[i]
        BY <1>1, <3>1
      <3> QED BY <1>2, <1>3, <3>2
    <2> QED BY <2>1 DEF Counted
  <1>8. ASSUME NEW i \in Counted(written')
        PROVE  i \in applied \cup ids(queue') \cup ids(quarantine')
    <2>1. i \in applied \cup ids(longer) \cup ids(quarantine)
      BY <1>5, <1>7 DEF KeepInv, Kept
    <2>2. i \in ids(longer) => i \in ids(queue')
      <3>1. i \in ids(longer) => i \in ids(trimQueue(longer, MAX_QUEUE))
        BY <1>5, <1>6, CondensedIds
      <3> QED BY <1>1, <3>1
    <2> QED BY <1>1, <2>1, <2>2
  <1>9. Kept(written', applied', queue', quarantine')
    BY <1>1, <1>8 DEF Kept, server
  <1>10. saved'.queue = queue' /\ saved'.quarantine = quarantine'
    BY <1>1, PersistKeeps
  <1> QED BY <1>1, <1>9, <1>10 DEF KeepInv, server

LEMMA StartPushKeeps == ASSUME KeepInv, CountInv', StartPush, ~LocalMayFail PROVE KeepInv'
  <1> DEFINE compacted == compactQueue(queue)
  <1>1. /\ push'.reply = NoReply
        /\ UNCHANGED <<written, quarantine, server>>
        /\ \/ queue' = compacted /\ persist
           \/ UNCHANGED <<queue, saved>>
    BY DEF StartPush, send
  <1>2. queue \in Seq(Genuine(written))
    BY DEF KeepInv, CountInv, Typed, Held
  <1>3. Condenses(compacted, queue)
    BY <1>2, GenuineMergeable, CompactSeq
  <1> HIDE DEF compacted
  <1>4. Kept(written, applied, queue', quarantine')
    <2>1. \A i \in Counted(written) : i \in ids(queue) => i \in ids(compacted)
      BY <1>2, <1>3, CondensedIds
    <2> QED BY <1>1, <2>1 DEF KeepInv, Kept
  <1> QED BY <1>1, <1>4, KeepQuiet

(* What the server applies only grows. *)
LEMMA HandledKeeps ==
    ASSUME KeepInv, CountInv', NEW batch, handle(batch) \/ UNCHANGED server,
           UNCHANGED <<written, queue, quarantine, saved>>,
           push'.reply \subseteq applied' \/ push' = push
    PROVE  KeepInv'
  <1>1. applied \subseteq applied'
    BY DEF handle, server
  <1>2. Kept(written, applied', queue, quarantine)
        /\ Kept(written, applied', saved.queue, saved.quarantine)
    BY <1>1 DEF KeepInv, Kept
  <1>3. push'.reply # NoReply => push'.reply \subseteq applied'
    BY <1>1 DEF KeepInv
  <1> QED BY <1>2, <1>3 DEF KeepInv, Kept

LEMMA ServeKeeps == ASSUME KeepInv, CountInv', Serve PROVE KeepInv'
  <1>1. push \in Pushes(Genuine(written))
    BY DEF KeepInv, CountInv, Typed, Held
  <1>2. push'.reply = ids(push.batch) \cap applied'
    BY <1>1 DEF Serve, Pushes
  <1>3. handle(push.batch) /\ UNCHANGED <<written, queue, quarantine, saved>>
    BY DEF Serve
  <1>4. push'.reply \subseteq applied'
    BY <1>2
  <1> QED BY <1>3, <1>4, HandledKeeps

LEMMA ServeLateKeeps ==
    ASSUME KeepInv, CountInv', NEW batch \in late, ServeLate(batch)
    PROVE  KeepInv'
  <1>1. /\ handle(batch) \/ UNCHANGED server
        /\ UNCHANGED <<written, queue, quarantine, push, saved>>
    BY DEF ServeLate, device
  <1> QED BY <1>1, HandledKeeps

(* Quarantine with room takes what it is given. *)
LEMMA QuarantineTakes ==
    ASSUME NEW G, NEW a \in Seq(G), NEW b \in Seq(G), Len(a) + Len(b) <= MAX_QUARANTINE
    PROVE  ids(lastOf(a \o b, MAX_QUARANTINE)) = ids(a) \cup ids(b)
  <1>1. a \o b \in Seq(G) /\ Len(a \o b) <= MAX_QUARANTINE
    OBVIOUS
  <1>2. lastOf(a \o b, MAX_QUARANTINE) = a \o b
    BY <1>1, Bounds, LastOf
  <1> QED BY <1>2, Joined

LEMMA AnsweredKeeps ==
    ASSUME KeepInv, CountInv', Roomy, Answered, ~LocalMayFail
    PROVE  KeepInv'
  <1> DEFINE refused == without(push.batch, push.reply)
  <1>1. /\ push.reply # NoReply
        /\ quarantine' = lastOf(quarantine \o refused, MAX_QUARANTINE)
        /\ queue' = without(queue, ids(push.batch))
        /\ persist
        /\ push'.reply = NoReply
        /\ UNCHANGED <<written, server>>
    BY DEF Answered, settle, send, Idle
  <1>2. /\ queue \in Seq(Genuine(written)) /\ quarantine \in Seq(Genuine(written))
        /\ push.batch \in Seq(Genuine(written))
    BY DEF KeepInv, CountInv, Typed, Held, Pushes
  <1>3. /\ refused \in Seq(Genuine(written)) /\ Len(refused) <= Len(push.batch)
        /\ ids(refused) = ids(push.batch) \ push.reply
        /\ ids(queue') = ids(queue) \ ids(push.batch)
    BY <1>1, <1>2, WithoutSeq
  <1> HIDE DEF refused
  <1>4. ids(quarantine') = ids(quarantine) \cup ids(refused)
    <2>1. Len(quarantine) + Len(refused) <= MAX_QUARANTINE
      <3>1. /\ Len(quarantine) \in Nat /\ Len(refused) \in Nat
            /\ Len(push.batch) \in Nat /\ MAX_QUARANTINE \in Nat
        BY <1>2, <1>3, Bounds
      <3> QED BY <1>3, <3>1 DEF Roomy
    <2> QED BY <1>1, <1>2, <1>3, <2>1, QuarantineTakes
  <1>5. push.reply \subseteq applied
    BY <1>1 DEF KeepInv
  <1>6. Kept(written, applied, queue', quarantine')
    BY <1>3, <1>4, <1>5 DEF KeepInv, Kept
  <1> QED BY <1>1, <1>6, KeepQuiet

LEMMA FailKeeps ==
    ASSUME KeepInv, CountInv', Roomy, NEW status \in Statuses, Fail(status), ~LocalMayFail
    PROVE  KeepInv'
  <1> DEFINE tries == [i \in OpId |-> attempts[i] + IF i \in ids(push.batch) THEN 1 ELSE 0]
             given == {i \in DOMAIN push.batch :
                         shouldQuarantine(tries[push.batch[i].opId], status, MAX_ATTEMPTS)}
             isolated == pick(push.batch, given)
  <1>1. /\ push'.reply = NoReply
        /\ UNCHANGED <<written, server>>
        /\ persist \/ UNCHANGED saved
        /\ \/ UNCHANGED <<queue, quarantine>>
           \/ /\ quarantine' = lastOf(quarantine \o isolated, MAX_QUARANTINE)
              /\ queue' = without(queue, ids(isolated))
    BY DEF Fail, countFailure, Idle
  <1>2. /\ queue \in Seq(Genuine(written)) /\ quarantine \in Seq(Genuine(written))
        /\ push.batch \in Seq(Genuine(written))
    BY DEF KeepInv, CountInv, Typed, Held, Pushes
  <1>3. isolated \in Seq(Genuine(written)) /\ Len(isolated) <= Len(push.batch)
    <2>1. given \in SUBSET DOMAIN push.batch
      OBVIOUS
    <2> HIDE DEF given
    <2>2. /\ isolated \in Seq(Genuine(written)) /\ Len(isolated) = Cardinality(given)
      BY <1>2, <2>1, PickSeq
    <2>3. Cardinality(given) <= Len(push.batch)
      <3>1. DOMAIN push.batch = 1..Len(push.batch) /\ Len(push.batch) \in Nat
        BY <1>2
      <3>2. IsFiniteSet(1..Len(push.batch)) /\ Cardinality(1..Len(push.batch)) = Len(push.batch)
        BY <3>1, FS_Interval
      <3> QED BY <2>1, <3>1, <3>2, FS_Subset
    <2> QED BY <2>2, <2>3
  <1> HIDE DEF isolated
  <1>4. CASE UNCHANGED <<queue, quarantine>>
    <2>1. Kept(written, applied, queue', quarantine')
      BY <1>4 DEF KeepInv
    <2> QED BY <1>1, <2>1, KeepQuiet
  <1>5. CASE /\ quarantine' = lastOf(quarantine \o isolated, MAX_QUARANTINE)
             /\ queue' = without(queue, ids(isolated))
    <2>1. ids(queue') = ids(queue) \ ids(isolated)
      BY <1>2, <1>5, WithoutSeq
    <2>2. ids(quarantine') = ids(quarantine) \cup ids(isolated)
      <3>1. Len(quarantine) + Len(isolated) <= MAX_QUARANTINE
        <4>1. /\ Len(quarantine) \in Nat /\ Len(isolated) \in Nat
              /\ Len(push.batch) \in Nat /\ MAX_QUARANTINE \in Nat
          BY <1>2, <1>3, Bounds
        <4> QED BY <1>3, <4>1 DEF Roomy
      <3> QED BY <1>2, <1>3, <1>5, <3>1, QuarantineTakes
    <2>3. Kept(written, applied, queue', quarantine')
      BY <2>1, <2>2 DEF KeepInv, Kept
    <2> QED BY <1>1, <2>3, KeepQuiet
  <1> QED BY <1>1, <1>4, <1>5

LEMMA RetryKeeps == ASSUME KeepInv, CountInv', RetryQuarantined, ~LocalMayFail PROVE KeepInv'
  <1> DEFINE both == queue \o quarantine
  <1>1. /\ queue' = trimQueue(both, MAX_QUEUE) /\ quarantine' = <<>> /\ persist
        /\ UNCHANGED <<written, push, server>>
    BY DEF RetryQuarantined
  <1>2. queue \in Seq(Genuine(written)) /\ quarantine \in Seq(Genuine(written))
    BY DEF KeepInv, CountInv, Typed, Held
  <1>3. both \in Seq(Genuine(written)) /\ ids(both) = ids(queue) \cup ids(quarantine)
    BY <1>2, Joined
  <1> HIDE DEF both
  <1>4. Condenses(queue', both)
    BY <1>1, <1>3, GenuineMergeable, TrimSeq
  <1>5. \A i \in Counted(written) : i \in ids(both) => i \in ids(queue')
    BY <1>3, <1>4, CondensedIds
  <1>6. Kept(written, applied, queue', quarantine')
    BY <1>3, <1>5 DEF KeepInv, Kept
  <1> QED BY <1>1, <1>6, KeepQuiet

LEMMA RestartKeeps == ASSUME KeepInv, CountInv', Restart, ~LocalMayFail PROVE KeepInv'
  <1>1. /\ queue' = saved.queue /\ quarantine' = saved.quarantine
        /\ push'.reply = NoReply
        /\ UNCHANGED <<written, saved, server>>
    BY DEF Restart, Idle
  <1>2. Kept(written, applied, queue', quarantine')
    BY <1>1 DEF KeepInv
  <1> QED BY <1>1, <1>2, KeepQuiet

LEMMA RecoverKeeps ==
    ASSUME KeepInv, CountInv', Roomy, Recover, ~LocalMayFail
    PROVE  KeepInv'
  <1> DEFINE more == without(copy.queue, ids(queue))
             others == without(copy.quarantine, ids(quarantine))
  <1>1. /\ ~recovered
        /\ queue' = queue \o more
        /\ quarantine' = lastOf(quarantine \o others, MAX_QUARANTINE)
        /\ UNCHANGED <<written, push, saved, server>>
    BY DEF Recover
  <1>2. /\ queue \in Seq(Genuine(written)) /\ quarantine \in Seq(Genuine(written))
        /\ copy.queue \in Seq(Genuine(written)) /\ copy.quarantine \in Seq(Genuine(written))
    BY DEF KeepInv, CountInv, Typed, Held, Stored
  <1>3. /\ more \in Seq(Genuine(written)) /\ others \in Seq(Genuine(written))
        /\ Len(quarantine) + Len(others) <= MAX_QUARANTINE
    BY <1>1, <1>2, WithoutSeq DEF Roomy
  <1> HIDE DEF more, others
  <1>4. ids(queue') = ids(queue) \cup ids(more)
    BY <1>1, <1>2, <1>3, Joined
  <1>5. ids(quarantine') = ids(quarantine) \cup ids(others)
    BY <1>1, <1>2, <1>3, QuarantineTakes
  <1>6. Kept(written, applied, queue', quarantine')
    BY <1>4, <1>5 DEF KeepInv, Kept
  <1> QED BY <1>1, <1>6, KeepQuiet

LEMMA KeepNext ==
    ASSUME KeepInv, Roomy, [Next]_vars, ~LocalMayFail
    PROVE  KeepInv'
  <1>1. CountInv'
    BY CountNext DEF KeepInv
  <1>2. ASSUME NEW payload \in Writes, Enqueue(payload) PROVE KeepInv'
    BY <1>1, <1>2, EnqueueKeeps
  <1>3. ASSUME NEW batch \in late, ServeLate(batch) PROVE KeepInv'
    BY <1>1, <1>3, ServeLateKeeps
  <1>4. ASSUME NEW status \in Statuses, Fail(status) PROVE KeepInv'
    BY <1>1, <1>4, FailKeeps
  <1>5. CASE UNCHANGED vars
    <2>1. UNCHANGED <<written, queue, quarantine, push, saved, applied>>
      BY <1>5 DEF vars, device, server
    <2> QED BY <1>1, <2>1 DEF KeepInv, Kept
  <1> QED BY <1>1, <1>2, <1>3, <1>4, <1>5, StartPushKeeps, ServeKeeps, AnsweredKeeps,
             RetryKeeps, RestartKeeps, RecoverKeeps DEF Next

(* What is counted and every event is never lost, whatever fails on the way, *)
(* whenever the app is killed and however small the queue, while             *)
(* localStorage can be written and quarantine has room (NothingDropped).     *)
THEOREM NothingIsDropped ==
    ASSUME ~LocalMayFail
    PROVE  Spec /\ []Roomy => []NothingDropped
  <1>1. KeepInv => NothingDropped
    BY DEF KeepInv, Kept, Counted, isState, NothingDropped, pendingIds
  <1>2. KeepInv /\ Roomy /\ [Next]_vars => KeepInv'
    BY KeepNext
  <1> QED BY <1>1, <1>2, KeepInit, PTL DEF Spec

-------------------------------------------------------------------------------
(* The order of a queue, and what stands for its states after compaction     *)

LEMMA Greatest ==
    ASSUME NEW N \in Nat, NEW S, S \subseteq 0..N, S # {}
    PROVE  \E m \in S : \A n \in S : n <= m
  <1> DEFINE R == {N - n : n \in S}
  <1>1. R \subseteq Nat /\ R # {}
    <2>1. \A n \in S : N - n \in Nat
      OBVIOUS
    <2>2. PICK n \in S : TRUE
      OBVIOUS
    <2>3. N - n \in R
      BY <2>2
    <2> QED BY <2>1, <2>3
  <1>2. PICK r \in R : \A n \in R : r <= n
    <2> HIDE DEF R
    <2> QED BY <1>1, Least
  <1>3. PICK m \in S : r = N - m
    BY <1>2
  <1>4. \A n \in S : r <= N - n
    BY <1>2
  <1>5. ASSUME NEW n \in S PROVE n <= m
    <2>1. n \in 0..N /\ m \in 0..N /\ r <= N - n
      BY <1>4
    <2> QED BY <1>3, <2>1
  <1> QED BY <1>5

LEMMA Counting ==
    ASSUME NEW n \in Nat
    PROVE  IsFiniteSet(1..n) /\ Cardinality(1..n) = n
  BY FS_Interval

Increasing(ops) == \A i, j \in DOMAIN ops : i < j => ops[i].opId < ops[j].opId

(* y is a later state of the same. *)
alike(x, y) == x.kind = y.kind /\ x.key = y.key
Sooner(x, y) == isState(x) /\ alike(x, y) /\ x.opId < y.opId

(* What short has comes from ops, its progress perhaps from an earlier       *)
(* operation; and each state of ops has its like in short, no earlier and no *)
(* less far.                                                                 *)
Inherits(short, ops) ==
    \A y \in members(short) :
        \E x, z \in members(ops) :
            /\ alike(x, y) /\ x.opId = y.opId
            /\ y.kind # "progress.set" => x = y
            /\ alike(z, y) /\ z.opId <= y.opId /\ z.value = y.value
Represents(short, ops) ==
    \A x \in members(ops) :
        isState(x) =>
            \E y \in members(short) :
                /\ alike(x, y) /\ x.opId <= y.opId
                /\ x.kind = "progress.set" => x.value <= y.value

(* No two states are about the same. *)
Lone(ops) == \A x, y \in members(ops) : isState(x) /\ alike(x, y) => x = y

LEMMA RisingIds ==
    ASSUME NEW ops \in Seq(Op), Increasing(ops)
    PROVE  /\ \A x, y \in members(ops) : x.opId = y.opId => x = y
           /\ \A i, j \in DOMAIN ops : ops[i].opId < ops[j].opId => i < j
           /\ \A i, j \in DOMAIN ops : i <= j => ops[i].opId <= ops[j].opId
  <1>1. DOMAIN ops = 1..Len(ops) /\ Len(ops) \in Nat /\ \A i \in 1..Len(ops) : ops[i] \in Op
    OBVIOUS
  <1>2. \A i \in DOMAIN ops : ops[i].opId \in Nat
    BY <1>1 DEF Op
  <1>3. \A i, j \in DOMAIN ops : i < j \/ i = j \/ j < i
    BY <1>1
  <1>4. \A i, j \in DOMAIN ops : ops[i].opId = ops[j].opId => i = j
    BY <1>2, <1>3 DEF Increasing
  <1>5. \A i, j \in DOMAIN ops : ops[i].opId < ops[j].opId => i < j
    BY <1>2, <1>3 DEF Increasing
  <1>6. \A i, j \in DOMAIN ops : i <= j => ops[i].opId <= ops[j].opId
    BY <1>1, <1>2 DEF Increasing
  <1> QED BY <1>4, <1>5, <1>6 DEF members

LEMMA CompactCovers ==
    ASSUME NEW ops \in Seq(Op), Increasing(ops)
    PROVE  /\ Increasing(compactQueue(ops)) /\ Lone(compactQueue(ops))
           /\ Inherits(compactQueue(ops), ops) /\ Represents(compactQueue(ops), ops)
  <1>1. PICK N \in Nat : \E place \in [1..N -> DOMAIN ops] : Compacts(place, ops, N)
    BY CompactPlaces
  <1>2. PICK place \in [1..N -> DOMAIN ops] : Compacts(place, ops, N)
    BY <1>1
  <1> DEFINE c == compactQueue(ops)
  <1>3. c = [n \in 1..N |-> mergedAt(ops, place[n])]
    BY <1>2 DEF Compacts
  <1>4. DOMAIN c = 1..N /\ \A n \in 1..N : place[n] \in DOMAIN ops /\ c[n] = mergedAt(ops, place[n])
    BY <1>3
  <1>5. DOMAIN ops = 1..Len(ops) /\ Len(ops) \in Nat /\ \A i \in DOMAIN ops : ops[i] \in Op
    OBVIOUS
  <1> HIDE DEF c
  <1>6. ASSUME NEW n \in 1..N
        PROVE  /\ c[n] \in Op /\ alike(ops[place[n]], c[n]) /\ c[n].opId = ops[place[n]].opId
               /\ c[n].kind # "progress.set" => c[n] = ops[place[n]]
               /\ c[n].kind = "progress.set" =>
                     /\ \A j \in 1..place[n] : about(ops[j], "progress.set", c[n].key)
                                                   => ops[j].value <= c[n].value
                     /\ \E j \in 1..place[n] : /\ about(ops[j], "progress.set", c[n].key)
                                               /\ ops[j].value = c[n].value
    BY <1>4, MergedParts DEF alike
  <1>7. Increasing(c)
    <2> SUFFICES ASSUME NEW m \in 1..N, NEW n \in 1..N, m < n PROVE c[m].opId < c[n].opId
      BY <1>4 DEF Increasing
    <2>1. place[m] < place[n]
      BY <1>2 DEF Compacts
    <2> QED BY <1>4, <1>6, <2>1 DEF Increasing
  <1>8. Inherits(c, ops)
    <2> SUFFICES ASSUME NEW n \in 1..N
                 PROVE  \E x, z \in members(ops) :
                            /\ alike(x, c[n]) /\ x.opId = c[n].opId
                            /\ c[n].kind # "progress.set" => x = c[n]
                            /\ alike(z, c[n]) /\ z.opId <= c[n].opId /\ z.value = c[n].value
      BY <1>4 DEF Inherits, members
    <2>1. ops[place[n]] \in members(ops) /\ c[n].opId \in Nat
      BY <1>4, <1>6 DEF members, Op
    <2>2. \E z \in members(ops) : alike(z, c[n]) /\ z.opId <= c[n].opId /\ z.value = c[n].value
      <3>1. CASE c[n].kind # "progress.set"
        BY <1>6, <2>1, <3>1
      <3>2. CASE c[n].kind = "progress.set"
        <4>1. PICK j \in 1..place[n] : /\ about(ops[j], "progress.set", c[n].key)
                                       /\ ops[j].value = c[n].value
          BY <1>6, <3>2
        <4>2. j \in DOMAIN ops /\ place[n] \in DOMAIN ops /\ j <= place[n]
          BY <1>4, <1>5
        <4>3. ops[j].opId <= ops[place[n]].opId /\ ops[j] \in members(ops)
          BY <4>2, RisingIds DEF members
        <4> QED BY <1>6, <3>2, <4>1, <4>3 DEF alike, about
      <3> QED BY <3>1, <3>2
    <2> QED BY <1>6, <2>1, <2>2
  <1>9. Represents(c, ops)
    <2> SUFFICES ASSUME NEW i \in DOMAIN ops, isState(ops[i])
                 PROVE  \E n \in 1..N :
                            /\ alike(ops[i], c[n]) /\ ops[i].opId <= c[n].opId
                            /\ ops[i].kind = "progress.set" => ops[i].value <= c[n].value
      BY <1>4 DEF Represents, members
    <2> DEFINE later == {j \in i..Len(ops) : alike(ops[i], ops[j])}
    <2>1. later \subseteq 0..Len(ops) /\ later # {}
      BY <1>5 DEF alike
    <2>2. PICK g \in later : \A j \in later : j <= g
      <3> HIDE DEF later
      <3> QED BY <1>5, <2>1, Greatest
    <2>3. g \in DOMAIN ops /\ i <= g /\ alike(ops[i], ops[g]) /\ i \in 1..g
      BY <1>5, <2>2
    <2>4. isState(ops[g])
      BY <2>3 DEF alike, isState
    <2>5. \A j \in (g + 1)..Len(ops) : ~about(ops[j], ops[g].kind, ops[g].key)
      <3> SUFFICES ASSUME NEW j \in (g + 1)..Len(ops), about(ops[j], ops[g].kind, ops[g].key)
                   PROVE  FALSE
        OBVIOUS
      <3>1. j \in i..Len(ops) /\ ~(j <= g)
        BY <1>5, <2>3
      <3>2. alike(ops[i], ops[j])
        BY <2>3 DEF alike, about
      <3> QED BY <2>2, <3>1, <3>2
    <2>6. stays(ops, g)
      BY <2>3, <2>4, <2>5, StaysWhere
    <2>7. PICK n \in 1..N : place[n] = g
      BY <1>2, <2>3, <2>6 DEF Compacts
    <2>8. ops[i].opId <= ops[g].opId
      BY <2>3, RisingIds
    <2>9. ops[i].kind = "progress.set" => ops[i].value <= c[n].value
      BY <1>6, <2>3, <2>7 DEF alike, about
    <2> QED BY <1>6, <2>3, <2>7, <2>8, <2>9 DEF alike
  <1>10. Lone(c)
    <2>1. ASSUME NEW m \in 1..N, NEW n \in 1..N, m < n, isState(c[m]), alike(c[m], c[n])
          PROVE  FALSE
      <3>1. place[m] < place[n] /\ stays(ops, place[m])
        BY <1>2, <2>1 DEF Compacts
      <3>2. isState(ops[place[m]]) /\ about(ops[place[n]], ops[place[m]].kind, ops[place[m]].key)
        BY <1>6, <2>1 DEF isState, alike, about
      <3>3. place[n] \in (place[m] + 1)..Len(ops)
        BY <1>4, <1>5, <3>1
      <3> QED BY <1>4, <3>1, <3>2, <3>3, StaysWhere
    <2>2. \A m, n \in 1..N : m < n \/ m = n \/ n < m
      OBVIOUS
    <2>3. \A m, n \in 1..N : isState(c[m]) /\ alike(c[m], c[n]) => m = n
      <3> SUFFICES ASSUME NEW m \in 1..N, NEW n \in 1..N, isState(c[m]), alike(c[m], c[n])
                   PROVE  m = n
        OBVIOUS
      <3>1. isState(c[n]) /\ alike(c[n], c[m])
        BY DEF isState, alike
      <3> QED BY <2>1, <2>2, <3>1
    <2> QED BY <1>4, <2>3 DEF Lone, members
  <1> QED BY <1>7, <1>8, <1>9, <1>10 DEF c

(* Picking every place changes nothing. *)
LEMMA PickAll ==
    ASSUME NEW T, NEW ops \in Seq(T)
    PROVE  pick(ops, DOMAIN ops) = ops
  <1> DEFINE L == Len(ops)  S == 1..L  p == pick(ops, S)
  <1>1. L \in Nat /\ DOMAIN ops = S /\ S \subseteq Nat
    OBVIOUS
  <1>0. IsFiniteSet(S) /\ Cardinality(S) = L
    <2> HIDE DEF L
    <2> QED BY <1>1, Counting
  <1>2. p \in Seq(T) /\ Len(p) = L
    <2>1. S \in SUBSET DOMAIN ops
      BY <1>1
    <2> HIDE DEF S
    <2> QED BY <1>0, <1>1, <2>1, PickSeq
  <1>3. ASSUME NEW i \in 1..L PROVE p[i] = ops[i]
    <2>1. {j \in S : j <= i} = 1..i /\ i \in Nat
      BY <1>1
    <2>2. rank(S, i) = i
      <3> HIDE DEF S
      <3> QED BY <2>1, Counting DEF rank
    <2> HIDE DEF S
    <2> QED BY <1>0, <1>1, <1>3, <2>2, PickAt DEF S
  <1>4. p = ops
    <2> HIDE DEF p
    <2>1. DOMAIN p = 1..L /\ DOMAIN ops = 1..L
      BY <1>1, <1>2
    <2>2. p = [i \in 1..L |-> p[i]] /\ ops = [i \in 1..L |-> ops[i]]
      BY <1>2, <2>1
    <2> QED BY <1>3, <2>1, <2>2
  <1> QED BY <1>1, <1>4

(* A queue that compaction does not shorten is compact. *)
LEMMA CompactSame ==
    ASSUME NEW ops \in Seq(Op), Len(compactQueue(ops)) = Len(ops)
    PROVE  compactQueue(ops) = ops
  <1> DEFINE S == {i \in DOMAIN ops : stays(ops, i)}
             all == [i \in DOMAIN ops |-> mergedAt(ops, i)]
  <1>1. DOMAIN ops = 1..Len(ops) /\ Len(ops) \in Nat /\ \A i \in DOMAIN ops : ops[i] \in Op
    OBVIOUS
  <1>2. compactQueue(ops) = pick(all, S)
    BY DEF compactQueue, stays
  <1>3. all \in Seq(Op) /\ S \in SUBSET DOMAIN all
    BY <1>1, MergedParts
  <1>4. S = DOMAIN ops
    <2>1. Len(pick(all, S)) = Cardinality(S)
      <3> HIDE DEF S, all
      <3> QED BY <1>3, PickSeq
    <2>2. IsFiniteSet(1..Len(ops)) /\ Cardinality(1..Len(ops)) = Len(ops)
      BY <1>1, Counting
    <2>3. S \in SUBSET (1..Len(ops))
      BY <1>1
    <2> HIDE DEF S
    <2> QED BY <1>1, <1>2, <2>1, <2>2, <2>3, FS_Subset
  <1>5. ASSUME NEW i \in DOMAIN ops PROVE mergedAt(ops, i) = ops[i]
    <2> DEFINE m == mergedAt(ops, i)
    <2>1. /\ m \in Op /\ m.kind = ops[i].kind /\ m.key = ops[i].key /\ m.opId = ops[i].opId
          /\ m.kind # "progress.set" => m = ops[i]
          /\ m.kind = "progress.set" =>
                \E j \in 1..i : about(ops[j], "progress.set", m.key) /\ ops[j].value = m.value
      BY MergedParts
    <2> HIDE DEF m
    <2>2. ASSUME m.kind = "progress.set" PROVE m.value = ops[i].value
      <3>1. PICK j \in 1..i : about(ops[j], "progress.set", m.key) /\ ops[j].value = m.value
        BY <2>1, <2>2
      <3>2. ASSUME j # i PROVE FALSE
        <4>1. j \in DOMAIN ops /\ i \in (j + 1)..Len(ops)
          BY <1>1, <3>2
        <4>2. stays(ops, j)
          BY <1>4, <4>1
        <4>3. isState(ops[j]) /\ about(ops[i], ops[j].kind, ops[j].key)
          BY <1>1, <2>1, <2>2, <3>1, <4>1, StateKeys DEF about
        <4> QED BY <4>1, <4>2, <4>3, StaysWhere
      <3> QED BY <3>1, <3>2
    <2>3. ops[i] \in Op
      BY <1>1
    <2> QED BY <2>1, <2>2, <2>3 DEF Op, m
  <1>6. all = ops
    <2>1. \A i \in DOMAIN ops : all[i] = ops[i]
      BY <1>5
    <2> HIDE DEF all
    <2>2. all = [i \in 1..Len(ops) |-> all[i]] /\ ops = [i \in 1..Len(ops) |-> ops[i]]
          /\ DOMAIN all = DOMAIN ops
      BY <1>1, <1>3 DEF all
    <2> QED BY <1>1, <2>1, <2>2
  <1> HIDE DEF S, all
  <1> QED BY <1>2, <1>4, <1>6, PickAll

(* A queue that compaction makes short enough loses no state either. *)
LEMMA TrimFits ==
    ASSUME NEW ops \in Seq(Op), NEW limit \in Nat, Len(compactQueue(ops)) <= limit
    PROVE  trimQueue(ops, limit) = compactQueue(ops)
  <1> DEFINE c == compactQueue(ops)
             state(i) == classifyOp(c[i].kind) = "state"
             upTo(i) == {j \in 1..i : state(j)}
             dropped == {i \in DOMAIN c : state(i) /\ Cardinality(upTo(i)) <= Len(c) - limit}
  <1>1. c \in Seq(Op) /\ Len(c) \in Nat /\ DOMAIN c = 1..Len(c)
    <2>1. Mergeable(Op)
      BY DEF Mergeable, Op
    <2>2. c \in Seq(Op)
      <3> HIDE DEF c
      <3> QED BY <2>1, CompactSeq DEF c
    <2> HIDE DEF c
    <2> QED BY <2>2
  <1>2. trimQueue(ops, limit) = pick(c, DOMAIN c \ dropped)
    BY DEF trimQueue
  <1> HIDE DEF c
  <1>3. ASSUME NEW i \in DOMAIN c, state(i) PROVE ~(Cardinality(upTo(i)) <= Len(c) - limit)
    <2>1. i \in Nat /\ i \in upTo(i) /\ upTo(i) \in SUBSET (1..i)
      BY <1>1, <1>3
    <2>2. IsFiniteSet(upTo(i))
      <3> HIDE DEF upTo
      <3>1. IsFiniteSet(1..i)
        BY <2>1, Counting
      <3> QED BY <2>1, <3>1, FS_Subset
    <2>3. Cardinality(upTo(i)) \in Nat /\ Cardinality(upTo(i)) # 0
      <3> HIDE DEF upTo
      <3> QED BY <2>1, <2>2, FS_EmptySet, FS_CardinalityType
    <2> HIDE DEF upTo
    <2> QED BY <1>1, <2>3 DEF c
  <1>4. dropped = {}
    BY <1>3
  <1> HIDE DEF dropped
  <1> QED BY <1>1, <1>2, <1>4, PickAll DEF c

(* What stands where of a part of a queue. *)
LEMMA PickRises ==
    ASSUME NEW T, NEW ops \in Seq(T), NEW S \in SUBSET DOMAIN ops, Increasing(ops)
    PROVE  Increasing(pick(ops, S))
  <1>1. S \subseteq Nat /\ IsFiniteSet(S)
    <2>1. DOMAIN ops = 1..Len(ops) /\ Len(ops) \in Nat
      OBVIOUS
    <2>2. S \in SUBSET Nat /\ S \in SUBSET (1..Len(ops)) /\ IsFiniteSet(1..Len(ops))
      BY <2>1, FS_Interval
    <2> QED BY <2>2, FS_Subset
  <1>2. PICK place \in [1..Cardinality(S) -> S] : Picks(place, ops, S)
    BY <1>1, PickPlaces
  <1> DEFINE N == Cardinality(S)
  <1>3. /\ pick(ops, S) = [n \in 1..N |-> ops[place[n]]]
        /\ \A m, n \in 1..N : m < n => place[m] < place[n]
    BY <1>2 DEF Picks
  <1>4. DOMAIN pick(ops, S) = 1..N /\ \A n \in 1..N : /\ pick(ops, S)[n] = ops[place[n]]
                                                      /\ place[n] \in DOMAIN ops
    BY <1>2, <1>3
  <1> HIDE DEF N
  <1> QED BY <1>3, <1>4 DEF Increasing

(* What a replay leaves of progress and of hearts.                           *)
Furthers(t, u, ops, n) ==
    \A k \in Key :
        /\ t.progress[k] <= u.progress[k]
        /\ \A i \in 1..n : about(ops[i], "progress.set", k) => ops[i].value <= u.progress[k]
Hearts(t, u, ops, n) ==
    \A k \in Key :
        \/ /\ u.favorite[k] = t.favorite[k]
           /\ \A i \in 1..n : ~about(ops[i], "favorite.set", k)
        \/ \E i \in 1..n : /\ about(ops[i], "favorite.set", k) /\ u.favorite[k] = ops[i].value
                           /\ \A j \in (i + 1)..n : ~about(ops[j], "favorite.set", k)

LEMMA ReplayParts ==
    ASSUME NEW t \in Table, NEW ops \in Seq(Op)
    PROVE  /\ replay(t, ops) \in Table
           /\ Furthers(t, replay(t, ops), ops, Len(ops))
           /\ Hearts(t, replay(t, ops), ops, Len(ops))
  <1> DEFINE L == Len(ops)
  <1>1. L \in Nat /\ DOMAIN ops = 1..L /\ \A i \in 1..L : ops[i] \in Op
    OBVIOUS
  <1>2. PICK a \in [0..L -> Table] : Replays(a, t, ops)
    BY ReplayRuns
  <1> DEFINE good == {n \in 0..L : Furthers(t, a[n], ops, n) /\ Hearts(t, a[n], ops, n)}
  <1>3. 0 \in good
    <2>1. a[0] = t /\ 1..0 = {}
      BY <1>2 DEF Replays
    <2>2. \A k \in Key : t.progress[k] \in Nat
      BY DEF Table
    <2> HIDE DEF L
    <2> QED BY <1>1, <2>1, <2>2 DEF Furthers, Hearts
  <1>4. ASSUME NEW n \in 1..L, n - 1 \in good PROVE n \in good
    <2> DEFINE u == a[n - 1]  w == a[n]  op == ops[n]
    <2>1. n - 1 \in 0..L /\ n \in 0..L /\ u \in Table /\ w \in Table /\ op \in Op
      BY <1>1
    <2>2. w = effect(u, op)
      BY <1>2 DEF Replays
    <2>3. \A k \in Key :
             /\ w.favorite[k] = IF about(op, "favorite.set", k) THEN op.value ELSE u.favorite[k]
             /\ w.progress[k] = IF about(op, "progress.set", k) /\ op.value > u.progress[k]
                                THEN op.value ELSE u.progress[k]
      <3> HIDE DEF u, w, op
      <3> DEFINE v == effect(u, op)
      <3>1. \A k \in Key :
               /\ v.favorite[k] = IF about(op, "favorite.set", k) THEN op.value ELSE u.favorite[k]
               /\ v.progress[k] = IF about(op, "progress.set", k) /\ op.value > u.progress[k]
                                  THEN op.value ELSE u.progress[k]
        BY <2>1, EffectParts
      <3> HIDE DEF v
      <3>2. w = v
        BY <2>2 DEF v
      <3> QED BY <3>1, <3>2
    <2>4. Furthers(t, u, ops, n - 1) /\ Hearts(t, u, ops, n - 1)
      BY <1>4
    <2>5. \A i \in 1..n : i = n \/ i \in 1..(n - 1)
      BY <1>1
    <2>6. \A s \in Table : \A k \in Key : s.progress[k] \in Nat
      BY DEF Table
    <2>7. \A i \in 1..n : ops[i].value \in Nat
      <3>1. \A i \in 1..n : ops[i] \in Op
        BY <1>1
      <3> QED BY <3>1 DEF Op
    <2> HIDE DEF u, w, op
    <2>8. Furthers(t, w, ops, n)
      <3> SUFFICES ASSUME NEW k \in Key
                   PROVE  /\ t.progress[k] <= w.progress[k]
                          /\ \A i \in 1..n : about(ops[i], "progress.set", k)
                                                => ops[i].value <= w.progress[k]
        BY DEF Furthers
      <3>1. /\ t.progress[k] \in Nat /\ u.progress[k] \in Nat /\ w.progress[k] \in Nat
            /\ op.value \in Nat
        BY <2>1, <2>6 DEF Op
      <3>2. u.progress[k] <= w.progress[k] /\ (about(op, "progress.set", k) => op.value <= w.progress[k])
        BY <2>3, <3>1
      <3>3. t.progress[k] <= u.progress[k]
        BY <2>4 DEF Furthers
      <3>4. ASSUME NEW i \in 1..n, about(ops[i], "progress.set", k)
            PROVE  ops[i].value <= w.progress[k]
        <4>1. CASE i = n
          BY <3>2, <3>4, <4>1 DEF op
        <4>2. CASE i \in 1..(n - 1)
          <5>1. ops[i].value <= u.progress[k]
            BY <2>4, <3>4, <4>2 DEF Furthers
          <5> QED BY <2>7, <3>1, <3>2, <5>1
        <4> QED BY <2>5, <4>1, <4>2
      <3> QED BY <3>1, <3>2, <3>3, <3>4
    <2>9. Hearts(t, w, ops, n)
      <3> SUFFICES ASSUME NEW k \in Key
                   PROVE  \/ /\ w.favorite[k] = t.favorite[k]
                             /\ \A i \in 1..n : ~about(ops[i], "favorite.set", k)
                          \/ \E i \in 1..n :
                                /\ about(ops[i], "favorite.set", k) /\ w.favorite[k] = ops[i].value
                                /\ \A j \in (i + 1)..n : ~about(ops[j], "favorite.set", k)
        BY DEF Hearts
      <3>1. CASE about(op, "favorite.set", k)
        <4>1. n \in 1..n /\ (n + 1)..n = {}
          BY <1>1
        <4>2. w.favorite[k] = ops[n].value /\ about(ops[n], "favorite.set", k)
          BY <2>3, <3>1 DEF op
        <4> QED BY <4>1, <4>2
      <3>2. CASE ~about(op, "favorite.set", k)
        <4>1. w.favorite[k] = u.favorite[k]
          BY <2>3, <3>2
        <4>2. CASE /\ u.favorite[k] = t.favorite[k]
                   /\ \A i \in 1..(n - 1) : ~about(ops[i], "favorite.set", k)
          BY <2>5, <3>2, <4>1, <4>2 DEF op
        <4>3. CASE \E i \in 1..(n - 1) :
                      /\ about(ops[i], "favorite.set", k) /\ u.favorite[k] = ops[i].value
                      /\ \A j \in (i + 1)..(n - 1) : ~about(ops[j], "favorite.set", k)
          <5>1. PICK i \in 1..(n - 1) :
                      /\ about(ops[i], "favorite.set", k) /\ u.favorite[k] = ops[i].value
                      /\ \A j \in (i + 1)..(n - 1) : ~about(ops[j], "favorite.set", k)
            BY <4>3
          <5>2. i \in 1..n /\ \A j \in (i + 1)..n : j = n \/ j \in (i + 1)..(n - 1)
            BY <1>1
          <5> QED BY <3>2, <4>1, <5>1, <5>2 DEF op
        <4> QED BY <2>4, <4>2, <4>3 DEF Hearts
      <3> QED BY <3>1, <3>2
    <2> QED BY <2>1, <2>8, <2>9 DEF w
  <1>5. L \in good
    <2> HIDE DEF good, L
    <2>1. L \in 0..L
      BY <1>1
    <2> QED BY <1>1, <1>3, <1>4, <2>1, UpTo
  <1>6. replay(t, ops) = a[L] /\ L \in 0..L
    BY <1>1, <1>2 DEF Replays
  <1> QED BY <1>5, <1>6

(* The server takes what it has not applied and can apply.                   *)
LEMMA FreshMembers ==
    ASSUME NEW batch \in Seq(Op), Increasing(batch)
    PROVE  LET p == pick(batch, fresh(batch))
           IN  /\ p \in Seq(Op) /\ Increasing(p)
               /\ members(p) = {b \in members(batch) : b.opId \notin applied /\ applicable(b)}
  <1> DEFINE S == fresh(batch)  p == pick(batch, S)
  <1>1. S \in SUBSET DOMAIN batch
    BY DEF fresh
  <1>2. DOMAIN batch = 1..Len(batch) /\ Len(batch) \in Nat /\ \A i \in DOMAIN batch : batch[i] \in Op
    OBVIOUS
  <1>3. \A i \in DOMAIN batch : \A j \in 1..(i - 1) : batch[j].opId # batch[i].opId
    <2> SUFFICES ASSUME NEW i \in DOMAIN batch, NEW j \in 1..(i - 1)
                 PROVE  batch[j].opId # batch[i].opId
      OBVIOUS
    <2>1. j \in DOMAIN batch /\ j < i
      BY <1>2
    <2>2. batch[j].opId < batch[i].opId /\ batch[i].opId \in Nat /\ batch[j].opId \in Nat
      BY <1>2, <2>1 DEF Increasing, Op
    <2> QED BY <2>2
  <1>4. S = {i \in DOMAIN batch : batch[i].opId \notin applied /\ applicable(batch[i])}
    BY <1>3 DEF fresh
  <1> HIDE DEF S
  <1>5. /\ p \in Seq(Op)
        /\ \A n \in DOMAIN p : \E i \in S : p[n] = batch[i]
        /\ \A i \in S : \E n \in DOMAIN p : p[n] = batch[i]
    BY <1>1, PickSeq
  <1>6. Increasing(p)
    BY <1>1, PickRises
  <1> HIDE DEF p
  <1>7. members(p) = {b \in members(batch) : b.opId \notin applied /\ applicable(b)}
    BY <1>4, <1>5 DEF members
  <1> QED BY <1>5, <1>6, <1>7 DEF p, S

(* The beginning of a queue in order.                                        *)
LEMMA FirstRises ==
    ASSUME NEW ops \in Seq(Op), Increasing(ops), NEW n \in Nat
    PROVE  /\ Increasing(firstOf(ops, n))
           /\ \A x \in members(ops), b \in members(firstOf(ops, n)) :
                  x.opId <= b.opId => x \in members(firstOf(ops, n))
  <1> DEFINE f == firstOf(ops, n)  m == IF Len(ops) < n THEN Len(ops) ELSE n
  <1>1. /\ f \in Seq(Op) /\ Len(f) = m
        /\ \A i \in DOMAIN f : i \in DOMAIN ops /\ f[i] = ops[i]
    BY FirstOf
  <1>2. DOMAIN f = 1..m /\ m \in Nat /\ DOMAIN ops = 1..Len(ops) /\ Len(ops) \in Nat
    <2> HIDE DEF f
    <2> QED BY <1>1
  <1> HIDE DEF f, m
  <1>3. Increasing(f)
    BY <1>1 DEF Increasing
  <1>4. ASSUME NEW i \in DOMAIN ops, NEW j \in DOMAIN f, ops[i].opId <= f[j].opId
        PROVE  ops[i] \in members(f)
    <2>1. j \in DOMAIN ops /\ f[j] = ops[j]
      BY <1>1
    <2>2. i <= j
      <3>1. ASSUME j < i PROVE FALSE
        <4>1. ops[j].opId < ops[i].opId
          BY <2>1, <3>1 DEF Increasing
        <4>2. ops[i] \in Op /\ ops[j] \in Op
          BY <2>1
        <4> QED BY <1>4, <2>1, <4>1, <4>2 DEF Op
      <3> QED BY <1>2, <2>1, <3>1
    <2>3. i \in DOMAIN f
      BY <1>2, <2>1, <2>2
    <2> QED BY <1>1, <2>3 DEF members
  <1> QED BY <1>3, <1>4 DEF members, f

-------------------------------------------------------------------------------
(* What waits on the device, in its queue q and in the batch b under way, of *)
(* the operations written, w, when those of d are applied and the tables are *)
(* t                                                                         *)

held(q, b) == members(q) \cup members(b)

(* No state is applied before an earlier one of the same that still waits.   *)
InTurn(w, d, q, b) ==
    \A x \in held(q, b), a \in d : Sooner(x, w[a]) => x.opId \in d

(* An applied point of progress is reached, even where merging moved it.     *)
Arrived(t, d, q, b) ==
    \A x \in held(q, b) :
        x.kind = "progress.set" /\ x.opId \in d => x.value <= t.progress[x.key]

(* What is under way reaches as far as what waits under its identifiers.     *)
InFlight(q, b) ==
    \A x \in members(q) :
        x.kind = "progress.set" /\ x.opId \in ids(b) =>
            \E y \in members(b) : alike(x, y) /\ y.opId <= x.opId /\ x.value <= y.value

(* A batch does not pass a state of the same by.                             *)
Behind(q, b) == \A x \in members(q), y \in members(b) : Sooner(x, y) => x.opId \in ids(b)

Waits(w, d, t, q, b) ==
    /\ Increasing(q) /\ Increasing(b)
    /\ InTurn(w, d, q, b) /\ Arrived(t, d, q, b)
    /\ InFlight(q, b) /\ Behind(q, b)

(* A state behind another of the same has not failed yet.                    *)
Untried(tries, q, b) ==
    \A x \in held(q, b), y \in members(q) : Sooner(x, y) => tries[y.opId] = 0

Apart(q, b, given) == \A x \in held(q, b) : x.opId \notin ids(given)

(* The furthest point is at the server, or still going there.                *)
Far(w, d, t, q, given) ==
    \A i \in DOMAIN w :
        w[i].kind = "progress.set" =>
            \/ w[i].value <= t.progress[w[i].key]
            \/ \E x \in held(q, given) : /\ alike(w[i], x) /\ x.opId \notin d
                                         /\ w[i].value <= x.value

hearts(w, k) == {i \in DOMAIN w : about(w[i], "favorite.set", k)}

(* A heart is at the server as it was last applied, and the last written is  *)
(* applied, waits or is quarantined.                                         *)
LastHeart(w, d, t) ==
    \A k \in Key : \A a \in hearts(w, k) \cap d :
        (\A c \in hearts(w, k) \cap d : c <= a) => t.favorite[k] = w[a].value
HeartKept(w, d, q, given) ==
    \A k \in Key : \A a \in hearts(w, k) :
        (\A c \in hearts(w, k) : c <= a) => a \in d \cup ids(q) \cup ids(given)

(* An operation is about what was written under its identifier.              *)
LEMMA GenuineFacts ==
    ASSUME NEW w, History(w), NEW x \in Genuine(w)
    PROVE  /\ x \in Op /\ x.opId \in DOMAIN w /\ x.opId \in Nat
           /\ w[x.opId] \in Op /\ w[x.opId].opId = x.opId
           /\ alike(x, w[x.opId]) /\ alike(w[x.opId], x)
           /\ \A y \in Genuine(w) : y.opId = x.opId => alike(x, y)
           /\ x.kind # "progress.set" => x.value = w[x.opId].value
  <1>1. /\ x \in Op /\ x.opId \in DOMAIN w /\ alike(x, w[x.opId])
        /\ x.kind # "progress.set" => x.value = w[x.opId].value
    BY DEF Genuine, alike
  <1>2. x.opId \in Nat /\ w[x.opId] \in Op /\ w[x.opId].opId = x.opId
    <2>1. x.opId \in Nat
      BY <1>1 DEF Op
    <2>2. w[x.opId] \in Op /\ w[x.opId].opId = x.opId
      BY <1>1 DEF History
    <2> QED BY <2>1, <2>2
  <1>3. \A y \in Genuine(w) : y.opId = x.opId => alike(x, y)
    BY <1>1 DEF Genuine, alike
  <1> QED BY <1>1, <1>2, <1>3 DEF alike

(* The inherited identifiers.                                                *)
LEMMA Inherited ==
    ASSUME NEW w, NEW ops, NEW short, Inherits(short, ops)
    PROVE  /\ \A y \in members(short) :
                 \E x \in members(ops) : alike(x, y) /\ x.opId = y.opId
           /\ ids(short) \subseteq ids(ops)
  <1>1. \A y \in members(short) : \E x \in members(ops) : alike(x, y) /\ x.opId = y.opId
    BY DEF Inherits
  <1>2. \A o : ids(o) = {op.opId : op \in members(o)}
    BY DEF ids, members
  <1> QED BY <1>1, <1>2

LEMMA Alikes ==
    /\ \A x, y : alike(x, y) => alike(y, x) /\ (isState(x) => isState(y))
    /\ \A x, y, z : alike(x, y) /\ alike(y, z) => alike(x, z)
    /\ \A x : x.kind \in {"favorite.set", "progress.set"} => isState(x)
  BY DEF alike, isState, classifyOp

(* Compaction leaves all this as it is.                                      *)
LEMMA CoverWaits ==
    ASSUME NEW w, History(w), NEW d \in SUBSET DOMAIN w, NEW t \in Table,
           NEW ops \in Seq(Genuine(w)), NEW short \in Seq(Genuine(w)), NEW b \in Seq(Genuine(w)),
           Increasing(short), Inherits(short, ops), Waits(w, d, t, ops, b)
    PROVE  Waits(w, d, t, short, b)
  <1>1. /\ members(ops) \subseteq Genuine(w) /\ members(short) \subseteq Genuine(w)
        /\ members(b) \subseteq Genuine(w)
    BY DEF members
  <1>2. ASSUME NEW y \in members(short), y.kind = "progress.set"
        PROVE  \E z \in members(ops) :
                  /\ z \in Genuine(w) /\ alike(z, y) /\ z.opId <= y.opId /\ z.value = y.value
                  /\ y.opId \in d => z.opId \in d
                  /\ y.opId \in ids(b) => z.opId \in ids(b)
    <2>1. PICK z \in members(ops) : alike(z, y) /\ z.opId <= y.opId /\ z.value = y.value
      BY DEF Inherits
    <2>2. z \in Genuine(w) /\ y \in Genuine(w) /\ z.opId \in Nat /\ y.opId \in Nat
      BY <1>1, GenuineFacts
    <2>3. isState(z)
      BY <1>2, <2>1, Alikes
    <2>4. ASSUME y.opId \in d PROVE z.opId \in d
      <3>1. z.opId = y.opId \/ z.opId < y.opId
        BY <2>1, <2>2
      <3>2. alike(z, w[y.opId]) /\ w[y.opId].opId = y.opId
        BY <2>1, <2>2, GenuineFacts, Alikes
      <3>3. z.opId < y.opId => Sooner(z, w[y.opId])
        BY <2>3, <3>2 DEF Sooner
      <3> QED BY <2>4, <3>1, <3>3 DEF Waits, InTurn, held
    <2>5. ASSUME y.opId \in ids(b) PROVE z.opId \in ids(b)
      <3>1. z.opId = y.opId \/ z.opId < y.opId
        BY <2>1, <2>2
      <3>2. PICK c \in members(b) : c.opId = y.opId
        BY <2>5 DEF ids, members
      <3>3. alike(z, c)
        BY <1>1, <2>1, <2>2, <3>2, GenuineFacts, Alikes
      <3>4. z.opId < y.opId => Sooner(z, c)
        BY <2>3, <3>2, <3>3 DEF Sooner
      <3> QED BY <2>5, <3>1, <3>4 DEF Waits, Behind
    <2> QED BY <2>1, <2>2, <2>4, <2>5
  <1>3. InTurn(w, d, short, b)
    <2> SUFFICES ASSUME NEW y \in held(short, b), NEW a \in d, Sooner(y, w[a])
                 PROVE  y.opId \in d
      BY DEF InTurn
    <2>1. PICK x \in held(ops, b) : alike(x, y) /\ x.opId = y.opId
      BY Inherited DEF held, alike
    <2>2. Sooner(x, w[a])
      BY <2>1, Alikes DEF Sooner
    <2> QED BY <2>1, <2>2 DEF Waits, InTurn
  <1>4. Arrived(t, d, short, b)
    <2> SUFFICES ASSUME NEW y \in members(short), y.kind = "progress.set", y.opId \in d
                 PROVE  y.value <= t.progress[y.key]
      BY DEF Arrived, Waits, held
    <2>1. PICK z \in members(ops) : alike(z, y) /\ z.value = y.value /\ z.opId \in d
      BY <1>2
    <2> QED BY <2>1 DEF Waits, Arrived, held, alike
  <1>5. InFlight(short, b)
    <2> SUFFICES ASSUME NEW y \in members(short), y.kind = "progress.set", y.opId \in ids(b)
                 PROVE  \E c \in members(b) : alike(y, c) /\ c.opId <= y.opId /\ y.value <= c.value
      BY DEF InFlight
    <2>1. PICK z \in members(ops) :
              /\ z \in Genuine(w) /\ alike(z, y) /\ z.opId <= y.opId /\ z.value = y.value
              /\ z.opId \in ids(b)
      BY <1>2
    <2>2. PICK c \in members(b) : alike(z, c) /\ c.opId <= z.opId /\ z.value <= c.value
      BY <2>1 DEF Waits, InFlight, alike
    <2>3. c.opId \in Nat /\ z.opId \in Nat /\ y.opId \in Nat
      BY <1>1, <2>1, GenuineFacts
    <2>4. c.opId <= y.opId
      BY <2>1, <2>2, <2>3
    <2> QED BY <2>1, <2>2, <2>4, Alikes
  <1>6. Behind(short, b)
    <2> SUFFICES ASSUME NEW y \in members(short), NEW c \in members(b), Sooner(y, c)
                 PROVE  y.opId \in ids(b)
      BY DEF Behind
    <2>1. PICK x \in members(ops) : alike(x, y) /\ x.opId = y.opId
      BY Inherited
    <2>2. Sooner(x, c)
      BY <2>1, Alikes DEF Sooner
    <2> QED BY <2>1, <2>2 DEF Waits, Behind
  <1> QED BY <1>3, <1>4, <1>5, <1>6 DEF Waits

LEMMA CoverKeeps ==
    ASSUME NEW w, History(w), NEW d \in SUBSET DOMAIN w, NEW t \in Table,
           NEW ops \in Seq(Genuine(w)), NEW short \in Seq(Genuine(w)), NEW b \in Seq(Genuine(w)),
           NEW given, NEW tries,
           Inherits(short, ops), Represents(short, ops), InTurn(w, d, ops, b)
    PROVE  /\ Untried(tries, ops, b) => Untried(tries, short, b)
           /\ Apart(ops, b, given) => Apart(short, b, given)
           /\ Far(w, d, t, ops, given) => Far(w, d, t, short, given)
           /\ HeartKept(w, d, ops, given) => HeartKept(w, d, short, given)
  <1>1. /\ members(ops) \subseteq Genuine(w) /\ members(short) \subseteq Genuine(w)
    BY DEF members
  <1>2. \A y \in held(short, b) : \E x \in held(ops, b) : alike(x, y) /\ x.opId = y.opId
    BY Inherited DEF held, alike
  <1>3. ASSUME Untried(tries, ops, b) PROVE Untried(tries, short, b)
    <2> SUFFICES ASSUME NEW x \in held(short, b), NEW y \in members(short), Sooner(x, y)
                 PROVE  tries[y.opId] = 0
      BY DEF Untried
    <2>1. PICK x0 \in held(ops, b) : alike(x0, x) /\ x0.opId = x.opId
      BY <1>2
    <2>2. PICK y0 \in members(ops) : alike(y0, y) /\ y0.opId = y.opId
      BY Inherited
    <2>3. Sooner(x0, y0)
      BY <2>1, <2>2, Alikes DEF Sooner
    <2> QED BY <1>3, <2>2, <2>3 DEF Untried
  <1>4. Apart(ops, b, given) => Apart(short, b, given)
    BY <1>2 DEF Apart
  <1>5. ASSUME Far(w, d, t, ops, given) PROVE Far(w, d, t, short, given)
    <2> SUFFICES ASSUME NEW i \in DOMAIN w, w[i].kind = "progress.set",
                        NEW x \in members(ops), alike(w[i], x), x.opId \notin d,
                        w[i].value <= x.value
                 PROVE  \E y \in members(short) : /\ alike(w[i], y) /\ y.opId \notin d
                                                  /\ w[i].value <= y.value
      BY <1>5 DEF Far, held
    <2>1. isState(x) /\ x.kind = "progress.set"
      BY Alikes DEF alike
    <2>2. PICK y \in members(short) : alike(x, y) /\ x.opId <= y.opId /\ x.value <= y.value
      BY <2>1 DEF Represents
    <2>3. x \in Genuine(w) /\ y \in Genuine(w) /\ x.opId \in Nat /\ y.opId \in Nat
      BY <1>1, GenuineFacts
    <2>4. ASSUME y.opId \in d PROVE FALSE
      <3>1. x.opId < y.opId
        BY <2>2, <2>3, <2>4
      <3>2. alike(x, w[y.opId]) /\ w[y.opId].opId = y.opId
        BY <2>2, <2>3, GenuineFacts, Alikes
      <3> QED BY <2>1, <2>4, <3>1, <3>2 DEF InTurn, Sooner, held
    <2>5. w[i].value <= y.value
      <3>1. w[i] \in Op /\ x \in Op /\ y \in Op
        BY <2>3, GenuineFacts DEF History
      <3> QED BY <2>2, <3>1 DEF Op
    <2> QED BY <2>2, <2>4, <2>5, Alikes
  <1>6. ASSUME HeartKept(w, d, ops, given) PROVE HeartKept(w, d, short, given)
    <2> SUFFICES ASSUME NEW k \in Key, NEW a \in hearts(w, k), \A c \in hearts(w, k) : c <= a,
                        a \in ids(ops)
                 PROVE  a \in ids(short)
      BY <1>6 DEF HeartKept
    <2>1. PICK x \in members(ops) : x.opId = a
      BY DEF ids, members
    <2>2. x \in Genuine(w) /\ about(x, "favorite.set", k) /\ isState(x)
      BY <1>1, <2>1, GenuineFacts, Alikes DEF hearts, about, alike
    <2>3. PICK y \in members(short) : alike(x, y) /\ x.opId <= y.opId
      BY <2>2 DEF Represents
    <2>4. y \in Genuine(w) /\ y.opId \in hearts(w, k)
      BY <1>1, <2>2, <2>3, GenuineFacts DEF hearts, about, alike
    <2>5. y.opId = a
      BY <2>1, <2>2, <2>3, <2>4, GenuineFacts
    <2> QED BY <2>5 DEF ids, members
  <1> QED BY <1>3, <1>4, <1>5, <1>6

(* One operation more, after everything else.                                *)
LEMMA GrowWaits ==
    ASSUME NEW w, History(w), NEW d \in SUBSET DOMAIN w, NEW t \in Table,
           NEW q \in Seq(Genuine(w)), NEW b \in Seq(Genuine(w)),
           NEW op \in Op, op.opId = Len(w) + 1, Waits(w, d, t, q, b)
    PROVE  Waits(Append(w, op), d, t, Append(q, op), b)
  <1> DEFINE v == Append(w, op)  r == Append(q, op)
  <1>1. /\ w \in Seq(Op) /\ Len(w) \in Nat /\ DOMAIN w = 1..Len(w)
        /\ \A i \in DOMAIN w : v[i] = w[i]
    BY DEF History
  <1>2. members(r) = members(q) \cup {op}
    <2>1. Genuine(w) \subseteq Op
      BY DEF Genuine
    <2>2. q \in Seq(Op)
      BY <2>1, SeqMono
    <2> QED BY <2>2, Appended
  <1>3. \A x \in held(q, b) : x \in Genuine(w) /\ x.opId \in Nat /\ x.opId <= Len(w)
    <2>1. \A x \in held(q, b) : x \in Genuine(w)
      BY DEF held, members
    <2>2. \A x \in Genuine(w) : x.opId \in DOMAIN w /\ x.opId \in Nat
      BY GenuineFacts
    <2> QED BY <1>1, <2>1, <2>2
  <1>4. Increasing(r)
    <2>1. q \in Seq(Op) /\ Len(q) \in Nat /\ DOMAIN q = 1..Len(q)
      <3>1. Genuine(w) \subseteq Op
        BY DEF Genuine
      <3> QED BY <3>1
    <2>2. /\ DOMAIN r = 1..(Len(q) + 1) /\ r[Len(q) + 1] = op
          /\ \A i \in DOMAIN q : r[i] = q[i] /\ q[i] \in held(q, b)
      BY <2>1 DEF held, members
    <2> HIDE DEF r
    <2> SUFFICES ASSUME NEW i \in DOMAIN r, NEW j \in DOMAIN r, i < j
                 PROVE  r[i].opId < r[j].opId
      BY DEF Increasing
    <2>3. i \in DOMAIN q /\ (j \in DOMAIN q \/ j = Len(q) + 1)
      BY <2>1, <2>2
    <2>4. CASE j \in DOMAIN q
      BY <2>2, <2>3, <2>4 DEF Waits, Increasing
    <2>5. CASE j = Len(q) + 1
      BY <1>1, <1>3, <2>2, <2>3, <2>5
    <2> QED BY <2>3, <2>4, <2>5
  <1> HIDE DEF r, v
  <1>5. \A y : y.opId \in Nat /\ y.opId <= Len(w) => ~Sooner(op, y)
    BY <1>1 DEF Sooner
  <1>6. \A a \in d : v[a] = w[a] /\ w[a].opId = a /\ a \in Nat /\ a <= Len(w)
    BY <1>1 DEF History
  <1>7. op.opId \notin d /\ op.opId \notin ids(b)
    <2>1. op.opId \notin d
      BY <1>1
    <2>2. \A y \in members(b) : y.opId # op.opId
      BY <1>1, <1>3 DEF held
    <2> QED BY <2>1, <2>2 DEF ids, members
  <1>8. InTurn(v, d, r, b)
    <2> SUFFICES ASSUME NEW x \in held(r, b), NEW a \in d, Sooner(x, v[a]) PROVE x.opId \in d
      BY DEF InTurn
    <2>1. x # op
      BY <1>5, <1>6
    <2>2. x \in held(q, b) /\ Sooner(x, w[a])
      BY <1>2, <1>6, <2>1 DEF held
    <2> QED BY <2>2 DEF Waits, InTurn
  <1>9. Arrived(t, d, r, b)
    BY <1>2, <1>7 DEF Waits, Arrived, held
  <1>10. InFlight(r, b)
    BY <1>2, <1>7 DEF Waits, InFlight
  <1>11. Behind(r, b)
    <2> SUFFICES ASSUME NEW x \in members(r), NEW y \in members(b), Sooner(x, y)
                 PROVE  x.opId \in ids(b)
      BY DEF Behind
    <2>1. x # op
      BY <1>3, <1>5 DEF held
    <2> QED BY <1>2, <2>1 DEF Waits, Behind
  <1> QED BY <1>4, <1>8, <1>9, <1>10, <1>11 DEF Waits, r, v

LEMMA GrowKeeps ==
    ASSUME NEW w, History(w), NEW d \in SUBSET DOMAIN w, NEW t \in Table,
           NEW q \in Seq(Genuine(w)), NEW b \in Seq(Genuine(w)), NEW given \in Seq(Genuine(w)),
           NEW op \in Op, op.opId = Len(w) + 1, NEW tries
    PROVE  /\ Untried(tries, q, b) /\ tries[op.opId] = 0 => Untried(tries, Append(q, op), b)
           /\ Apart(q, b, given) => Apart(Append(q, op), b, given)
           /\ Far(w, d, t, q, given) => Far(Append(w, op), d, t, Append(q, op), given)
           /\ LastHeart(w, d, t) => LastHeart(Append(w, op), d, t)
           /\ HeartKept(w, d, q, given) => HeartKept(Append(w, op), d, Append(q, op), given)
  <1> DEFINE v == Append(w, op)  r == Append(q, op)
  <1>1. /\ w \in Seq(Op) /\ Len(w) \in Nat /\ DOMAIN w = 1..Len(w)
        /\ DOMAIN v = DOMAIN w \cup {op.opId} /\ v[op.opId] = op
        /\ \A i \in DOMAIN w : v[i] = w[i]
    <2>1. w \in Seq(Op) /\ Len(w) \in Nat /\ DOMAIN w = 1..Len(w)
      BY DEF History
    <2>2. DOMAIN v = 1..(Len(w) + 1) /\ v[Len(w) + 1] = op /\ \A i \in DOMAIN w : v[i] = w[i]
      BY <2>1
    <2> HIDE DEF v
    <2> QED BY <2>1, <2>2
  <1>2. members(r) = members(q) \cup {op} /\ ids(r) = ids(q) \cup {op.opId}
    <2>1. Genuine(w) \subseteq Op
      BY DEF Genuine
    <2>2. q \in Seq(Op)
      BY <2>1, SeqMono
    <2> QED BY <2>2, Appended
  <1>3. \A x \in held(q, b) \cup members(given) : x.opId \in Nat /\ x.opId <= Len(w)
    <2>1. \A x \in held(q, b) \cup members(given) : x \in Genuine(w)
      BY DEF held, members
    <2>2. \A x \in Genuine(w) : x.opId \in DOMAIN w /\ x.opId \in Nat
      BY GenuineFacts
    <2> QED BY <1>1, <2>1, <2>2
  <1> HIDE DEF r, v
  <1>4. op.opId \notin DOMAIN w /\ op.opId \notin d /\ op.opId \notin ids(given)
    <2>1. op.opId \notin DOMAIN w
      BY <1>1
    <2>2. \A x \in members(given) : x.opId # op.opId
      BY <1>1, <1>3
    <2> QED BY <2>1, <2>2 DEF ids, members
  <1>5. ASSUME Untried(tries, q, b), tries[op.opId] = 0 PROVE Untried(tries, r, b)
    <2> SUFFICES ASSUME NEW x \in held(r, b), NEW y \in members(r), Sooner(x, y), y # op
                 PROVE  tries[y.opId] = 0
      BY <1>5 DEF Untried
    <2>1. y \in members(q) /\ y.opId \in Nat /\ y.opId <= Len(w)
      BY <1>2, <1>3 DEF held
    <2>2. x # op
      BY <1>1, <2>1 DEF Sooner
    <2> QED BY <1>2, <1>5, <2>1, <2>2 DEF Untried, held
  <1>6. Apart(q, b, given) => Apart(r, b, given)
    BY <1>2, <1>4 DEF Apart, held
  <1>7. ASSUME Far(w, d, t, q, given) PROVE Far(v, d, t, r, given)
    <2> SUFFICES ASSUME NEW i \in DOMAIN v, v[i].kind = "progress.set"
                 PROVE  \/ v[i].value <= t.progress[v[i].key]
                        \/ \E x \in held(r, given) : /\ alike(v[i], x) /\ x.opId \notin d
                                                     /\ v[i].value <= x.value
      BY DEF Far
    <2>1. CASE i \in DOMAIN w
      <3>1. held(q, given) \subseteq held(r, given)
        BY <1>2 DEF held
      <3> QED BY <1>1, <1>7, <2>1, <3>1 DEF Far
    <2>2. CASE i = op.opId
      <3>1. op \in held(r, given) /\ v[i] = op /\ alike(op, op) /\ op.value <= op.value
        BY <1>1, <1>2, <2>2 DEF held, alike, Op
      <3> QED BY <1>4, <3>1
    <2> QED BY <1>1, <2>1, <2>2
  <1>8. \A k \in Key : /\ hearts(w, k) \subseteq hearts(v, k)
                       /\ hearts(v, k) \subseteq hearts(w, k) \cup {op.opId}
    BY <1>1 DEF hearts
  <1>9. ASSUME LastHeart(w, d, t) PROVE LastHeart(v, d, t)
    <2>1. \A k \in Key : hearts(v, k) \cap d = hearts(w, k) \cap d
      BY <1>4, <1>8
    <2>2. \A a \in d : v[a] = w[a]
      BY <1>1
    <2> QED BY <1>9, <2>1, <2>2 DEF LastHeart
  <1>10. ASSUME HeartKept(w, d, q, given) PROVE HeartKept(v, d, r, given)
    <2> SUFFICES ASSUME NEW k \in Key, NEW a \in hearts(v, k), \A c \in hearts(v, k) : c <= a
                 PROVE  a \in d \cup ids(r) \cup ids(given)
      BY DEF HeartKept
    <2>1. CASE a = op.opId
      BY <1>2, <2>1
    <2>2. CASE a # op.opId
      <3>1. a \in hearts(w, k) /\ \A c \in hearts(w, k) : c <= a
        BY <1>8, <2>2
      <3> QED BY <1>2, <1>10, <3>1 DEF HeartKept
    <2> QED BY <2>1, <2>2
  <1> QED BY <1>5, <1>6, <1>7, <1>9, <1>10 DEF r, v

(* A batch from the beginning of the queue, or none at all.                  *)
LEMMA FirstWaits ==
    ASSUME NEW w, NEW d, NEW t, NEW q \in Seq(Op), NEW b0, NEW q0, NEW n \in Nat,
           Increasing(q), members(q) \subseteq held(q0, b0),
           InTurn(w, d, q0, b0), Arrived(t, d, q0, b0)
    PROVE  Waits(w, d, t, q, firstOf(q, n)) /\ Waits(w, d, t, q, <<>>)
  <1> DEFINE f == firstOf(q, n)
  <1>1. members(f) \subseteq members(q) /\ f \in Seq(Op) /\ Increasing(f)
    BY FirstOf, FirstRises
  <1>2. \A x \in members(q) : x \in Op /\ x.opId \in Nat /\ x.value \in Nat
    <2>1. \A x \in members(q) : x \in Op
      BY DEF members
    <2> QED BY <2>1 DEF Op
  <1>3. \A x, y \in members(q) : x.opId = y.opId => x = y
    BY RisingIds
  <1>4. \A x \in members(q), y \in members(f) : x.opId <= y.opId => x \in members(f)
    BY FirstRises
  <1>5. \A x \in members(f) : x.opId \in ids(f)
    BY DEF members, ids
  <1>6. \A o : \A i \in ids(o) : \E x \in members(o) : x.opId = i
    BY DEF members, ids
  <1>7. members(<<>>) = {} /\ ids(<<>>) = {} /\ Increasing(<<>>)
    BY DEF members, ids, Increasing
  <1> HIDE DEF f
  <1>8. InTurn(w, d, q, f) /\ InTurn(w, d, q, <<>>)
    BY <1>1, <1>7 DEF InTurn, held
  <1>9. Arrived(t, d, q, f) /\ Arrived(t, d, q, <<>>)
    BY <1>1, <1>7 DEF Arrived, held
  <1>10. InFlight(q, f)
    <2> SUFFICES ASSUME NEW x \in members(q), x.opId \in ids(f) PROVE x \in members(f)
      BY <1>2 DEF InFlight, alike
    <2>1. PICK y \in members(f) : y.opId = x.opId
      BY <1>6
    <2> QED BY <1>1, <1>3, <2>1
  <1>11. Behind(q, f)
    <2> SUFFICES ASSUME NEW x \in members(q), NEW y \in members(f), x.opId < y.opId
                 PROVE  x.opId \in ids(f)
      BY DEF Behind, Sooner
    <2>1. x.opId <= y.opId
      BY <1>1, <1>2
    <2> QED BY <1>4, <1>5, <2>1
  <1>12. InFlight(q, <<>>) /\ Behind(q, <<>>)
    BY <1>7 DEF InFlight, Behind
  <1> QED BY <1>1, <1>7, <1>8, <1>9, <1>10, <1>11, <1>12 DEF Waits, f

-------------------------------------------------------------------------------
(* The furthest point and the newest heart come through                      *)

(* Memory, localStorage and the account copy hold the same, no request is    *)
(* astray, and what waits is in order.                                       *)
ValueInv ==
    /\ CountInv /\ Len(written) <= MaxOps
    /\ saved = [queue |-> queue, quarantine |-> quarantine] /\ copy = saved /\ late = {}
    /\ Waits(written, applied, table, queue, push.batch)
    /\ Apart(queue, push.batch, quarantine)
    /\ push.pc # "idle" => Untried(attempts, queue, push.batch)
    /\ \A i \in OpId : i > Len(written) => attempts[i] = 0
    /\ push.reply # NoReply =>
           \A y \in members(push.batch) : isState(y) => y.opId \in applied
    /\ Far(written, applied, table, queue, quarantine)
    /\ LastHeart(written, applied, table)
    /\ HeartKept(written, applied, queue, quarantine)

(* Whatever the user writes next, compaction makes room for it.              *)
Uncrowded ==
    Len(written) < MaxOps =>
        \A payload \in Writes :
            Len(compactQueue(Append(queue, operation(payload)))) <= MAX_QUEUE

LEMMA TypedSeqs ==
    ASSUME CountInv
    PROVE  /\ History(written) /\ applied \in SUBSET DOMAIN written /\ table \in Table
           /\ queue \in Seq(Genuine(written)) /\ quarantine \in Seq(Genuine(written))
           /\ push.batch \in Seq(Genuine(written))
           /\ queue \in Seq(Op) /\ push.batch \in Seq(Op) /\ quarantine \in Seq(Op)
           /\ attempts \in [OpId -> Nat] /\ Len(written) \in Nat
  <1>1. /\ History(written) /\ applied \in SUBSET DOMAIN written /\ table \in Table
        /\ queue \in Seq(Genuine(written)) /\ quarantine \in Seq(Genuine(written))
        /\ push.batch \in Seq(Genuine(written)) /\ attempts \in [OpId -> Nat]
    BY DEF CountInv, Typed, Held, Pushes
  <1>2. Genuine(written) \subseteq Op
    BY DEF Genuine
  <1>3. queue \in Seq(Op) /\ push.batch \in Seq(Op) /\ quarantine \in Seq(Op)
    BY <1>1, <1>2, SeqMono
  <1>4. Len(written) \in Nat
    BY <1>1 DEF History
  <1> QED BY <1>1, <1>3, <1>4

(* The server handles the batch under way.                                   *)
LEMMA HandleValues ==
    ASSUME ValueInv, handle(push.batch), UNCHANGED <<written, queue, quarantine>>
    PROVE  /\ applied \subseteq applied'
           /\ \A y \in members(push.batch) : isState(y) => y.opId \in applied'
           /\ Waits(written, applied', table', queue, push.batch)
           /\ Far(written, applied', table', queue, quarantine)
           /\ LastHeart(written, applied', table')
           /\ HeartKept(written, applied', queue, quarantine)
  <1> DEFINE b == push.batch  p == pick(b, fresh(b))
  <1>1. /\ History(written) /\ applied \in SUBSET DOMAIN written /\ table \in Table
        /\ queue \in Seq(Genuine(written)) /\ quarantine \in Seq(Genuine(written))
        /\ b \in Seq(Genuine(written)) /\ b \in Seq(Op)
    BY TypedSeqs DEF ValueInv
  <1>2. Waits(written, applied, table, queue, b)
    BY DEF ValueInv
  <1>3. /\ p \in Seq(Op) /\ Increasing(p)
        /\ members(p) = {y \in members(b) : y.opId \notin applied /\ applicable(y)}
    BY <1>1, <1>2, FreshMembers DEF Waits
  <1>4. table' = replay(table, p) /\ applied' = applied \cup ids(p)
    <2>1. table' = replay(table, p) /\ applied' = applied \cup {b[i].opId : i \in fresh(b)}
      BY DEF handle, fresh
    <2> QED BY <1>1, <2>1, FreshOnce
  <1>5. /\ table' \in Table
        /\ Furthers(table, table', p, Len(p)) /\ Hearts(table, table', p, Len(p))
    BY <1>1, <1>3, <1>4, ReplayParts
  <1> HIDE DEF b, p
  <1>6. /\ members(b) \subseteq Genuine(written) /\ members(queue) \subseteq Genuine(written)
        /\ members(quarantine) \subseteq Genuine(written)
    BY <1>1 DEF members
  <1>7. \A o : /\ \A i \in ids(o) : \E x \in members(o) : x.opId = i
               /\ \A x \in members(o) : x.opId \in ids(o)
    BY DEF members, ids
  <1>8. ASSUME NEW y \in members(b), isState(y) PROVE y.opId \in applied'
    <2>1. applicable(y)
      BY <1>8 DEF applicable, isState, classifyOp
    <2> QED BY <1>3, <1>4, <1>7, <2>1
  <1>9. \A k \in Key : /\ table.progress[k] \in Nat /\ table'.progress[k] \in Nat
                       /\ table.progress[k] <= table'.progress[k]
    BY <1>1, <1>5 DEF Furthers, Table
  <1>10. \A x \in Genuine(written) : x.value \in Nat /\ x.key \in Key /\ x.opId \in Nat
    BY DEF Genuine, Op
  <1>11. ASSUME NEW y \in members(b), y.kind = "progress.set"
         PROVE  y.value <= table'.progress[y.key]
    <2>1. y \in Genuine(written) /\ y.value \in Nat /\ y.key \in Key
      BY <1>6, <1>10
    <2>2. CASE y.opId \in applied
      <3>1. y.value <= table.progress[y.key]
        BY <1>2, <1>11, <2>2 DEF Waits, Arrived, held
      <3> QED BY <1>9, <2>1, <3>1
    <2>3. CASE y.opId \notin applied
      <3>1. y \in members(p)
        BY <1>3, <1>11, <2>3 DEF applicable
      <3>2. PICK i \in 1..Len(p) : y = p[i]
        BY <1>3, <3>1 DEF members
      <3> QED BY <1>5, <1>11, <2>1, <3>2 DEF Furthers, about
    <2> QED BY <2>2, <2>3
  <1>12. ASSUME NEW x \in members(queue), x.kind = "progress.set", x.opId \in ids(b)
         PROVE  x.value <= table'.progress[x.key]
    <2>1. PICK y \in members(b) : alike(x, y) /\ x.value <= y.value
      BY <1>2, <1>12 DEF Waits, InFlight
    <2>2. y.value <= table'.progress[x.key]
      BY <1>11, <1>12, <2>1 DEF alike
    <2>3. x.value \in Nat /\ y.value \in Nat /\ table'.progress[x.key] \in Nat
      BY <1>6, <1>9, <1>10
    <2> QED BY <2>1, <2>2, <2>3
  <1>13. \A i \in applied' : i \in applied \/ i \in ids(p) \cap ids(b)
    BY <1>3, <1>4, <1>7
  <1>14. InTurn(written, applied', queue, b)
    <2> SUFFICES ASSUME NEW x \in held(queue, b), NEW a \in applied', Sooner(x, written[a])
                 PROVE  x.opId \in applied'
      BY DEF InTurn
    <2>1. CASE a \in applied
      BY <1>2, <1>4, <2>1 DEF Waits, InTurn
    <2>2. CASE a \in ids(b)
      <3>1. PICK y \in members(b) : y.opId = a
        BY <1>7, <2>2
      <3>2. alike(written[a], y) /\ written[a].opId = a
        BY <1>1, <1>6, <3>1, GenuineFacts
      <3>3. Sooner(x, y)
        BY <3>1, <3>2, Alikes DEF Sooner
      <3>4. CASE x \in members(b)
        BY <1>8, <3>3, <3>4 DEF Sooner
      <3>5. CASE x \in members(queue)
        <4>1. x.opId \in ids(b)
          BY <1>2, <3>3, <3>5 DEF Waits, Behind
        <4>2. PICK z \in members(b) : z.opId = x.opId
          BY <1>7, <4>1
        <4>3. alike(x, z)
          BY <1>1, <1>6, <3>5, <4>2, GenuineFacts
        <4>4. isState(z)
          BY <3>3, <4>3, Alikes DEF Sooner
        <4> QED BY <1>8, <4>2, <4>4
      <3> QED BY <3>4, <3>5 DEF held
    <2> QED BY <1>13, <2>1, <2>2
  <1>15. Arrived(table', applied', queue, b)
    <2> SUFFICES ASSUME NEW x \in held(queue, b), x.kind = "progress.set", x.opId \in applied'
                 PROVE  x.value <= table'.progress[x.key]
      BY DEF Arrived
    <2>1. CASE x.opId \in applied
      <3>1. x.value <= table.progress[x.key]
        BY <1>2, <2>1 DEF Waits, Arrived
      <3>2. x.value \in Nat /\ x.key \in Key
        BY <1>6, <1>10 DEF held
      <3> QED BY <1>9, <3>1, <3>2
    <2>2. CASE x.opId \in ids(b)
      BY <1>11, <1>12, <2>2 DEF held
    <2> QED BY <1>13, <2>1, <2>2
  <1>16. Waits(written, applied', table', queue, b)
    BY <1>2, <1>14, <1>15 DEF Waits
  <1>17. Far(written, applied', table', queue, quarantine)
    <2> SUFFICES ASSUME NEW i \in DOMAIN written, written[i].kind = "progress.set"
                 PROVE  \/ written[i].value <= table'.progress[written[i].key]
                        \/ \E x \in held(queue, quarantine) :
                              /\ alike(written[i], x) /\ x.opId \notin applied'
                              /\ written[i].value <= x.value
      BY DEF Far
    <2>1. written[i].value \in Nat /\ written[i].key \in Key
      <3>1. written[i] \in Op
        BY <1>1 DEF History
      <3> QED BY <3>1 DEF Op
    <2>2. CASE written[i].value <= table.progress[written[i].key]
      BY <1>9, <2>1, <2>2
    <2>3. CASE \E x \in held(queue, quarantine) :
                  /\ alike(written[i], x) /\ x.opId \notin applied
                  /\ written[i].value <= x.value
      <3>1. PICK x \in held(queue, quarantine) :
                  /\ alike(written[i], x) /\ x.opId \notin applied
                  /\ written[i].value <= x.value
        BY <2>3
      <3>2. CASE x.opId \notin applied'
        BY <3>1, <3>2
      <3>3. CASE x.opId \in ids(b)
        <4>1. x \in members(queue)
          <5>1. PICK y \in members(b) : y.opId = x.opId
            BY <1>7, <3>3
          <5>2. x.opId \notin ids(quarantine)
            BY <5>1 DEF ValueInv, Apart, held, b
          <5> QED BY <1>7, <5>2 DEF held
        <4>2. x.value <= table'.progress[x.key] /\ x.key = written[i].key
          BY <1>12, <3>1, <3>3, <4>1 DEF alike
        <4>3. x.value \in Nat /\ table'.progress[x.key] \in Nat
          BY <1>6, <1>9, <1>10, <4>1
        <4> QED BY <2>1, <3>1, <4>2, <4>3
      <3> QED BY <1>13, <3>1, <3>2, <3>3
    <2> QED BY <2>2, <2>3 DEF ValueInv, Far
  <1>18. LastHeart(written, applied', table')
    <2> SUFFICES ASSUME NEW k \in Key, NEW a \in hearts(written, k), a \in applied',
                        \A c \in hearts(written, k) \cap applied' : c <= a
                 PROVE  table'.favorite[k] = written[a].value
      BY DEF LastHeart
    <2>1. ASSUME a \in applied, table'.favorite[k] = table.favorite[k]
          PROVE  table'.favorite[k] = written[a].value
      BY <1>4, <2>1 DEF ValueInv, LastHeart
    <2>2. ASSUME NEW i \in 1..Len(p)
          PROVE  /\ p[i] \in members(p) /\ p[i] \in members(b) /\ p[i] \in Genuine(written)
                 /\ p[i].opId \notin applied /\ p[i].opId \in applied'
      <3>1. p[i] \in members(p)
        BY <1>3 DEF members
      <3> QED BY <1>3, <1>4, <1>6, <1>7, <3>1
    <2>3. ASSUME a \in ids(p) PROVE \E i \in 1..Len(p) : /\ p[i].opId = a
                                                         /\ about(p[i], "favorite.set", k)
      <3>1. PICK i \in 1..Len(p) : p[i].opId = a
        BY <1>3, <2>3 DEF ids
      <3>2. alike(p[i], written[a])
        BY <1>1, <2>2, <3>1, GenuineFacts
      <3> QED BY <3>1, <3>2 DEF alike, about, hearts
    <2>4. CASE /\ table'.favorite[k] = table.favorite[k]
               /\ \A i \in 1..Len(p) : ~about(p[i], "favorite.set", k)
      BY <1>13, <2>1, <2>3, <2>4
    <2>5. CASE \E i \in 1..Len(p) :
                  /\ about(p[i], "favorite.set", k) /\ table'.favorite[k] = p[i].value
                  /\ \A j \in (i + 1)..Len(p) : ~about(p[j], "favorite.set", k)
      <3>1. PICK i \in 1..Len(p) :
                  /\ about(p[i], "favorite.set", k) /\ table'.favorite[k] = p[i].value
                  /\ \A j \in (i + 1)..Len(p) : ~about(p[j], "favorite.set", k)
        BY <2>5
      <3> DEFINE z == p[i]
      <3>2. z \in members(b) /\ z \in Genuine(written) /\ z.opId \notin applied
            /\ z.opId \in applied' /\ about(z, "favorite.set", k)
        BY <2>2, <3>1
      <3> HIDE DEF z
      <3>3. z.opId \in hearts(written, k)
        BY <1>1, <3>2, GenuineFacts DEF hearts, about, alike
      <3>4. z.opId <= a
        BY <3>2, <3>3
      <3>5. z.opId \in Nat /\ a \in Nat
        BY <1>1, <1>10, <3>2 DEF hearts, History
      <3>6. CASE z.opId = a
        <4>1. z.value = written[a].value
          BY <1>1, <3>2, <3>6, GenuineFacts DEF about
        <4> QED BY <3>1, <4>1 DEF z
      <3>7. CASE z.opId < a
        <4>1. a \in applied => FALSE
          <5>1. Sooner(z, written[a])
            <6>1. written[a].opId = a
              BY <1>1 DEF hearts, History
            <6> QED BY <3>2, <3>7, <6>1, Alikes DEF Sooner, hearts, about, alike
          <5> QED BY <1>2, <3>2, <5>1 DEF Waits, InTurn, held
        <4>2. a \in ids(p)
          BY <1>13, <4>1
        <4>3. PICK j \in 1..Len(p) : p[j].opId = a /\ about(p[j], "favorite.set", k)
          BY <2>3, <4>2
        <4>4. DOMAIN p = 1..Len(p) /\ Len(p) \in Nat
          BY <1>3
        <4>5. i < j
          BY <1>3, <3>7, <4>3, <4>4, RisingIds DEF z
        <4>6. j \in (i + 1)..Len(p)
          BY <4>4, <4>5
        <4> QED BY <3>1, <4>3, <4>6
      <3> QED BY <3>4, <3>5, <3>6, <3>7
    <2> QED BY <1>5, <2>4, <2>5 DEF Hearts
  <1>19. HeartKept(written, applied', queue, quarantine)
    BY <1>4 DEF ValueInv, HeartKept
  <1> QED BY <1>4, <1>8, <1>16, <1>17, <1>18, <1>19 DEF b

LEMMA PersistSame ==
    ASSUME persist, ~LocalMayFail, ~CopyMayFail
    PROVE  saved' = [queue |-> queue', quarantine |-> quarantine'] /\ copy' = saved'
  BY DEF persist

(* A step that leaves the server alone and writes nothing.                   *)
LEMMA ValueQuiet ==
    ASSUME ValueInv, CountInv', UNCHANGED <<written, table, applied>>,
           saved' = [queue |-> queue', quarantine |-> quarantine'], copy' = saved', late' = {},
           Waits(written, applied, table, queue', push'.batch),
           Apart(queue', push'.batch, quarantine'),
           push'.pc # "idle" => Untried(attempts', queue', push'.batch),
           \A i \in OpId : i > Len(written) => attempts'[i] = 0,
           push'.reply = NoReply,
           Far(written, applied, table, queue', quarantine'),
           HeartKept(written, applied, queue', quarantine')
    PROVE  ValueInv'
  BY DEF ValueInv

LEMMA ServeValues == ASSUME ValueInv, CountInv', Serve PROVE ValueInv'
  <1>1. /\ handle(push.batch) /\ push' = [push EXCEPT !.reply = ids(push.batch) \cap applied']
        /\ UNCHANGED <<written, queue, quarantine, attempts, saved, copy, late>>
    BY DEF Serve
  <1>2. push'.batch = push.batch /\ push'.pc = push.pc
    <2>1. push \in Pushes(Genuine(written))
      BY DEF ValueInv, CountInv, Typed, Held
    <2> QED BY <1>1, <2>1 DEF Pushes
  <1>3. /\ \A y \in members(push.batch) : isState(y) => y.opId \in applied'
        /\ Waits(written, applied', table', queue, push.batch)
        /\ Far(written, applied', table', queue, quarantine)
        /\ LastHeart(written, applied', table')
        /\ HeartKept(written, applied', queue, quarantine)
    BY <1>1, HandleValues
  <1> QED BY <1>1, <1>2, <1>3 DEF ValueInv

LEMMA EnqueueValues ==
    ASSUME ValueInv, CountInv', Uncrowded, ~LocalMayFail, ~CopyMayFail,
           NEW payload \in Writes, Enqueue(payload)
    PROVE  ValueInv'
  <1> DEFINE op == operation(payload)  longer == Append(queue, op)  b == push.batch
             full == Len(longer) > MAX_QUEUE
             v == Append(written, op)
  <1>1. /\ Len(written) < MaxOps /\ written' = v
        /\ queue' = IF full THEN trimQueue(longer, MAX_QUEUE) ELSE longer
        /\ attempts' = IF full THEN prune(attempts, queue') ELSE attempts
        /\ quarantine' = quarantine /\ persist
        /\ UNCHANGED <<push, late, table, applied>>
    BY DEF Enqueue, server
  <1>2. /\ History(written) /\ applied \in SUBSET DOMAIN written /\ table \in Table
        /\ queue \in Seq(Genuine(written)) /\ quarantine \in Seq(Genuine(written))
        /\ b \in Seq(Genuine(written)) /\ Len(written) \in Nat /\ queue \in Seq(Op)
    BY TypedSeqs DEF ValueInv
  <1>3. op \in Op /\ op.opId = Len(written) + 1
    <2>1. payload \in Payload
      BY Bounds
    <2> QED BY <1>2, <2>1 DEF operation, Payload, Op
  <1>4. MaxOps \in Nat /\ op.opId \in OpId
    <2>1. MaxOps \in Nat
      BY WritesAssumption
    <2> QED BY <1>1, <1>2, <1>3, <2>1 DEF OpId
  <1>5. full => Len(compactQueue(longer)) <= MAX_QUEUE
    BY <1>1 DEF Uncrowded
  <1> HIDE DEF op
  <1>6. History(v) /\ Genuine(written) \subseteq Genuine(v) /\ op \in Genuine(v)
    BY <1>2, <1>3, GenuineGrows
  <1>7. Waits(v, applied, table, longer, b)
    BY <1>2, <1>3, GrowWaits DEF ValueInv
  <1>8. /\ push.pc # "idle" => Untried(attempts, longer, b)
        /\ Apart(longer, b, quarantine)
        /\ Far(v, applied, table, longer, quarantine)
        /\ LastHeart(v, applied, table)
        /\ HeartKept(v, applied, longer, quarantine)
    <2>1. attempts[op.opId] = 0
      BY <1>2, <1>3, <1>4 DEF ValueInv
    <2> QED BY <1>2, <1>3, <2>1, GrowKeeps DEF ValueInv
  <1>9. longer \in Seq(Genuine(v)) /\ b \in Seq(Genuine(v)) /\ longer \in Seq(Op)
    <2>1. queue \in Seq(Genuine(v)) /\ b \in Seq(Genuine(v))
      BY <1>2, <1>6, SeqMono
    <2>2. longer \in Seq(Genuine(v))
      <3> HIDE DEF v
      <3> QED BY <1>6, <2>1, Appended
    <2>3. longer \in Seq(Op)
      BY <1>2, <1>3
    <2> QED BY <2>1, <2>2, <2>3
  <1>10. applied \in SUBSET DOMAIN v /\ Len(v) = Len(written) + 1
    <2>1. written \in Seq(Op)
      BY <1>2 DEF History
    <2>2. DOMAIN written = 1..Len(written) /\ DOMAIN v = 1..(Len(written) + 1)
          /\ Len(v) = Len(written) + 1
      BY <1>2, <1>3, <2>1
    <2> QED BY <1>2, <2>2
  <1> HIDE DEF v, longer, full, b
  <1>11. /\ Waits(v, applied, table, queue', b)
         /\ push.pc # "idle" => Untried(attempts, queue', b)
         /\ Apart(queue', b, quarantine)
         /\ Far(v, applied, table, queue', quarantine)
         /\ HeartKept(v, applied, queue', quarantine)
    <2>1. CASE ~full
      BY <1>1, <1>7, <1>8, <2>1
    <2>2. CASE full
      <3> DEFINE c == compactQueue(longer)
      <3>1. queue' = c
        BY <1>1, <1>5, <1>9, <2>2, Bounds, TrimFits
      <3>2. Increasing(c) /\ Inherits(c, longer) /\ Represents(c, longer)
        BY <1>7, <1>9, CompactCovers DEF Waits
      <3>3. c \in Seq(Genuine(v))
        BY <1>9, GenuineMergeable, CompactSeq
      <3> HIDE DEF c
      <3>4. Waits(v, applied, table, c, b)
        BY <1>2, <1>6, <1>7, <1>9, <1>10, <3>2, <3>3, CoverWaits
      <3>5. /\ push.pc # "idle" => Untried(attempts, c, b)
            /\ Apart(c, b, quarantine)
            /\ Far(v, applied, table, c, quarantine)
            /\ HeartKept(v, applied, c, quarantine)
        BY <1>2, <1>6, <1>7, <1>8, <1>9, <1>10, <3>2, <3>3, CoverKeeps DEF Waits
      <3> QED BY <3>1, <3>4, <3>5
    <2> QED BY <2>1, <2>2
  <1>12. \A i \in OpId : attempts'[i] \in {attempts[i], 0}
    BY <1>1 DEF prune
  <1>13. push.pc # "idle" => Untried(attempts', queue', b)
    <2> SUFFICES ASSUME push.pc # "idle",
                        NEW x \in held(queue', b), NEW y \in members(queue'), Sooner(x, y)
                 PROVE  attempts'[y.opId] = 0
      BY DEF Untried
    <2>1. attempts[y.opId] = 0
      BY <1>11 DEF Untried
    <2>2. y.opId \in OpId
      <3>1. y \in Genuine(v)
        <4>1. queue' \in Seq(Genuine(written'))
          BY DEF CountInv, Typed, Held
        <4> QED BY <1>1, <4>1 DEF members
      <3>2. y.opId \in DOMAIN v
        BY <1>6, <3>1, GenuineFacts
      <3>3. DOMAIN v = 1..Len(v)
        BY <1>6 DEF History
      <3> QED BY <1>1, <1>2, <1>4, <1>10, <3>2, <3>3 DEF OpId
    <2> QED BY <1>12, <2>1, <2>2
  <1>14. \A i \in OpId : i > Len(v) => attempts'[i] = 0
    <2>1. \A i \in OpId : i > Len(v) => i > Len(written)
      BY <1>2, <1>10 DEF OpId
    <2> QED BY <1>12, <2>1 DEF ValueInv
  <1>15. saved' = [queue |-> queue', quarantine |-> quarantine'] /\ copy' = saved'
    BY <1>1, PersistSame
  <1>16. Len(v) <= MaxOps
    BY <1>1, <1>2, <1>4, <1>10
  <1>17. push.reply # NoReply => \A y \in members(b) : isState(y) => y.opId \in applied
    BY DEF ValueInv, b
  <1> QED BY <1>1, <1>8, <1>11, <1>13, <1>14, <1>15, <1>16, <1>17 DEF ValueInv, b

LEMMA StartPushValues ==
    ASSUME ValueInv, CountInv', ~LocalMayFail, ~CopyMayFail, StartPush
    PROVE  ValueInv'
  <1> DEFINE c == compactQueue(queue)  f == firstOf(c, MAX_PUSH_BATCH)  b == push.batch
  <1>1. /\ push' = [pc |-> "sent", batch |-> f, reply |-> NoReply]
        /\ UNCHANGED <<written, quarantine, late, table, applied>>
        /\ \/ queue' = c /\ attempts' = prune(attempts, c) /\ persist
           \/ Len(c) = Len(queue) /\ UNCHANGED <<queue, attempts, saved, copy>>
    BY DEF StartPush, send, server
  <1>2. /\ History(written) /\ applied \in SUBSET DOMAIN written /\ table \in Table
        /\ queue \in Seq(Genuine(written)) /\ b \in Seq(Genuine(written)) /\ queue \in Seq(Op)
    BY TypedSeqs DEF ValueInv
  <1>3. Waits(written, applied, table, queue, b)
    BY DEF ValueInv
  <1>4. Increasing(c) /\ Lone(c) /\ Inherits(c, queue) /\ Represents(c, queue)
    BY <1>2, <1>3, CompactCovers DEF Waits
  <1>5. c \in Seq(Genuine(written)) /\ c \in Seq(Op)
    <2>1. c \in Seq(Genuine(written))
      BY <1>2, GenuineMergeable, CompactSeq
    <2>2. Genuine(written) \subseteq Op
      BY DEF Genuine
    <2> HIDE DEF c
    <2> QED BY <2>1, <2>2, SeqMono
  <1>6. queue' = c
    BY <1>1, <1>2, CompactSame
  <1> HIDE DEF c
  <1>7. Waits(written, applied, table, c, b)
    BY <1>2, <1>3, <1>4, <1>5, CoverWaits
  <1>8. /\ Apart(c, b, quarantine)
        /\ Far(written, applied, table, c, quarantine)
        /\ HeartKept(written, applied, c, quarantine)
    BY <1>2, <1>3, <1>4, <1>5, CoverKeeps DEF ValueInv, Waits
  <1>9. Waits(written, applied, table, c, f)
    <2>1. members(c) \subseteq held(c, b)
      BY DEF held
    <2> QED BY <1>4, <1>5, <1>7, <2>1, Bounds, FirstWaits DEF Waits
  <1>10. members(f) \subseteq members(c)
    BY <1>5, Bounds, FirstOf
  <1> HIDE DEF f
  <1>11. Apart(c, f, quarantine)
    BY <1>8, <1>10 DEF Apart, held
  <1>12. Untried(attempts', c, f)
    <2> SUFFICES ASSUME NEW x \in members(c), NEW y \in members(c), Sooner(x, y) PROVE FALSE
      BY <1>10 DEF Untried, held
    <2>1. x = y
      BY <1>4 DEF Lone, Sooner
    <2>2. x.opId \in Nat
      <3>1. x \in Op
        BY <1>5 DEF members
      <3> QED BY <3>1 DEF Op
    <2> QED BY <2>1, <2>2 DEF Sooner
  <1>13. \A i \in OpId : i > Len(written) => attempts'[i] = 0
    BY <1>1 DEF ValueInv, prune
  <1>14. saved' = [queue |-> queue', quarantine |-> quarantine'] /\ copy' = saved'
    BY <1>1, PersistSame DEF ValueInv
  <1>15. push'.pc = "sent" /\ push'.batch = f /\ push'.reply = NoReply /\ late' = {}
    BY <1>1 DEF ValueInv
  <1> QED BY <1>1, <1>6, <1>8, <1>9, <1>11, <1>12, <1>13, <1>14, <1>15, ValueQuiet

LEMMA QuarantineHas ==
    ASSUME NEW T, NEW a \in Seq(T), NEW b \in Seq(T), Len(a) + Len(b) <= MAX_QUARANTINE
    PROVE  /\ members(lastOf(a \o b, MAX_QUARANTINE)) = members(a) \cup members(b)
           /\ ids(lastOf(a \o b, MAX_QUARANTINE)) = ids(a) \cup ids(b)
  <1>1. a \o b \in Seq(T) /\ Len(a \o b) <= MAX_QUARANTINE
    OBVIOUS
  <1>2. lastOf(a \o b, MAX_QUARANTINE) = a \o b
    BY <1>1, Bounds, LastOf
  <1> QED BY <1>2, Joined

(* What has left the queue is settled, or quarantined.                       *)
LEMMA WithoutRises ==
    ASSUME NEW ops \in Seq(Op), Increasing(ops), NEW gone
    PROVE  Increasing(without(ops, gone))
  BY PickRises DEF without

LEMMA HeldIds ==
    \A o : /\ ids(o) = {x.opId : x \in members(o)}
           /\ \A i \in ids(o) : \E x \in members(o) : x.opId = i
           /\ \A x \in members(o) : x.opId \in ids(o)
  BY DEF members, ids

LEMMA AnsweredValues ==
    ASSUME ValueInv, CountInv', Roomy, ~LocalMayFail, ~CopyMayFail, Answered
    PROVE  ValueInv'
  <1> DEFINE b == push.batch  refused == without(b, push.reply)
             f == firstOf(queue', MAX_PUSH_BATCH)
  <1>1. /\ push.pc # "idle" /\ push.reply # NoReply
        /\ quarantine' = lastOf(quarantine \o refused, MAX_QUARANTINE)
        /\ queue' = without(queue, ids(b))
        /\ attempts' = prune(attempts, queue')
        /\ persist
        /\ \/ push' = [pc |-> "sent", batch |-> f, reply |-> NoReply]
           \/ push' = Idle
        /\ UNCHANGED <<written, late, table, applied>>
    BY DEF Answered, settle, send, server
  <1>2. /\ History(written) /\ applied \in SUBSET DOMAIN written /\ table \in Table
        /\ queue \in Seq(Genuine(written)) /\ b \in Seq(Genuine(written)) /\ queue \in Seq(Op)
        /\ quarantine \in Seq(Genuine(written)) /\ Len(written) <= MaxOps
        /\ Len(written) \in Nat
    BY TypedSeqs DEF ValueInv
  <1>3. Waits(written, applied, table, queue, b)
    BY DEF ValueInv
  <1>4. queue' \in Seq(Op) /\ Increasing(queue')
    BY <1>1, <1>2, <1>3, WithoutSeq, WithoutRises DEF Waits
  <1>5. members(queue') = {x \in members(queue) : x.opId \notin ids(b)}
    BY <1>1, <1>2, WithoutSeq
  <1>6. /\ members(quarantine') = members(quarantine) \cup members(refused)
        /\ ids(quarantine') = ids(quarantine) \cup ids(refused)
        /\ ids(refused) \subseteq ids(b)
    <2>1. /\ refused \in Seq(Genuine(written)) /\ Len(refused) <= Len(b)
          /\ ids(refused) \subseteq ids(b)
      BY <1>2, WithoutSeq
    <2>2. Len(quarantine) + Len(refused) <= MAX_QUARANTINE
      <3> HIDE DEF refused
      <3>1. /\ Len(quarantine) \in Nat /\ Len(refused) \in Nat
            /\ Len(b) \in Nat /\ MAX_QUARANTINE \in Nat
        BY <1>2, <2>1, Bounds
      <3> QED BY <2>1, <3>1 DEF Roomy
    <2> HIDE DEF refused
    <2> QED BY <1>1, <1>2, <2>1, <2>2, QuarantineHas
  <1> HIDE DEF b, refused
  <1>7. members(f) \subseteq members(queue')
    BY <1>4, Bounds, FirstOf
  <1>8. Waits(written, applied, table, queue', f) /\ Waits(written, applied, table, queue', <<>>)
    <2>1. members(queue') \subseteq held(queue, b)
      BY <1>5 DEF held
    <2> QED BY <1>3, <1>4, <2>1, Bounds, FirstWaits DEF Waits
  <1> HIDE DEF f
  <1>9. members(<<>>) = {}
    BY DEF members
  <1>10. Apart(queue', f, quarantine') /\ Apart(queue', <<>>, quarantine')
    <2>1. ASSUME NEW x \in members(queue') PROVE x.opId \notin ids(quarantine')
      <3>1. x.opId \notin ids(quarantine)
        BY <1>5 DEF ValueInv, Apart, held
      <3> QED BY <1>5, <1>6, <3>1
    <2> QED BY <1>7, <1>9, <2>1 DEF Apart, held
  <1>11. Untried(attempts', queue', f)
    <2> SUFFICES ASSUME NEW x \in members(queue'), NEW y \in members(queue'), Sooner(x, y)
                 PROVE  attempts'[y.opId] = 0
      BY <1>7 DEF Untried, held
    <2>1. attempts[y.opId] = 0
      BY <1>1, <1>5 DEF ValueInv, Untried, held
    <2>2. y.opId \in OpId
      <3>0. y \in members(queue)
        BY <1>5
      <3>1. y \in Genuine(written)
        BY <1>2, <3>0 DEF members
      <3>2. y.opId \in DOMAIN written /\ DOMAIN written = 1..Len(written)
        BY <1>2, <3>1, GenuineFacts DEF History
      <3>3. MaxOps \in Nat
        BY WritesAssumption
      <3> QED BY <1>2, <3>2, <3>3 DEF OpId
    <2> QED BY <1>1, <2>1, <2>2 DEF prune
  <1>12. \A i \in OpId : i > Len(written) => attempts'[i] = 0
    BY <1>1 DEF ValueInv, prune
  <1>13. ASSUME NEW x \in members(queue), isState(x), x.opId \in ids(b) PROVE x.opId \in applied
    <2>1. PICK y \in members(b) : y.opId = x.opId
      BY <1>13, HeldIds
    <2>2. alike(x, y)
      <3>1. x \in Genuine(written) /\ y \in Genuine(written)
        BY <1>2 DEF members
      <3> QED BY <1>2, <2>1, <3>1, GenuineFacts
    <2>3. isState(y)
      BY <1>13, <2>2, Alikes
    <2> QED BY <1>1, <2>1, <2>3 DEF ValueInv, b
  <1>14. Far(written, applied, table, queue', quarantine')
    <2> SUFFICES ASSUME NEW i \in DOMAIN written, written[i].kind = "progress.set",
                        NEW x \in held(queue, quarantine),
                        alike(written[i], x), x.opId \notin applied
                 PROVE  x \in held(queue', quarantine')
      BY DEF ValueInv, Far
    <2>1. isState(x)
      BY Alikes DEF alike
    <2> QED BY <1>5, <1>6, <1>13, <2>1 DEF held
  <1>15. HeartKept(written, applied, queue', quarantine')
    <2> SUFFICES ASSUME NEW k \in Key, NEW a \in hearts(written, k), a \in ids(queue)
                 PROVE  a \in applied \cup ids(queue')
      BY <1>6 DEF ValueInv, HeartKept
    <2>1. PICK x \in members(queue) : x.opId = a
      BY HeldIds
    <2>2. isState(x)
      <3>1. x \in Genuine(written)
        BY <1>2 DEF members
      <3> QED BY <1>2, <2>1, <3>1, GenuineFacts, Alikes DEF hearts, about, alike
    <2> QED BY <1>5, <1>13, <2>1, <2>2, HeldIds
  <1>16. saved' = [queue |-> queue', quarantine |-> quarantine'] /\ copy' = saved'
    BY <1>1, PersistSame
  <1>17. \/ push'.pc = "sent" /\ push'.batch = f
         \/ push'.pc = "idle" /\ push'.batch = <<>>
    BY <1>1 DEF Idle
  <1>18. push'.reply = NoReply /\ late' = {}
    BY <1>1 DEF Idle, ValueInv
  <1>19. /\ Waits(written, applied, table, queue', push'.batch)
         /\ Apart(queue', push'.batch, quarantine')
         /\ push'.pc # "idle" => Untried(attempts', queue', push'.batch)
    BY <1>8, <1>10, <1>11, <1>17
  <1> QED BY <1>1, <1>12, <1>14, <1>15, <1>16, <1>18, <1>19, ValueQuiet

(* The queue as it is waits for no batch.                                    *)
LEMMA AloneWaits ==
    ASSUME ValueInv
    PROVE  /\ Waits(written, applied, table, queue, <<>>)
           /\ Apart(queue, <<>>, quarantine)
  <1>1. queue \in Seq(Op) /\ members(queue) \subseteq held(queue, push.batch)
    BY TypedSeqs DEF ValueInv, held
  <1>2. Waits(written, applied, table, queue, <<>>)
    BY <1>1, Bounds, FirstWaits DEF ValueInv, Waits
  <1>3. members(<<>>) = {}
    BY DEF members
  <1> QED BY <1>2, <1>3 DEF ValueInv, Apart, held

LEMMA RestartValues == ASSUME ValueInv, CountInv', ~LateArrivals, Restart PROVE ValueInv'
  <1>1. /\ queue' = saved.queue /\ quarantine' = saved.quarantine
        /\ attempts' = [i \in OpId |-> 0] /\ push' = Idle /\ late' = late
        /\ UNCHANGED <<written, saved, copy, table, applied>>
    BY DEF Restart, server
  <1>2. queue' = queue /\ quarantine' = quarantine
    BY <1>1 DEF ValueInv
  <1>3. push'.batch = <<>> /\ push'.pc = "idle" /\ push'.reply = NoReply
    BY <1>1 DEF Idle
  <1> QED BY <1>1, <1>2, <1>3, AloneWaits, ValueQuiet DEF ValueInv

LEMMA WithoutAll ==
    ASSUME NEW T, NEW ops \in Seq(T)
    PROVE  without(ops, ids(ops)) = <<>>
  <1> DEFINE s == without(ops, ids(ops))
  <1>1. s \in Seq(T) /\ ids(s) = {}
    BY WithoutSeq
  <1> HIDE DEF s
  <1>2. Len(s) = 0
    <2>1. Len(s) \in Nat /\ DOMAIN s = 1..Len(s)
      BY <1>1
    <2>2. 1 \notin DOMAIN s
      BY <1>1 DEF ids
    <2> QED BY <2>1, <2>2
  <1> QED BY <1>1, <1>2 DEF s

LEMMA RecoverValues ==
    ASSUME ValueInv, CountInv', Roomy, Recover
    PROVE  ValueInv'
  <1>1. /\ queue' = queue \o without(copy.queue, ids(queue))
        /\ quarantine' = lastOf(quarantine \o without(copy.quarantine, ids(quarantine)),
                                MAX_QUARANTINE)
        /\ UNCHANGED <<written, attempts, push, saved, copy, late, table, applied>>
    BY DEF Recover, server
  <1>2. /\ queue \in Seq(Op) /\ quarantine \in Seq(Op) /\ push.batch \in Seq(Op)
    BY TypedSeqs DEF ValueInv
  <1>3. copy.queue = queue /\ copy.quarantine = quarantine
    BY DEF ValueInv
  <1>4. queue' = queue
    BY <1>1, <1>2, <1>3, WithoutAll
  <1>5. quarantine' = quarantine
    <2>1. quarantine \o <<>> = quarantine
      BY <1>2
    <2>2. Len(quarantine) <= MAX_QUARANTINE
      <3>1. Len(quarantine) \in Nat /\ Len(push.batch) \in Nat /\ MAX_QUARANTINE \in Nat
        BY <1>2, Bounds
      <3> QED BY <3>1 DEF Roomy
    <2> QED BY <1>1, <1>2, <1>3, <2>1, <2>2, WithoutAll DEF lastOf
  <1> QED BY <1>1, <1>4, <1>5 DEF ValueInv

(* What has failed no less often is given up with it.                        *)
LEMMA HopelessToo ==
    ASSUME NEW m \in Nat, NEW n \in Nat, m <= n, NEW status,
           shouldQuarantine(m, status, MAX_ATTEMPTS)
    PROVE  shouldQuarantine(n, status, MAX_ATTEMPTS)
  BY Bounds DEF shouldQuarantine

(* The first of the batch is tried alone.                                    *)
LEMMA ProbeWaits ==
    ASSUME ValueInv, Len(push.batch) > 1
    PROVE  LET one == <<push.batch[1]>>
           IN  /\ Waits(written, applied, table, queue, one)
               /\ Apart(queue, one, quarantine)
               /\ Untried(attempts, queue, push.batch) => Untried(attempts, queue, one)
  <1> DEFINE b == push.batch  first == b[1]  one == <<first>>
  <1>1. queue \in Seq(Op) /\ b \in Seq(Op)
    BY TypedSeqs DEF ValueInv
  <1>2. Waits(written, applied, table, queue, b)
    BY DEF ValueInv
  <1>3. /\ 1 \in DOMAIN b /\ first \in members(b) /\ first \in Op
        /\ \A x \in members(b) : x \in Op
    BY <1>1 DEF members
  <1>4. \A y \in members(b) : first.opId <= y.opId
    <2>1. \A i \in DOMAIN b : 1 <= i
      BY <1>1
    <2> QED BY <1>1, <1>2, <1>3, <2>1, RisingIds DEF members, Waits
  <1>5. \A y \in members(b) : y.opId = first.opId => y = first
    BY <1>1, <1>2, <1>3, RisingIds DEF Waits
  <1> HIDE DEF first
  <1>6. members(one) = {first} /\ ids(one) = {first.opId} /\ Increasing(one)
    BY DEF members, ids, Increasing
  <1> HIDE DEF one
  <1>7. held(queue, one) \subseteq held(queue, b)
    BY <1>3, <1>6 DEF held
  <1>8. /\ \A x \in members(queue) : x.opId \in Nat
        /\ \A x \in members(b) : x.opId \in Nat
    <2>1. \A x \in members(queue) : x \in Op
      BY <1>1 DEF members
    <2> QED BY <1>3, <2>1 DEF Op
  <1>9. InFlight(queue, one)
    <2> SUFFICES ASSUME NEW x \in members(queue), x.kind = "progress.set", x.opId = first.opId
                 PROVE  \E y \in members(one) : /\ alike(x, y) /\ y.opId <= x.opId
                                                /\ x.value <= y.value
      BY <1>6 DEF InFlight
    <2>1. x.opId \in ids(b)
      BY <1>3, HeldIds
    <2>2. PICK y \in members(b) : alike(x, y) /\ y.opId <= x.opId /\ x.value <= y.value
      BY <1>2, <2>1 DEF Waits, InFlight
    <2>3. y.opId = first.opId
      BY <1>3, <1>4, <1>8, <2>2
    <2> QED BY <1>5, <1>6, <2>2, <2>3
  <1>10. Behind(queue, one)
    <2> SUFFICES ASSUME NEW x \in members(queue), Sooner(x, first) PROVE FALSE
      BY <1>6 DEF Behind
    <2>1. x.opId \in ids(b) /\ x.opId < first.opId
      BY <1>2, <1>3 DEF Waits, Behind, Sooner
    <2>2. PICK y \in members(b) : y.opId = x.opId
      BY <2>1, HeldIds
    <2> QED BY <1>3, <1>4, <1>8, <2>1, <2>2
  <1>11. InTurn(written, applied, queue, one) /\ Arrived(table, applied, queue, one)
    BY <1>2, <1>7 DEF Waits, InTurn, Arrived
  <1>12. Apart(queue, one, quarantine)
    BY <1>7 DEF ValueInv, Apart
  <1>13. Untried(attempts, queue, b) => Untried(attempts, queue, one)
    BY <1>7 DEF Untried
  <1> QED BY <1>2, <1>6, <1>9, <1>10, <1>11, <1>12, <1>13 DEF Waits, one, first

(* What has failed too often goes to the quarantine.                         *)
LEMMA CountFailureValues ==
    ASSUME ValueInv, CountInv', Roomy, ~LocalMayFail, ~CopyMayFail, NEW status \in Statuses,
           push.pc # "idle", push' = Idle, late' = late, countFailure(push.batch, status),
           UNCHANGED <<written, table, applied>>
    PROVE  ValueInv'
  <1> DEFINE b == push.batch
             tries == [i \in OpId |-> attempts[i] + IF i \in ids(b) THEN 1 ELSE 0]
             given == {i \in DOMAIN b : shouldQuarantine(tries[b[i].opId], status, MAX_ATTEMPTS)}
             isolated == pick(b, given)
  <1>1. /\ quarantine' = lastOf(quarantine \o isolated, MAX_QUARANTINE)
        /\ queue' = without(queue, ids(isolated))
        /\ attempts' = [i \in OpId |-> IF i \in ids(isolated) THEN 0 ELSE tries[i]]
        /\ IF isolated # <<>> THEN persist ELSE UNCHANGED <<saved, copy>>
    BY DEF countFailure
  <1>2. /\ History(written) /\ applied \in SUBSET DOMAIN written
        /\ queue \in Seq(Genuine(written)) /\ b \in Seq(Genuine(written)) /\ queue \in Seq(Op)
        /\ b \in Seq(Op) /\ quarantine \in Seq(Genuine(written)) /\ quarantine \in Seq(Op)
        /\ Len(written) <= MaxOps /\ Len(written) \in Nat /\ attempts \in [OpId -> Nat]
    BY TypedSeqs DEF ValueInv
  <1>3. Waits(written, applied, table, queue, b)
    BY DEF ValueInv
  <1>4. /\ isolated \in Seq(Genuine(written)) /\ isolated \in Seq(Op)
        /\ Len(isolated) <= Len(b)
        /\ \A x \in members(isolated) : x \in members(b) /\
              shouldQuarantine(tries[x.opId], status, MAX_ATTEMPTS)
        /\ \A i \in given : b[i] \in members(isolated)
    <2>1. given \in SUBSET DOMAIN b
      OBVIOUS
    <2>2. \A i \in given : b[i] \in members(b) /\
              shouldQuarantine(tries[b[i].opId], status, MAX_ATTEMPTS)
      BY DEF members
    <2> HIDE DEF given, tries
    <2>3. /\ isolated \in Seq(Genuine(written)) /\ isolated \in Seq(Op)
          /\ Len(isolated) = Cardinality(given)
          /\ \A n \in DOMAIN isolated : \E i \in given : isolated[n] = b[i]
          /\ \A i \in given : \E n \in DOMAIN isolated : isolated[n] = b[i]
      BY <1>2, <2>1, PickSeq
    <2>4. Cardinality(given) <= Len(b)
      <3>1. DOMAIN b = 1..Len(b) /\ Len(b) \in Nat
        BY <1>2
      <3> QED BY <2>1, <3>1, Counting, FS_Subset
    <2> HIDE DEF isolated
    <2> QED BY <2>2, <2>3, <2>4 DEF members
  <1>5. \A x \in members(b) : /\ x.opId \in OpId /\ x.opId \in Nat
                              /\ tries[x.opId] = attempts[x.opId] + 1
    <2> SUFFICES ASSUME NEW x \in members(b)
                 PROVE  /\ x.opId \in OpId /\ x.opId \in Nat
                        /\ tries[x.opId] = attempts[x.opId] + 1
      OBVIOUS
    <2>1. x \in Genuine(written)
      BY <1>2 DEF members
    <2>2. /\ x.opId \in DOMAIN written /\ DOMAIN written = 1..Len(written) /\ x.opId \in Nat
          /\ MaxOps \in Nat
      <3>1. MaxOps \in Nat
        BY WritesAssumption
      <3>2. x.opId \in DOMAIN written /\ x.opId \in Nat
        BY <1>2, <2>1, GenuineFacts
      <3>3. DOMAIN written = 1..Len(written)
        BY <1>2 DEF History
      <3> QED BY <3>1, <3>2, <3>3
    <2>3. x.opId \in OpId
      BY <1>2, <2>2 DEF OpId
    <2> QED BY <2>2, <2>3, HeldIds
  <1>6. ASSUME NEW x \in members(b), shouldQuarantine(attempts[x.opId] + 1, status, MAX_ATTEMPTS)
        PROVE  x \in members(isolated)
    <2>1. PICK i \in DOMAIN b : x = b[i]
      BY DEF members
    <2>2. i \in given
      BY <1>5, <1>6, <2>1
    <2> HIDE DEF given
    <2> QED BY <1>4, <2>1, <2>2
  <1>7. \A x \in members(isolated) :
            x \in members(b) /\ shouldQuarantine(attempts[x.opId] + 1, status, MAX_ATTEMPTS)
    BY <1>4, <1>5
  <1>8. \A i \in OpId : i > Len(written) => attempts'[i] = 0
    <2> SUFFICES ASSUME NEW i \in OpId, i > Len(written) PROVE tries[i] = 0
      BY <1>1
    <2>1. i \notin ids(b)
      <3> SUFFICES ASSUME NEW x \in members(b), x.opId = i PROVE FALSE
        BY HeldIds
      <3>1. x \in Genuine(written)
        BY <1>2 DEF members
      <3>2. x.opId \in DOMAIN written /\ DOMAIN written = 1..Len(written)
        BY <1>2, <3>1, GenuineFacts DEF History
      <3> QED BY <1>2, <3>2
    <2>2. attempts[i] = 0
      BY DEF ValueInv
    <2> QED BY <2>1, <2>2
  <1> HIDE DEF tries, given, isolated
  <1>9. /\ Len(quarantine) + Len(isolated) <= MAX_QUARANTINE
        /\ Len(quarantine) <= MAX_QUARANTINE
    <2>1. /\ Len(quarantine) \in Nat /\ Len(isolated) \in Nat
          /\ Len(b) \in Nat /\ MAX_QUARANTINE \in Nat
      BY <1>2, <1>4, Bounds
    <2> QED BY <1>4, <2>1 DEF Roomy
  <1>10. /\ members(quarantine') = members(quarantine) \cup members(isolated)
         /\ ids(quarantine') = ids(quarantine) \cup ids(isolated)
    BY <1>1, <1>2, <1>4, <1>9, QuarantineHas
  <1>11. /\ queue' \in Seq(Op) /\ Increasing(queue') /\ ids(queue') = ids(queue) \ ids(isolated)
         /\ members(queue') = {x \in members(queue) : x.opId \notin ids(isolated)}
    BY <1>1, <1>2, <1>3, WithoutSeq, WithoutRises DEF Waits
  <1>12. Waits(written, applied, table, queue', <<>>)
    <2>1. members(queue') \subseteq held(queue, b)
      BY <1>11 DEF held
    <2> QED BY <1>3, <1>11, <2>1, Bounds, FirstWaits DEF Waits
  <1>13. Apart(queue', <<>>, quarantine')
    <2>1. members(<<>>) = {}
      BY DEF members
    <2> QED BY <1>10, <1>11, <2>1 DEF ValueInv, Apart, held
  <1>14. saved' = [queue |-> queue', quarantine |-> quarantine'] /\ copy' = saved'
    <2>1. CASE isolated # <<>>
      BY <1>1, <2>1, PersistSame
    <2>2. CASE isolated = <<>>
      <3>1. quarantine' = quarantine
        <4>1. quarantine \o <<>> = quarantine
          BY <1>2
        <4> QED BY <1>1, <1>9, <2>2, <4>1 DEF lastOf
      <3>2. queue' = queue
        <4>1. ids(<<>>) = {}
          BY DEF ids
        <4>2. {i \in DOMAIN queue : queue[i].opId \notin {}} = DOMAIN queue
          OBVIOUS
        <4> QED BY <1>1, <1>2, <2>2, <4>1, <4>2, PickAll DEF without
      <3> QED BY <1>1, <2>2, <3>1, <3>2 DEF ValueInv
    <2> QED BY <2>1, <2>2
  <1>15. Far(written, applied, table, queue', quarantine')
    <2> SUFFICES ASSUME NEW i \in DOMAIN written, written[i].kind = "progress.set",
                        NEW x \in members(queue), alike(written[i], x), x.opId \notin applied,
                        written[i].value <= x.value, x.opId \in ids(isolated)
                 PROVE  \/ written[i].value <= table.progress[written[i].key]
                        \/ \E y \in members(isolated) :
                              /\ alike(written[i], y) /\ y.opId \notin applied
                              /\ written[i].value <= y.value
      BY <1>10, <1>11 DEF ValueInv, Far, held
    <2>1. PICK z \in members(isolated) : z.opId = x.opId
      BY HeldIds
    <2>2. z \in members(b) /\ x.opId \in ids(b)
      BY <1>7, <2>1, HeldIds
    <2>3. x.kind = "progress.set"
      BY DEF alike
    <2>4. PICK y \in members(b) : alike(x, y) /\ y.opId <= x.opId /\ x.value <= y.value
      BY <1>3, <2>2, <2>3 DEF Waits, InFlight
    <2>5. alike(written[i], y) /\ y.kind = "progress.set" /\ y.key = written[i].key
      BY <2>4 DEF alike
    <2>6. written[i].value <= y.value
      <3>1. written[i] \in Op /\ x \in Op /\ y \in Op
        BY <1>2, <2>4 DEF History, members
      <3>2. written[i].value \in Nat /\ x.value \in Nat /\ y.value \in Nat
        BY <3>1, QueueAssumption DEF Op
      <3> QED BY <2>4, <3>2
    <2>7. CASE y.opId \in applied
      <3>1. y.value <= table.progress[y.key]
        BY <1>3, <2>5, <2>7 DEF Waits, Arrived, held
      <3>2. written[i].value \in Nat /\ y.value \in Nat /\ table.progress[y.key] \in Nat
        <4>1. written[i] \in Op /\ y \in Op /\ table \in Table
          BY <1>2, <2>4, TypedSeqs DEF History, members, ValueInv
        <4> QED BY <4>1, QueueAssumption DEF Op, Table
      <3> QED BY <2>5, <2>6, <3>1, <3>2
    <2>8. CASE y.opId \notin applied
      <3>1. y \in members(isolated)
        <4>1. CASE y.opId = x.opId
          <5>1. y = z
            BY <1>2, <1>3, <2>1, <2>2, <2>4, <4>1, RisingIds DEF Waits
          <5> QED BY <2>1, <5>1
        <4>2. CASE y.opId # x.opId
          <5>1. y.opId \in Nat /\ x.opId \in Nat /\ z.opId = x.opId
                /\ x.opId \in OpId /\ y.opId \in OpId
            BY <1>5, <2>1, <2>2, <2>4
          <5>2. Sooner(y, x)
            <6>1. isState(y) /\ alike(y, x)
              BY <2>4, <2>5, Alikes
            <6> QED BY <2>4, <4>2, <5>1, <6>1 DEF Sooner
          <5>3. attempts[x.opId] = 0
            BY <2>4, <5>2 DEF ValueInv, Untried, held
          <5>4. shouldQuarantine(1, status, MAX_ATTEMPTS)
            <6>1. attempts[z.opId] + 1 = 1
              BY <2>1, <5>3
            <6> QED BY <1>7, <2>1, <6>1
          <5>5. attempts[y.opId] + 1 \in Nat /\ 1 <= attempts[y.opId] + 1
            BY <1>2, <5>1
          <5>6. shouldQuarantine(attempts[y.opId] + 1, status, MAX_ATTEMPTS)
            BY <5>4, <5>5, HopelessToo
          <5> QED BY <1>6, <2>4, <5>6
        <4> QED BY <4>1, <4>2
      <3> QED BY <2>5, <2>6, <2>8, <3>1
    <2> QED BY <2>7, <2>8
  <1>16. HeartKept(written, applied, queue', quarantine')
    BY <1>10, <1>11 DEF ValueInv, HeartKept
  <1>17. /\ push'.batch = <<>> /\ push'.pc = "idle" /\ push'.reply = NoReply /\ late' = {}
    BY DEF Idle, ValueInv
  <1> QED BY <1>8, <1>12, <1>13, <1>14, <1>15, <1>16, <1>17, ValueQuiet

LEMMA FailValues ==
    ASSUME ValueInv, CountInv', Roomy, ~LateArrivals, ~LocalMayFail, ~CopyMayFail,
           NEW status \in Statuses, Fail(status)
    PROVE  ValueInv'
  <1>1. /\ push.pc # "idle" /\ late' = late
        /\ UNCHANGED <<written, table, applied>>
    BY DEF Fail, server
  <1>2. CASE /\ push' = [pc |-> "probe", batch |-> <<push.batch[1]>>, reply |-> NoReply]
             /\ Len(push.batch) > 1
             /\ UNCHANGED <<queue, quarantine, attempts, saved, copy>>
    <2> DEFINE one == <<push.batch[1]>>
    <2>1. push'.batch = one /\ push'.pc = "probe" /\ push'.reply = NoReply
      BY <1>2
    <2>2. /\ Waits(written, applied, table, queue, one)
          /\ Apart(queue, one, quarantine)
          /\ Untried(attempts, queue, one)
      BY <1>1, <1>2, ProbeWaits DEF ValueInv
    <2> HIDE DEF one
    <2> QED BY <1>1, <1>2, <2>1, <2>2, ValueQuiet DEF ValueInv
  <1>3. CASE push' = Idle /\ UNCHANGED <<queue, quarantine, attempts, saved, copy>>
    <2>1. push'.batch = <<>> /\ push'.pc = "idle" /\ push'.reply = NoReply
      BY <1>3 DEF Idle
    <2> QED BY <1>1, <1>3, <2>1, AloneWaits, ValueQuiet DEF ValueInv
  <1>4. CASE push' = Idle /\ countFailure(push.batch, status)
    BY <1>1, <1>4, CountFailureValues
  <1>5. \/ /\ push' = [pc |-> "probe", batch |-> <<push.batch[1]>>, reply |-> NoReply]
           /\ Len(push.batch) > 1
           /\ UNCHANGED <<queue, quarantine, attempts, saved, copy>>
        \/ push' = Idle /\ UNCHANGED <<queue, quarantine, attempts, saved, copy>>
        \/ push' = Idle /\ countFailure(push.batch, status)
    BY DEF Fail
  <1> QED BY <1>2, <1>3, <1>4, <1>5

LEMMA ValueInit == Init => ValueInv
  <1> SUFFICES ASSUME Init PROVE ValueInv
    OBVIOUS
  <1>1. CountInv
    BY CountInit
  <1>2. /\ written = <<>> /\ queue = <<>> /\ quarantine = <<>> /\ push.batch = <<>>
        /\ push.pc = "idle" /\ push.reply = NoReply /\ late = {} /\ copy = saved
        /\ saved = [queue |-> queue, quarantine |-> quarantine]
        /\ attempts = [i \in OpId |-> 0]
    BY DEF Init, Idle
  <1>3. members(<<>>) = {} /\ ids(<<>>) = {} /\ Increasing(<<>>) /\ DOMAIN <<>> = {}
    BY DEF members, ids, Increasing
  <1>4. Waits(written, applied, table, queue, push.batch)
    BY <1>2, <1>3 DEF Waits, InTurn, Arrived, InFlight, Behind, held
  <1>5. Apart(queue, push.batch, quarantine)
    BY <1>2, <1>3 DEF Apart, held
  <1>6. Far(written, applied, table, queue, quarantine)
    BY <1>2, <1>3 DEF Far
  <1>7. \A k : hearts(written, k) = {}
    BY <1>2, <1>3 DEF hearts
  <1>8. LastHeart(written, applied, table) /\ HeartKept(written, applied, queue, quarantine)
    BY <1>7 DEF LastHeart, HeartKept
  <1>9. Len(written) <= MaxOps
    BY <1>2, WritesAssumption
  <1> QED BY <1>1, <1>2, <1>4, <1>5, <1>6, <1>8, <1>9 DEF ValueInv

LEMMA ValueNext ==
    ASSUME ValueInv, Roomy, Uncrowded, [Next]_vars,
           ~LateArrivals, ~UserRetries, ~LocalMayFail, ~CopyMayFail
    PROVE  ValueInv'
  <1>1. CountInv'
    BY CountNext DEF ValueInv
  <1>2. ASSUME NEW payload \in Writes, Enqueue(payload) PROVE ValueInv'
    BY <1>1, <1>2, EnqueueValues
  <1>3. ASSUME NEW batch \in late, ServeLate(batch) PROVE ValueInv'
    BY <1>3 DEF ValueInv
  <1>4. ASSUME NEW status \in Statuses, Fail(status) PROVE ValueInv'
    BY <1>1, <1>4, FailValues
  <1>5. ~RetryQuarantined
    BY DEF RetryQuarantined
  <1>6. CASE UNCHANGED vars
    <2>1. UNCHANGED <<written, queue, quarantine, attempts, push, saved, copy, late,
                      table, applied>>
      BY <1>6 DEF vars, device, server
    <2> QED BY <1>1, <2>1 DEF ValueInv
  <1> QED BY <1>1, <1>2, <1>3, <1>4, <1>5, <1>6, StartPushValues, ServeValues, AnsweredValues,
             RestartValues, RecoverValues DEF Next

LEMMA ValueKeepsProgress == ValueInv => ProgressKept
  <1> SUFFICES ASSUME ValueInv, NEW i \in DOMAIN written, written[i].kind = "progress.set"
               PROVE  \/ table.progress[written[i].key] >= written[i].value
                      \/ \E op \in pendingOps :
                            /\ op.kind = "progress.set" /\ op.key = written[i].key
                            /\ op.opId \notin applied
                            /\ op.value >= written[i].value
    BY DEF ProgressKept
  <1>1. /\ written[i] \in Op /\ table \in Table
        /\ queue \in Seq(Op) /\ quarantine \in Seq(Op)
    BY TypedSeqs DEF ValueInv, History
  <1>2. held(queue, quarantine) = pendingOps
    BY DEF held, members, pendingOps
  <1>3. written[i].value \in Nat /\ table.progress[written[i].key] \in Nat
    BY <1>1, QueueAssumption DEF Op, Table
  <1>4. CASE written[i].value <= table.progress[written[i].key]
    BY <1>3, <1>4
  <1>5. ASSUME NEW x \in held(queue, quarantine), alike(written[i], x), x.opId \notin applied,
               written[i].value <= x.value
        PROVE  \E op \in pendingOps :
                  /\ op.kind = "progress.set" /\ op.key = written[i].key
                  /\ op.opId \notin applied
                  /\ op.value >= written[i].value
    <2>1. x \in Op
      BY <1>1 DEF held, members
    <2>2. x.value \in Nat
      BY <2>1, QueueAssumption DEF Op
    <2>3. x.value >= written[i].value
      BY <1>3, <1>5, <2>2
    <2> QED BY <1>2, <1>5, <2>3 DEF alike
  <1> QED BY <1>4, <1>5 DEF ValueInv, Far

LEMMA ValueShowsNewest == ValueInv => NewestWins
  <1> SUFFICES ASSUME ValueInv, Settled, NEW k \in Key, hearts(written, k) # {}
               PROVE  \E i \in hearts(written, k) :
                         /\ \A j \in hearts(written, k) : j <= i
                         /\ table.favorite[k] = written[i].value
    BY DEF NewestWins, hearts, about
  <1>1. /\ written \in Seq(Op) /\ Len(written) \in Nat /\ DOMAIN written = 1..Len(written)
    BY TypedSeqs DEF ValueInv, History
  <1>2. hearts(written, k) \subseteq 0..Len(written)
    BY <1>1 DEF hearts
  <1>3. PICK i \in hearts(written, k) : \A j \in hearts(written, k) : j <= i
    <2> DEFINE H == hearts(written, k)
    <2>1. H \subseteq 0..Len(written) /\ H # {}
      BY <1>2
    <2> HIDE DEF H
    <2>2. \E i \in H : \A j \in H : j <= i
      BY <1>1, <2>1, Greatest
    <2> QED BY <2>2 DEF H
  <1>4. ids(queue) = {} /\ ids(quarantine) = {}
    BY DEF Settled, ids
  <1>5. i \in applied
    BY <1>3, <1>4 DEF ValueInv, HeartKept
  <1> QED BY <1>3, <1>5 DEF ValueInv, LastHeart

(* Progress does not go back, whatever fails and whenever the app is killed: *)
(* the furthest point the user reached is at the server or still going there *)
(* (ProgressKept), for any number of works, writes and failures; while both  *)
(* stores can be written, no request arrives after it was given up, the      *)
(* quarantine has room and the queue need not drop a state.                  *)
THEOREM ProgressIsKept ==
    ASSUME ~LateArrivals, ~UserRetries, ~LocalMayFail, ~CopyMayFail
    PROVE  Spec /\ []Roomy /\ []Uncrowded => []ProgressKept
  <1>1. ValueInv /\ Roomy /\ Uncrowded /\ [Next]_vars => ValueInv'
    BY ValueNext
  <1> QED BY <1>1, ValueInit, ValueKeepsProgress, PTL DEF Spec

(* When nothing waits any more the server shows the last heart given or      *)
(* taken (NewestWins), under the same conditions.                            *)
THEOREM NewestHeartWins ==
    ASSUME ~LateArrivals, ~UserRetries, ~LocalMayFail, ~CopyMayFail
    PROVE  Spec /\ []Roomy /\ []Uncrowded => []NewestWins
  <1>1. ValueInv /\ Roomy /\ Uncrowded /\ [Next]_vars => ValueInv'
    BY ValueNext
  <1> QED BY <1>1, ValueInit, ValueShowsNewest, PTL DEF Spec

-------------------------------------------------------------------------------
(* Room enough                                                               *)

Distinct(ops) == \A i, j \in DOMAIN ops : ops[i].opId = ops[j].opId => i = j

LEMMA DistinctCount ==
    ASSUME NEW ops \in Seq(Op), Distinct(ops), IsFiniteSet(ids(ops))
    PROVE  Len(ops) <= Cardinality(ids(ops))
  <1> DEFINE S == ids(ops)  T == 1..Len(ops)
             f == [i \in S |-> CHOOSE n \in T : ops[n].opId = i]
  <1>1. DOMAIN ops = T /\ Len(ops) \in Nat
    OBVIOUS
  <1>2. \A i \in S : f[i] \in T /\ ops[f[i]].opId = i
    <2> SUFFICES ASSUME NEW i \in S PROVE f[i] \in T /\ ops[f[i]].opId = i
      OBVIOUS
    <2>1. \E n \in T : ops[n].opId = i
      BY <1>1 DEF ids
    <2> QED BY <2>1
  <1>3. f \in [S -> T]
    BY <1>2
  <1>4. \A n \in T : ops[n].opId \in S
    BY <1>1 DEF ids
  <1> HIDE DEF f, S, T
  <1>5. \A n \in T : \E i \in S : f[i] = n
    <2> SUFFICES ASSUME NEW n \in T PROVE f[ops[n].opId] = n
      BY <1>4
    <2> QED BY <1>1, <1>2, <1>4 DEF Distinct
  <1>6. f \in Surjection(S, T)
    BY <1>3, <1>5 DEF Surjection
  <1>7. Cardinality(T) <= Cardinality(S)
    BY <1>6, FS_Surjection DEF S
  <1>8. Cardinality(T) = Len(ops)
    BY <1>1, Counting DEF T
  <1> QED BY <1>7, <1>8 DEF S

LEMMA RisingDistinct == ASSUME NEW ops \in Seq(Op), Increasing(ops) PROVE Distinct(ops)
  <1>1. DOMAIN ops = 1..Len(ops) /\ Len(ops) \in Nat /\ \A i \in 1..Len(ops) : ops[i] \in Op
    OBVIOUS
  <1>2. \A i \in DOMAIN ops : ops[i].opId \in Nat
    BY <1>1 DEF Op
  <1>3. \A i, j \in DOMAIN ops : i < j \/ i = j \/ j < i
    BY <1>1
  <1> QED BY <1>2, <1>3 DEF Increasing, Distinct

LEMMA JoinDistinct ==
    ASSUME NEW a \in Seq(Op), NEW b \in Seq(Op), Distinct(a), Distinct(b),
           \A x \in members(b) : x.opId \notin ids(a)
    PROVE  Distinct(a \o b)
  <1> DEFINE c == a \o b
  <1>1. /\ c \in Seq(Op) /\ Len(c) = Len(a) + Len(b)
        /\ \A n \in 1..Len(a) : c[n] = a[n]
        /\ \A n \in (Len(a) + 1)..(Len(a) + Len(b)) : c[n] = b[n - Len(a)]
        /\ Len(a) \in Nat /\ Len(b) \in Nat
        /\ DOMAIN a = 1..Len(a) /\ DOMAIN b = 1..Len(b) /\ DOMAIN c = 1..(Len(a) + Len(b))
    OBVIOUS
  <1> HIDE DEF c
  <1>3. \A m \in DOMAIN a, n \in DOMAIN b : a[m].opId # b[n].opId
    BY DEF members, ids
  <1>4. \A n \in DOMAIN c : \/ n \in DOMAIN a /\ c[n] = a[n]
                            \/ n - Len(a) \in DOMAIN b /\ c[n] = b[n - Len(a)]
    BY <1>1
  <1>5. Distinct(c)
    <2> SUFFICES ASSUME NEW i \in DOMAIN c, NEW j \in DOMAIN c, c[i].opId = c[j].opId
                 PROVE  i = j
      BY DEF Distinct
    <2>1. CASE i \in DOMAIN a /\ c[i] = a[i] /\ j \in DOMAIN a /\ c[j] = a[j]
      BY <2>1 DEF Distinct
    <2>2. CASE /\ i - Len(a) \in DOMAIN b /\ c[i] = b[i - Len(a)]
               /\ j - Len(a) \in DOMAIN b /\ c[j] = b[j - Len(a)]
      <3>1. i - Len(a) = j - Len(a)
        BY <2>2 DEF Distinct
      <3> QED BY <1>1, <3>1
    <2> QED BY <1>3, <1>4, <2>1, <2>2
  <1> QED BY <1>5 DEF c

LEMMA CompactShortens ==
    ASSUME NEW ops \in Seq(Op)
    PROVE  Len(compactQueue(ops)) <= Len(ops) /\ Len(compactQueue(ops)) \in Nat
  <1> DEFINE S == {i \in DOMAIN ops : stays(ops, i)}
             all == [i \in DOMAIN ops |-> mergedAt(ops, i)]
  <1>1. DOMAIN ops = 1..Len(ops) /\ Len(ops) \in Nat
    OBVIOUS
  <1>2. compactQueue(ops) = pick(all, S)
    BY DEF compactQueue, stays
  <1>3. all \in Seq(Op) /\ S \in SUBSET DOMAIN all /\ S \in SUBSET (1..Len(ops))
    BY <1>1, MergedParts
  <1> HIDE DEF S, all
  <1>4. Len(pick(all, S)) = Cardinality(S) /\ Cardinality(S) \in Nat
    BY <1>3, PickSeq
  <1>5. Cardinality(S) <= Len(ops)
    BY <1>1, <1>3, Counting, FS_Subset
  <1> QED BY <1>2, <1>4, <1>5

(* Nothing is quarantined twice. *)
RoomInv == ValueInv /\ Distinct(quarantine)

LEMMA HeldFits ==
    ASSUME CountInv, NEW ops \in Seq(Genuine(written)), Distinct(ops)
    PROVE  Len(ops) <= Len(written)
  <1>1. /\ History(written) /\ Len(written) \in Nat /\ DOMAIN written = 1..Len(written)
    BY TypedSeqs DEF History
  <1>2. ids(ops) \in SUBSET (1..Len(written)) /\ ops \in Seq(Op)
    <2>1. \A x \in members(ops) : x \in Genuine(written)
      BY DEF members
    <2>2. \A x \in members(ops) : x.opId \in 1..Len(written)
      BY <1>1, <2>1, GenuineFacts
    <2>3. Genuine(written) \subseteq Op
      BY DEF Genuine
    <2> QED BY <2>2, <2>3, HeldIds, SeqMono
  <1>3. IsFiniteSet(ids(ops)) /\ Cardinality(ids(ops)) <= Len(written)
    BY <1>1, <1>2, Counting, FS_Subset
  <1>4. Len(ops) <= Cardinality(ids(ops))
    BY <1>2, <1>3, DistinctCount
  <1>5. Cardinality(ids(ops)) \in Nat /\ Len(ops) \in Nat
    BY <1>2, <1>3, FS_CardinalityType
  <1> QED BY <1>1, <1>3, <1>4, <1>5

LEMMA RoomEnough ==
    ASSUME RoomInv, MaxOps <= MAX_QUEUE, MaxOps <= MAX_QUARANTINE
    PROVE  Roomy /\ Uncrowded
  <1>1. /\ History(written) /\ Len(written) \in Nat /\ Len(written) <= MaxOps
        /\ queue \in Seq(Genuine(written)) /\ quarantine \in Seq(Genuine(written))
        /\ push.batch \in Seq(Genuine(written))
        /\ queue \in Seq(Op) /\ push.batch \in Seq(Op) /\ quarantine \in Seq(Op)
    BY TypedSeqs DEF RoomInv, ValueInv
  <1>2. MaxOps \in Nat /\ MAX_QUEUE \in Nat /\ MAX_QUARANTINE \in Nat
    BY Bounds, WritesAssumption
  <1>3. Distinct(quarantine) /\ Distinct(queue) /\ Distinct(push.batch)
    BY <1>1, RisingDistinct DEF RoomInv, ValueInv, Waits
  <1>4. Len(quarantine) + Len(push.batch) <= MAX_QUARANTINE
    <2> DEFINE c == quarantine \o push.batch
    <2>1. c \in Seq(Genuine(written)) /\ Len(c) = Len(quarantine) + Len(push.batch)
      BY <1>1
    <2>2. Distinct(c)
      BY <1>1, <1>3, JoinDistinct DEF RoomInv, ValueInv, Apart, held
    <2> HIDE DEF c
    <2>3. Len(c) <= Len(written)
      BY <2>1, <2>2, HeldFits DEF RoomInv, ValueInv
    <2> QED BY <1>1, <1>2, <2>1, <2>3
  <1>5. Len(quarantine) + Len(without(copy.quarantine, ids(quarantine))) <= MAX_QUARANTINE
    <2>1. copy.quarantine = quarantine
      BY DEF RoomInv, ValueInv
    <2>2. without(quarantine, ids(quarantine)) = <<>>
      BY <1>1, WithoutAll
    <2>3. Len(quarantine) <= Len(written)
      BY <1>1, <1>3, HeldFits DEF RoomInv, ValueInv
    <2> QED BY <1>1, <1>2, <2>1, <2>2, <2>3
  <1>6. ASSUME Len(written) < MaxOps, NEW payload \in Writes
        PROVE  Len(compactQueue(Append(queue, operation(payload)))) <= MAX_QUEUE
    <2> DEFINE op == operation(payload)  longer == Append(queue, op)
    <2>1. op \in Op
      <3>1. payload \in Payload
        BY Bounds
      <3>2. Len(written) + 1 \in Nat \ {0}
        BY <1>1
      <3> QED BY <3>1, <3>2 DEF operation, Op, Payload
    <2> HIDE DEF op
    <2>2. longer \in Seq(Op) /\ Len(longer) = Len(queue) + 1
      BY <1>1, <2>1
    <2>3. Len(queue) <= Len(written)
      BY <1>1, <1>3, HeldFits DEF RoomInv, ValueInv
    <2> HIDE DEF longer
    <2>4. Len(compactQueue(longer)) <= Len(longer) /\ Len(compactQueue(longer)) \in Nat
      BY <2>2, CompactShortens
    <2> QED BY <1>1, <1>2, <1>6, <2>2, <2>3, <2>4 DEF longer, op
  <1> QED BY <1>4, <1>5, <1>6 DEF Roomy, Uncrowded

LEMMA QuarantineDistinct ==
    ASSUME RoomInv, Roomy, NEW gone \in Seq(Op), members(gone) \subseteq members(push.batch),
           Increasing(gone), Len(gone) <= Len(push.batch)
    PROVE  Distinct(lastOf(quarantine \o gone, MAX_QUARANTINE))
  <1>1. quarantine \in Seq(Op) /\ push.batch \in Seq(Op)
    BY TypedSeqs DEF RoomInv, ValueInv
  <1>2. Distinct(quarantine \o gone)
    BY <1>1, RisingDistinct, JoinDistinct DEF RoomInv, ValueInv, Apart, held
  <1>3. Len(quarantine \o gone) <= MAX_QUARANTINE
    <2>1. /\ Len(quarantine) \in Nat /\ Len(gone) \in Nat /\ Len(push.batch) \in Nat
          /\ Len(quarantine \o gone) = Len(quarantine) + Len(gone) /\ MAX_QUARANTINE \in Nat
      BY <1>1, Bounds
    <2> QED BY <2>1 DEF Roomy
  <1> QED BY <1>2, <1>3 DEF lastOf

LEMMA RoomNext ==
    ASSUME RoomInv, [Next]_vars, MaxOps <= MAX_QUEUE, MaxOps <= MAX_QUARANTINE,
           ~LateArrivals, ~UserRetries, ~LocalMayFail, ~CopyMayFail
    PROVE  RoomInv'
  <1>1. Roomy /\ Uncrowded
    BY RoomEnough
  <1>2. ValueInv'
    BY <1>1, ValueNext DEF RoomInv
  <1>3. push.batch \in Seq(Op) /\ Increasing(push.batch)
    BY TypedSeqs DEF RoomInv, ValueInv, Waits
  <1>4. ASSUME quarantine' = quarantine PROVE Distinct(quarantine')
    BY <1>4 DEF RoomInv
  <1>5. ASSUME UNCHANGED saved PROVE Distinct(quarantine')
    <2>1. saved.quarantine = quarantine /\ saved'.quarantine = quarantine'
      BY <1>2 DEF RoomInv, ValueInv
    <2> QED BY <1>4, <1>5, <2>1
  <1>6. ASSUME Answered PROVE Distinct(quarantine')
    <2> DEFINE refused == without(push.batch, push.reply)
    <2>1. quarantine' = lastOf(quarantine \o refused, MAX_QUARANTINE)
      BY <1>6 DEF Answered, settle
    <2>2. /\ refused \in Seq(Op) /\ Increasing(refused) /\ Len(refused) <= Len(push.batch)
          /\ members(refused) \subseteq members(push.batch)
      BY <1>3, WithoutSeq, WithoutRises
    <2> HIDE DEF refused
    <2> QED BY <1>1, <2>1, <2>2, QuarantineDistinct
  <1>7. ASSUME NEW status \in Statuses, Fail(status) PROVE Distinct(quarantine')
    <2> DEFINE b == push.batch
               tries == [i \in OpId |-> attempts[i] + IF i \in ids(b) THEN 1 ELSE 0]
               given == {i \in DOMAIN b :
                           shouldQuarantine(tries[b[i].opId], status, MAX_ATTEMPTS)}
               isolated == pick(b, given)
    <2>1. \/ quarantine' = quarantine
          \/ quarantine' = lastOf(quarantine \o isolated, MAX_QUARANTINE)
      BY <1>7 DEF Fail, countFailure
    <2>2. given \in SUBSET DOMAIN b
      OBVIOUS
    <2> HIDE DEF given, tries
    <2>3. /\ isolated \in Seq(Op) /\ Increasing(isolated) /\ Len(isolated) = Cardinality(given)
          /\ \A n \in DOMAIN isolated : \E i \in given : isolated[n] = b[i]
      BY <1>3, <2>2, PickSeq, PickRises
    <2>4. Cardinality(given) <= Len(b)
      <3>1. DOMAIN b = 1..Len(b) /\ Len(b) \in Nat
        BY <1>3
      <3> QED BY <2>2, <3>1, Counting, FS_Subset
    <2> HIDE DEF isolated
    <2>5. members(isolated) \subseteq members(b)
      BY <2>2, <2>3 DEF members
    <2> QED BY <1>1, <1>4, <2>1, <2>3, <2>4, <2>5, QuarantineDistinct
  <1>8. ASSUME NEW payload \in Writes, Enqueue(payload) PROVE Distinct(quarantine')
    BY <1>4, <1>8 DEF Enqueue
  <1>9. ASSUME StartPush \/ Serve \/ UNCHANGED vars PROVE Distinct(quarantine')
    BY <1>4, <1>9 DEF StartPush, Serve, vars, device
  <1>10. ASSUME Restart \/ Recover PROVE Distinct(quarantine')
    BY <1>5, <1>10 DEF Restart, Recover
  <1>11. ~RetryQuarantined /\ late = {}
    BY DEF RetryQuarantined, RoomInv, ValueInv
  <1>12. Distinct(quarantine')
    BY <1>6, <1>7, <1>8, <1>9, <1>10, <1>11 DEF Next
  <1> QED BY <1>2, <1>12 DEF RoomInv

(* There is room enough for what the two theorems above ask while the queue  *)
(* and the quarantine each hold as much as the user writes (enqueue,         *)
(* quarantine): nothing is held or given up twice.                           *)
THEOREM RoomForAll ==
    ASSUME ~LateArrivals, ~UserRetries, ~LocalMayFail, ~CopyMayFail,
           MaxOps <= MAX_QUEUE, MaxOps <= MAX_QUARANTINE
    PROVE  Spec => [](Roomy /\ Uncrowded)
  <1>1. Init => RoomInv
    <2>1. Init => Distinct(quarantine)
      BY DEF Init, Distinct
    <2> QED BY <2>1, ValueInit DEF RoomInv
  <1>2. RoomInv /\ [Next]_vars => RoomInv'
    BY RoomNext
  <1>3. RoomInv => Roomy /\ Uncrowded
    BY RoomEnough
  <1> QED BY <1>1, <1>2, <1>3, PTL DEF Spec
===============================================================================
