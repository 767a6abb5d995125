------------------------ MODULE TelemetryQueue_proofs ------------------------
(***************************************************************************)
(* Proofs about TelemetryQueue: what waits is in order and known on disk,  *)
(* a page that was refused its cookie is silent, the server does not go    *)
(* back, and what it takes for "drained" to mean delivered.                *)
(***************************************************************************)
EXTENDS TelemetryQueue, FiniteSetTheorems, TLAPS

USE SlotsAssumption, QueueBounds, AcceptedAssumption

-----------------------------------------------------------------------------
(* collapseSnapshots *)

(* A finite set of indices has an n-th element for each n up to its size:   *)
(* the rank is an injection into 1..size, and so a bijection.               *)
LEMMA NthFound ==
    ASSUME NEW K, K \subseteq Nat, IsFiniteSet(K), NEW n \in 1..Cardinality(K)
    PROVE  /\ Nth(K, n) \in K
           /\ Cardinality({j \in K : j <= Nth(K, n)}) = n
  <1> DEFINE c == Cardinality(K)
             Below(y) == {x \in K : x <= y}
             f == [i \in K |-> Cardinality(Below(i))]
  <1>1. c \in Nat /\ IsFiniteSet(1..c) /\ Cardinality(1..c) = c
    BY FS_CardinalityType, FS_Interval
  <1>2. ASSUME NEW i \in K
        PROVE  /\ IsFiniteSet(Below(i)) /\ i \in Below(i)
               /\ Cardinality(Below(i)) \in 1..c
    <2>1. Below(i) \subseteq K /\ i \in Below(i)
      OBVIOUS
    <2> HIDE DEF Below
    <2>2. IsFiniteSet(Below(i)) /\ Cardinality(Below(i)) <= c
      BY <2>1, FS_Subset
    <2>3. Cardinality(Below(i)) \in Nat /\ Cardinality(Below(i)) # 0
      BY <2>1, <2>2, FS_CardinalityType, FS_EmptySet
    <2> QED BY <1>1, <2>1, <2>2, <2>3
  <1>3. ASSUME NEW i \in K, NEW j \in K, i < j
        PROVE  Cardinality(Below(i)) # Cardinality(Below(j))
    <2>0. i \in Nat /\ j \in Nat /\ \A x \in K : x \in Nat
      OBVIOUS
    <2>1. Below(i) \subseteq Below(j) /\ j \notin Below(i) /\ j \in Below(j)
      <3>1. j \notin Below(i)
        BY <1>3, <2>0
      <3>2. j \in Below(j)
        BY <2>0
      <3>3. ASSUME NEW z \in Below(i) PROVE z \in Below(j)
        BY <1>3, <2>0, <3>3
      <3> QED BY <3>1, <3>2, <3>3
    <2> HIDE DEF Below
    <2> QED BY <1>2, <2>1, FS_Subset
  <1>4. f \in Injection(K, 1..c)
    <2>1. f \in [K -> 1..c]
      BY <1>2
    <2>2. ASSUME NEW i \in K, NEW j \in K, f[i] = f[j]
          PROVE  i = j
      <3>1. ~(i < j) /\ ~(j < i)
        BY <1>3, <2>2
      <3> QED BY <3>1
    <2> HIDE DEF f
    <2> QED BY <2>1, <2>2 DEF Injection, IsInjective
  <1>5. f \in Surjection(K, 1..c)
    <2> HIDE DEF f
    <2> QED BY <1>1, <1>4, FS_Injection
  <1>6. \E i \in K : f[i] = n
    BY <1>5 DEF Surjection
  <1>7. \E i \in K : Cardinality({j \in K : j <= i}) = n
    BY <1>6
  <1> QED BY <1>7 DEF Nth

LEMMA NthRises ==
    ASSUME NEW K, K \subseteq Nat, IsFiniteSet(K),
           NEW m \in 1..Cardinality(K), NEW n \in 1..Cardinality(K), m < n
    PROVE  Nth(K, m) < Nth(K, n)
  <1> DEFINE Below(y) == {x \in K : x <= y}
  <1>1. /\ Nth(K, m) \in K /\ Cardinality(Below(Nth(K, m))) = m
        /\ Nth(K, n) \in K /\ Cardinality(Below(Nth(K, n))) = n
    BY NthFound
  <1>2. ASSUME NEW a \in K, NEW b \in K, b <= a
        PROVE  Cardinality(Below(b)) <= Cardinality(Below(a))
    <2>1. a \in Nat /\ b \in Nat /\ \A x \in K : x \in Nat
      OBVIOUS
    <2>2. Below(b) \subseteq Below(a) /\ Below(a) \subseteq K
      <3>1. ASSUME NEW z \in Below(b) PROVE z \in Below(a)
        BY <1>2, <2>1, <3>1
      <3> QED BY <3>1
    <2> HIDE DEF Below
    <2>3. IsFiniteSet(Below(a))
      BY <2>2, FS_Subset
    <2> QED BY <2>2, <2>3, FS_Subset
  <1>3. m \in Nat /\ n \in Nat /\ Nth(K, m) \in Nat /\ Nth(K, n) \in Nat
    <2>1. Cardinality(K) \in Nat
      BY FS_CardinalityType
    <2>2. m \in Nat /\ n \in Nat
      BY <2>1
    <2>3. Nth(K, m) \in Nat /\ Nth(K, n) \in Nat
      BY <1>1
    <2> QED BY <2>2, <2>3
  <1> HIDE DEF Below
  <1> QED BY <1>1, <1>2, <1>3

(* Every index of the set is the n-th for some n. *)
LEMMA NthOnto ==
    ASSUME NEW K, K \subseteq Nat, IsFiniteSet(K), NEW i \in K
    PROVE  \E n \in 1..Cardinality(K) : Nth(K, n) = i
  <1> DEFINE Below(y) == {x \in K : x <= y}
             n == Cardinality(Below(i))
  <1>1. ASSUME NEW y \in K
        PROVE  IsFiniteSet(Below(y)) /\ y \in Below(y) /\ Below(y) \subseteq K
    <2>1. Below(y) \subseteq K /\ y \in Below(y)
      OBVIOUS
    <2> HIDE DEF Below
    <2> QED BY <2>1, FS_Subset
  <1>2. n \in 1..Cardinality(K)
    <2> HIDE DEF Below
    <2>1. Cardinality(K) \in Nat /\ n \in Nat /\ n <= Cardinality(K) /\ n # 0
      BY <1>1, FS_Subset, FS_CardinalityType, FS_EmptySet
    <2> QED BY <2>1
  <1>3. Nth(K, n) \in K /\ Cardinality(Below(Nth(K, n))) = n
    <2>1. Nth(K, n) \in K /\ Cardinality({j \in K : j <= Nth(K, n)}) = n
      <3> HIDE DEF n
      <3> QED BY <1>2, NthFound
    <2> QED BY <2>1
  <1>4. ASSUME NEW a \in K, NEW b \in K, a < b
        PROVE  Cardinality(Below(a)) # Cardinality(Below(b))
    <2>0. a \in Nat /\ b \in Nat /\ \A x \in K : x \in Nat
      OBVIOUS
    <2>1. Below(a) \subseteq Below(b) /\ b \notin Below(a)
      <3>1. b \notin Below(a)
        BY <1>4, <2>0
      <3>2. ASSUME NEW z \in Below(a) PROVE z \in Below(b)
        BY <1>4, <2>0, <3>2
      <3> QED BY <3>1, <3>2
    <2> HIDE DEF Below
    <2> QED BY <1>1, <2>1, FS_Subset
  <1>5. ~(Nth(K, n) < i) /\ ~(i < Nth(K, n))
    <2> HIDE DEF Below
    <2> QED BY <1>3, <1>4
  <1>6. Nth(K, n) = i
    <2>1. Nth(K, n) \in Nat /\ i \in Nat
      BY <1>3
    <2> QED BY <1>5, <2>1
  <1> QED BY <1>2, <1>6

LEMMA NthFirst ==
    ASSUME NEW K, K \subseteq Nat \ {0}, IsFiniteSet(K), 1 \in K
    PROVE  Nth(K, 1) = 1 /\ 1 \in 1..Cardinality(K)
  <1>1. PICK n \in 1..Cardinality(K) : Nth(K, n) = 1
    BY NthOnto
  <1>2. Cardinality(K) \in Nat /\ 1 \in 1..Cardinality(K)
    <2>1. Cardinality(K) \in Nat
      BY FS_CardinalityType
    <2> QED BY <1>1, <2>1
  <1>3. Nth(K, 1) \in K
    BY <1>2, NthFound
  <1>4. n = 1
    <2>1. SUFFICES ASSUME 1 < n PROVE FALSE
      BY <1>1, <1>2
    <2>2. Nth(K, 1) < 1
      BY <1>1, <1>2, <2>1, NthRises
    <2>3. Nth(K, 1) \in Nat /\ Nth(K, 1) # 0
      BY <1>3
    <2> QED BY <2>2, <2>3
  <1> QED BY <1>1, <1>2, <1>4

(* What collapsing leaves of a queue: in order, no more and nothing new, a  *)
(* violation or the last snapshot of its slot.                              *)
Rising(p) == \A i, j \in DOMAIN p : i < j => p[i].seq < p[j].seq /\ p[i].event < p[j].event

OnePerSlot(p) == \A i, j \in DOMAIN p : i < j => (p[i].slot = p[j].slot => p[i].slot = None)

LEMMA KeptIndices ==
    ASSUME NEW p \in Seq(Action)
    PROVE  /\ Kept(p) \subseteq DOMAIN p /\ Kept(p) \subseteq Nat /\ IsFiniteSet(Kept(p))
           /\ Cardinality(Kept(p)) \in Nat /\ Cardinality(Kept(p)) <= Len(p)
  <1>1. Kept(p) \subseteq 1..Len(p) /\ Len(p) \in Nat /\ DOMAIN p = 1..Len(p)
    BY DEF Kept
  <1>2. IsFiniteSet(1..Len(p)) /\ Cardinality(1..Len(p)) = Len(p)
    BY <1>1, FS_Interval
  <1> QED BY <1>1, <1>2, FS_Subset, FS_CardinalityType

LEMMA CollapseTyped ==
    ASSUME NEW p \in Seq(Action)
    PROVE  /\ CollapseSnapshots(p) \in Seq(Action)
           /\ Len(CollapseSnapshots(p)) = Cardinality(Kept(p))
           /\ \A n \in DOMAIN CollapseSnapshots(p) :
                 /\ n \in 1..Cardinality(Kept(p))
                 /\ Nth(Kept(p), n) \in Kept(p) /\ Nth(Kept(p), n) \in DOMAIN p
                 /\ CollapseSnapshots(p)[n] = p[Nth(Kept(p), n)]
  <1> DEFINE K == Kept(p)
             c == Cardinality(K)
             q == [n \in 1..c |-> p[Nth(K, n)]]
  <1>1. K \subseteq DOMAIN p /\ K \subseteq Nat /\ IsFiniteSet(K) /\ c \in Nat
    BY KeptIndices
  <1>2. CollapseSnapshots(p) = q
    BY DEF CollapseSnapshots
  <1> HIDE DEF K, c
  <1>3. \A n \in 1..c : Nth(K, n) \in K
    BY <1>1, NthFound DEF c
  <1>4. \A n \in 1..c : p[Nth(K, n)] \in Action
    BY <1>1, <1>3
  <1>5. q \in Seq(Action) /\ Len(q) = c /\ DOMAIN q = 1..c
    BY <1>1, <1>4
  <1> QED BY <1>1, <1>2, <1>3, <1>5 DEF K, c

LEMMA CollapseOrdered ==
    ASSUME NEW p \in Seq(Action), Rising(p)
    PROVE  Rising(CollapseSnapshots(p)) /\ OnePerSlot(CollapseSnapshots(p))
  <1> DEFINE K == Kept(p)
             q == CollapseSnapshots(p)
  <1>1. SUFFICES ASSUME NEW m \in DOMAIN q, NEW n \in DOMAIN q, m < n
                 PROVE  /\ q[m].seq < q[n].seq /\ q[m].event < q[n].event
                        /\ q[m].slot = q[n].slot => q[m].slot = None
    BY DEF Rising, OnePerSlot
  <1> DEFINE i == Nth(K, m)
             j == Nth(K, n)
  <1>2. /\ i \in K /\ j \in K /\ i \in DOMAIN p /\ j \in DOMAIN p
        /\ q[m] = p[i] /\ q[n] = p[j]
        /\ m \in 1..Cardinality(K) /\ n \in 1..Cardinality(K)
    BY CollapseTyped
  <1>3. i < j
    BY <1>1, <1>2, KeptIndices, NthRises
  <1>4. p[i].slot = None \/ p[j].slot # p[i].slot
    BY <1>2, <1>3 DEF Kept
  <1> HIDE DEF K, i, j, q
  <1> QED BY <1>2, <1>3, <1>4 DEF Rising

-----------------------------------------------------------------------------
(* The state of a queue *)

(* A queue whose actions are events up to n, in order, each with a count of *)
(* its tries.                                                               *)
Sound(q, n) ==
    /\ q \in QueueState
    /\ Len(q.pending) <= Len(q.attempts)
    /\ Rising(q.pending) /\ OnePerSlot(q.pending)
    /\ \A i \in DOMAIN q.pending : q.pending[i].event <= n

Within(q, seq) == \A i \in DOMAIN q.pending : q.pending[i].seq <= seq

LEMMA ActionsTyped ==
    ASSUME NEW p \in Seq(Action), NEW i \in DOMAIN p
    PROVE  p[i] \in Action /\ p[i].seq \in Nat /\ p[i].event \in Nat
  <1>1. p[i] \in Action
    OBVIOUS
  <1> QED BY <1>1 DEF Action

LEMMA SoundLater ==
    ASSUME NEW q, NEW m \in Nat, NEW n \in Nat, m <= n, Sound(q, m)
    PROVE  Sound(q, n)
  <1>1. q.pending \in Seq(Action)
    BY DEF Sound, QueueState
  <1>2. \A i \in DOMAIN q.pending : q.pending[i].event \in Nat
    BY <1>1, ActionsTyped
  <1> QED BY <1>2 DEF Sound

LEMMA EmptySound ==
    ASSUME NEW n \in Nat
    PROVE  Sound(Empty, n) /\ Within(Empty, 0)
  BY DEF Sound, Within, Empty, QueueState, Rising, OnePerSlot

(* append *)
LEMMA AppendSound ==
    ASSUME NEW q, NEW n \in Nat, NEW seq \in Nat, Sound(q, n), Within(q, seq),
           NEW a \in Action, a.seq = seq + 1, a.event = n + 1
    PROVE  /\ Sound(Appended(q, a), n + 1) /\ Within(Appended(q, a), seq + 1)
           /\ \A i \in DOMAIN Appended(q, a).pending :
                 \/ Appended(q, a).pending[i] = a
                 \/ \E j \in DOMAIN q.pending : Appended(q, a).pending[i] = q.pending[j]
  <1> DEFINE p == q.pending
             pushed == Append(p, a)
             kept == CollapseSnapshots(pushed)
             tries == IF Len(kept) = Len(pushed) THEN Append(q.attempts, 0)
                      ELSE [i \in DOMAIN kept |-> 0]
  <1>1. /\ p \in Seq(Action) /\ q.attempts \in Seq(Nat) /\ Len(p) <= Len(q.attempts)
        /\ \A i \in DOMAIN p : p[i].seq \in Nat /\ p[i].event \in Nat
    <2>1. p \in Seq(Action) /\ q.attempts \in Seq(Nat) /\ Len(p) <= Len(q.attempts)
      BY DEF Sound, QueueState
    <2> QED BY <2>1, ActionsTyped
  <1>2. /\ pushed \in Seq(Action) /\ Len(pushed) = Len(p) + 1 /\ Len(p) \in Nat
        /\ DOMAIN pushed = 1..Len(p) + 1 /\ DOMAIN p = 1..Len(p)
        /\ \A i \in 1..Len(p) : pushed[i] = p[i]
        /\ pushed[Len(p) + 1] = a
    BY <1>1
  <1>3. \A i \in DOMAIN p : p[i].seq <= seq /\ p[i].event <= n
    BY DEF Sound, Within
  <1> HIDE DEF pushed
  <1>4. Rising(pushed)
    <2> SUFFICES ASSUME NEW i \in DOMAIN pushed, NEW j \in DOMAIN pushed, i < j
                 PROVE  pushed[i].seq < pushed[j].seq /\ pushed[i].event < pushed[j].event
      BY DEF Rising
    <2>1. i \in 1..Len(p)
      BY <1>2
    <2>2. CASE j = Len(p) + 1
      <3>1. /\ pushed[j] = a /\ pushed[i] = p[i] /\ p[i].seq \in Nat /\ p[i].event \in Nat
            /\ p[i].seq <= seq /\ p[i].event <= n
        BY <1>1, <1>2, <1>3, <2>1, <2>2
      <3> QED BY <3>1
    <2>3. CASE j # Len(p) + 1
      <3>1. j \in 1..Len(p)
        BY <1>2, <2>3
      <3> QED BY <1>2, <2>1, <3>1 DEF Sound, Rising
    <2> QED BY <2>2, <2>3
  <1>5. /\ kept \in Seq(Action) /\ Rising(kept) /\ OnePerSlot(kept)
        /\ Len(kept) \in Nat /\ Len(kept) <= Len(pushed)
        /\ \A i \in DOMAIN kept : \E j \in DOMAIN pushed : kept[i] = pushed[j]
    BY <1>2, <1>4, CollapseTyped, CollapseOrdered, KeptIndices
  <1>6. Appended(q, a) = [pending |-> kept, attempts |-> tries]
    BY DEF Appended, pushed
  <1> HIDE DEF kept
  <1>7. tries \in Seq(Nat) /\ Len(kept) <= Len(tries)
    <2>1. CASE Len(kept) = Len(pushed)
      BY <1>1, <1>2, <1>5, <2>1
    <2>2. CASE Len(kept) # Len(pushed)
      <3>1. tries = [i \in DOMAIN kept |-> 0] /\ DOMAIN kept = 1..Len(kept)
        BY <1>5, <2>2
      <3> HIDE DEF tries
      <3> QED BY <1>5, <3>1
    <2> QED BY <2>1, <2>2
  <1>8. \A i \in DOMAIN kept : kept[i] = a \/ \E j \in DOMAIN p : kept[i] = p[j]
    <2> SUFFICES ASSUME NEW i \in DOMAIN kept
                 PROVE  kept[i] = a \/ \E j \in DOMAIN p : kept[i] = p[j]
      OBVIOUS
    <2>1. PICK j \in DOMAIN pushed : kept[i] = pushed[j]
      BY <1>5
    <2>2. j = Len(p) + 1 \/ j \in DOMAIN p
      BY <1>2
    <2> QED BY <1>2, <2>1, <2>2
  <1>9. \A i \in DOMAIN kept : kept[i].seq <= seq + 1 /\ kept[i].event <= n + 1
    BY <1>1, <1>3, <1>8
  <1> HIDE DEF tries
  <1>10. Appended(q, a).pending = kept /\ Appended(q, a).attempts = tries
    BY <1>6
  <1> QED BY <1>5, <1>6, <1>7, <1>8, <1>9, <1>10 DEF Sound, Within, QueueState

(* The action appended stays, and so does what is of another slot: at the   *)
(* head, if it was there.                                                   *)
LEMMA AppendKeeps ==
    ASSUME NEW q, NEW n \in Nat, Sound(q, n), NEW a \in Action
    PROVE  LET p == q.pending
               r == Appended(q, a).pending
           IN  /\ \E i \in DOMAIN r : r[i] = a
               /\ \A j \in DOMAIN p : p[j].slot # a.slot => \E i \in DOMAIN r : r[i] = p[j]
               /\ p # <<>> /\ (p[1].slot = None \/ p[1].slot # a.slot)
                  => r # <<>> /\ r[1] = p[1]
  <1> DEFINE p == q.pending
             pushed == Append(p, a)
             K == Kept(pushed)
             r == CollapseSnapshots(pushed)
  <1>1. p \in Seq(Action) /\ OnePerSlot(p)
    BY DEF Sound, QueueState
  <1>2. /\ pushed \in Seq(Action) /\ Len(p) \in Nat /\ Len(pushed) = Len(p) + 1
        /\ DOMAIN pushed = 1..Len(p) + 1 /\ DOMAIN p = 1..Len(p)
        /\ \A i \in 1..Len(p) : pushed[i] = p[i]
        /\ pushed[Len(p) + 1] = a
    BY <1>1
  <1>3. Appended(q, a).pending = r
    BY DEF Appended
  <1> HIDE DEF pushed
  <1>4. /\ K \subseteq Nat \ {0} /\ IsFiniteSet(K) /\ Cardinality(K) \in Nat
        /\ r \in Seq(Action) /\ Len(r) = Cardinality(K)
        /\ \A m \in DOMAIN r : r[m] = pushed[Nth(K, m)]
    <2>1. K \subseteq DOMAIN pushed /\ IsFiniteSet(K) /\ Cardinality(K) \in Nat
      BY <1>2, KeptIndices
    <2> QED BY <1>2, <2>1, CollapseTyped
  <1>5. Len(p) + 1 \in K
    BY <1>2 DEF Kept
  <1>6. ASSUME NEW j \in DOMAIN p, p[j].slot = None \/ p[j].slot # a.slot
        PROVE  j \in K
    <2> SUFFICES ASSUME p[j].slot # None, NEW m \in DOMAIN pushed, m > j
                 PROVE  pushed[m].slot # pushed[j].slot
      BY <1>2 DEF Kept
    <2>1. CASE m = Len(p) + 1
      BY <1>2, <1>6, <2>1
    <2>2. CASE m # Len(p) + 1
      <3>1. m \in DOMAIN p /\ j < m
        BY <1>2, <2>2
      <3> QED BY <1>1, <1>2, <3>1 DEF OnePerSlot
    <2> QED BY <2>1, <2>2
  <1>7. ASSUME NEW i \in K
        PROVE  \E m \in DOMAIN r : r[m] = pushed[i]
    <2>1. K \subseteq Nat
      BY <1>4
    <2>2. PICK m \in 1..Cardinality(K) : Nth(K, m) = i
      <3> HIDE DEF K
      <3> QED BY <1>4, <2>1, NthOnto
    <2>3. m \in DOMAIN r
      BY <1>4
    <2> QED BY <1>4, <2>2, <2>3
  <1>8. ASSUME p # <<>>, p[1].slot = None \/ p[1].slot # a.slot
        PROVE  r # <<>> /\ r[1] = p[1]
    <2>1. 1 \in DOMAIN p /\ 1 \in K
      <3>1. 1 \in DOMAIN p
        BY <1>1, <1>8
      <3> QED BY <1>6, <1>8, <3>1
    <2>2. Nth(K, 1) = 1 /\ 1 \in 1..Cardinality(K)
      <3> HIDE DEF K
      <3> QED BY <1>4, <2>1, NthFirst
    <2>3. 1 \in DOMAIN r
      BY <1>4, <2>2
    <2> QED BY <1>2, <1>4, <2>1, <2>2, <2>3
  <1> HIDE DEF r, K
  <1>9. \E i \in DOMAIN r : r[i] = a
    BY <1>2, <1>5, <1>7
  <1>10. \A j \in DOMAIN p : p[j].slot # a.slot => \E i \in DOMAIN r : r[i] = p[j]
    BY <1>2, <1>6, <1>7
  <1> QED BY <1>3, <1>8, <1>9, <1>10

(* The shift after a post. *)
LEMMA ShiftSound ==
    ASSUME NEW q, NEW n \in Nat, NEW seq \in Nat, Sound(q, n), Within(q, seq)
    PROVE  LET r == [pending |-> Shift(q.pending), attempts |-> Shift(q.attempts)]
           IN  /\ Sound(r, n) /\ Within(r, seq)
               /\ \A i \in DOMAIN r.pending : \E j \in DOMAIN q.pending :
                     r.pending[i] = q.pending[j]
  <1> DEFINE p == q.pending
             s == Shift(p)
             u == Shift(q.attempts)
             r == [pending |-> s, attempts |-> u]
  <1>1. p \in Seq(Action) /\ q.attempts \in Seq(Nat) /\ Len(p) <= Len(q.attempts)
    BY DEF Sound, QueueState
  <1>2. /\ s \in Seq(Action) /\ (p # <<>> => Len(s) = Len(p) - 1) /\ (p = <<>> => s = <<>>)
        /\ \A i \in DOMAIN s : i + 1 \in DOMAIN p /\ s[i] = p[i + 1] /\ i \in Nat
    BY <1>1 DEF Shift
  <1>3. /\ u \in Seq(Nat) /\ (q.attempts # <<>> => Len(u) = Len(q.attempts) - 1)
        /\ (q.attempts = <<>> => u = <<>>)
    BY <1>1 DEF Shift
  <1>4. Len(s) <= Len(u)
    <2>1. CASE p = <<>>
      <3>1. Len(s) = 0 /\ Len(u) \in Nat
        BY <1>2, <1>3, <2>1
      <3> QED BY <3>1
    <2>2. CASE p # <<>>
      <3>1. Len(p) \in Nat \ {0} /\ Len(q.attempts) \in Nat
        BY <1>1, <2>2
      <3>2. q.attempts # <<>>
        BY <1>1, <3>1
      <3> QED BY <1>1, <1>2, <1>3, <2>2, <3>1, <3>2
    <2> QED BY <2>1, <2>2
  <1> HIDE DEF s, u
  <1>5. Rising(s) /\ OnePerSlot(s)
    <2> SUFFICES ASSUME NEW i \in DOMAIN s, NEW j \in DOMAIN s, i < j
                 PROVE  /\ s[i].seq < s[j].seq /\ s[i].event < s[j].event
                        /\ s[i].slot = s[j].slot => s[i].slot = None
      BY DEF Rising, OnePerSlot
    <2>1. /\ i + 1 \in DOMAIN p /\ j + 1 \in DOMAIN p /\ i + 1 < j + 1
          /\ s[i] = p[i + 1] /\ s[j] = p[j + 1]
      BY <1>2
    <2> QED BY <2>1 DEF Sound, Rising, OnePerSlot
  <1>6. \A i \in DOMAIN s : s[i].seq <= seq /\ s[i].event <= n
    BY <1>2 DEF Sound, Within
  <1>7. r.pending = s /\ r.attempts = u /\ r \in QueueState
    BY <1>2, <1>3 DEF QueueState
  <1>8. Sound(r, n) /\ Within(r, seq)
    BY <1>4, <1>5, <1>6, <1>7 DEF Sound, Within
  <1>9. \A i \in DOMAIN r.pending : \E j \in DOMAIN p : r.pending[i] = p[j]
    BY <1>2, <1>7
  <1> QED BY <1>8, <1>9 DEF s, u

(* attempts[0] = n *)
LEMMA TriedSound ==
    ASSUME NEW q, NEW n \in Nat, NEW seq \in Nat, Sound(q, n), Within(q, seq), NEW m \in Nat
    PROVE  LET r == [q EXCEPT !.attempts = SetFirst(q.attempts, m)]
           IN  Sound(r, n) /\ Within(r, seq) /\ r.pending = q.pending
  <1> DEFINE r == [q EXCEPT !.attempts = SetFirst(q.attempts, m)]
  <1>1. q.attempts \in Seq(Nat) /\ q \in QueueState
    BY DEF Sound, QueueState
  <1>2. SetFirst(q.attempts, m) \in Seq(Nat) /\ Len(q.attempts) <= Len(SetFirst(q.attempts, m))
    BY <1>1 DEF SetFirst
  <1>3. r.pending = q.pending /\ r.attempts = SetFirst(q.attempts, m) /\ r \in QueueState
    BY <1>1, <1>2 DEF QueueState
  <1>4. Len(q.pending) <= Len(r.attempts)
    <2>1. Len(q.pending) \in Nat /\ Len(q.attempts) \in Nat /\ Len(SetFirst(q.attempts, m)) \in Nat
      BY <1>1, <1>2 DEF QueueState
    <2> QED BY <1>2, <1>3, <2>1 DEF Sound
  <1> HIDE DEF r
  <1> QED BY <1>3, <1>4 DEF Sound, Within, r

(* The maximum that hydrate takes. *)
LEMMA HighestBounds ==
    ASSUME NEW p \in Seq(Action), Rising(p)
    PROVE  Highest(p) \in Nat /\ \A i \in DOMAIN p : p[i].seq <= Highest(p)
  <1>1. CASE p = <<>>
    BY <1>1 DEF Highest
  <1>2. CASE p # <<>>
    <2> DEFINE S == {p[i].seq : i \in DOMAIN p}
               last == p[Len(p)].seq
    <2>1. Len(p) \in Nat \ {0} /\ DOMAIN p = 1..Len(p) /\ \A i \in DOMAIN p : p[i].seq \in Nat
      <3>1. Len(p) \in Nat \ {0} /\ DOMAIN p = 1..Len(p)
        BY <1>2
      <3> QED BY <3>1, ActionsTyped
    <2>2. last \in S /\ \A i \in DOMAIN p : p[i].seq <= last
      BY <2>1 DEF Rising
    <2>3. Highest(p) = CHOOSE n \in S : \A i \in DOMAIN p : p[i].seq <= n
      BY <1>2 DEF Highest
    <2>4. \E n \in S : \A i \in DOMAIN p : p[i].seq <= n
      BY <2>2
    <2>5. Highest(p) \in S /\ \A i \in DOMAIN p : p[i].seq <= Highest(p)
      <3> HIDE DEF S
      <3> QED BY <2>3, <2>4
    <2> QED BY <2>1, <2>5
  <1> QED BY <1>1, <1>2

-----------------------------------------------------------------------------
(* The types, with every queue sound *)

Write == [value : QueueState, by : {"enqueue", "sent", "failed", "clear"}]

Queues ==
    /\ Sound(state, events.count) /\ Sound(disk, events.count)
    /\ saves \in Seq(Write)
    /\ \A i \in DOMAIN saves : Sound(saves[i].value, events.count)
    /\ localCounter \in Nat /\ Within(state, localCounter)

Draining ==
    /\ drain \in [pc : {"idle", "sending", "saving"}, action : Action \cup {None},
                  tries : Nat, executed : BOOLEAN]
    /\ drain.pc = "sending" => drain.action \in Action

Around ==
    /\ failures \in Nat /\ hydrated \in BOOLEAN
    /\ timer \in BOOLEAN /\ dormant \in BOOLEAN
    /\ submit \in {"no", "waiting", "drained", "timed_out", "done"}
    /\ stray \subseteq Action
    /\ server \in [seq : [Slots -> Nat], edit : [Slots -> Nat], submitted : BOOLEAN]
    /\ events \in [count : Nat, reloads : Nat, start : Nat, early : BOOLEAN,
                   disturbed : BOOLEAN, last : [Slots -> Nat]]

QInv == Queues /\ Draining /\ Around

LEMMA QInvTyped == QInv => TypeOK
  BY DEF QInv, Queues, Draining, Around, Sound, Write, TypeOK

LEMMA QInvInit == Init => QInv
  <1> SUFFICES ASSUME Init PROVE QInv
    OBVIOUS
  <1>1. events.count = 0 /\ Around
    BY DEF Init, Around
  <1>2. Queues
    BY <1>1, EmptySound DEF Init, Queues
  <1>3. Draining
    BY DEF Init, NoPost, Draining
  <1> QED BY <1>1, <1>2, <1>3 DEF QInv

LEMMA CountNat == Around => events.count \in Nat /\ events.start \in Nat
  BY DEF Around

(* A write is asked for. *)
LEMMA SaveSound ==
    ASSUME Queues, NEW n \in Nat, events.count \in Nat, events.count <= n,
           NEW q, Sound(q, n), NEW by \in {"enqueue", "sent", "failed", "clear"}, Save(q, by)
    PROVE  /\ saves' \in Seq(Write)
           /\ \A i \in DOMAIN saves' : Sound(saves'[i].value, n)
  <1> DEFINE w == [value |-> q, by |-> by]
  <1>1. w \in Write /\ w.value = q
    BY DEF Write, Sound
  <1> HIDE DEF w
  <1>2. saves' = Append(saves, w) /\ saves \in Seq(Write)
    BY DEF Save, Queues, w
  <1>3. saves' \in Seq(Write)
    BY <1>1, <1>2
  <1>4. \A i \in DOMAIN saves' : saves'[i] = w \/ (i \in DOMAIN saves /\ saves'[i] = saves[i])
    BY <1>1, <1>2
  <1>5. \A i \in DOMAIN saves : Sound(saves[i].value, n)
    BY SoundLater DEF Queues
  <1> QED BY <1>1, <1>3, <1>4, <1>5

(* The steps that leave the queue as it is, in memory and on disk. *)
LEMMA QueuesQuiet ==
    ASSUME Queues, UNCHANGED <<state, disk, saves, localCounter>>, events'.count = events.count
    PROVE  Queues'
  BY DEF Queues

(* The steps that change the queue in memory and ask for a write. *)
LEMMA QueuesWrite ==
    ASSUME QInv, NEW q, Sound(q, events.count), Within(q, localCounter),
           NEW by \in {"sent", "failed", "clear"},
           state' = q, Save(q, by), UNCHANGED <<disk, localCounter, events>>
    PROVE  Queues'
  <1>1. events.count \in Nat
    BY CountNat DEF QInv
  <1>2. /\ saves' \in Seq(Write)
        /\ \A i \in DOMAIN saves' : Sound(saves'[i].value, events.count)
    BY <1>1, SaveSound DEF QInv
  <1> QED BY <1>2 DEF QInv, Queues

LEMMA QueuesEnqueue ==
    ASSUME QInv, NEW slot \in Slots \cup {None}, Enqueue(slot)
    PROVE  Queues'
  <1> DEFINE c == events.count
             a == [slot |-> slot, seq |-> localCounter + 1, event |-> c + 1]
             q == Appended(state, a)
  <1>1. c \in Nat /\ localCounter \in Nat /\ Sound(state, c) /\ Within(state, localCounter)
    BY CountNat DEF QInv, Queues
  <1>2. a \in Action /\ a.seq = localCounter + 1 /\ a.event = c + 1
    BY <1>1 DEF Action
  <1>3. Sound(q, c + 1) /\ Within(q, localCounter + 1)
    <2> HIDE DEF a, c
    <2> QED BY <1>1, <1>2, AppendSound
  <1>4. /\ state' = q /\ Save(q, "enqueue") /\ disk' = disk
        /\ localCounter' = localCounter + 1 /\ events'.count = a.event
    BY DEF Enqueue, QInv, Around
  <1>5. events'.count = c + 1
    BY <1>2, <1>4
  <1> HIDE DEF a, c, q
  <1>6. /\ saves' \in Seq(Write)
        /\ \A i \in DOMAIN saves' : Sound(saves'[i].value, c + 1)
    <2>1. c + 1 \in Nat /\ c <= c + 1
      BY <1>1
    <2> QED BY <1>1, <1>3, <1>4, <2>1, SaveSound DEF QInv, c
  <1>7. Sound(disk, c + 1)
    <2>1. c + 1 \in Nat /\ c <= c + 1 /\ Sound(disk, c)
      BY <1>1 DEF QInv, Queues, c
    <2> QED BY <1>1, <2>1, SoundLater
  <1>8. localCounter' \in Nat
    BY <1>1, <1>4
  <1> QED BY <1>3, <1>4, <1>5, <1>6, <1>7, <1>8 DEF Queues

LEMMA QueuesHydrate ==
    ASSUME QInv, Hydrate
    PROVE  Queues'
  <1>1. disk.pending \in Seq(Action) /\ Rising(disk.pending)
    BY DEF QInv, Queues, Sound, QueueState
  <1>2. Highest(disk.pending) \in Nat /\ Within(disk, Highest(disk.pending))
    BY <1>1, HighestBounds DEF Within
  <1> QED BY <1>2 DEF QInv, Queues, Hydrate

LEMMA QueuesSaveDone ==
    ASSUME QInv, SaveDone
    PROVE  Queues'
  <1>1. saves \in Seq(Write) /\ saves # <<>>
    BY DEF QInv, Queues, SaveDone
  <1>2. /\ Tail(saves) \in Seq(Write)
        /\ \A i \in DOMAIN Tail(saves) : i + 1 \in DOMAIN saves /\ Tail(saves)[i] = saves[i + 1]
        /\ 1 \in DOMAIN saves /\ Head(saves) = saves[1]
    BY <1>1
  <1>3. /\ saves' = Tail(saves) /\ disk' = Head(saves).value
        /\ UNCHANGED <<state, localCounter, events>>
    BY DEF SaveDone
  <1> QED BY <1>2, <1>3 DEF QInv, Queues

LEMMA QueuesReload ==
    ASSUME QInv, Reload
    PROVE  Queues'
  <1>1. /\ state' = Empty /\ localCounter' = 0 /\ saves' = <<>>
        /\ events'.count = events.count
    BY DEF Reload, QInv, Around
  <1>2. PICK n \in 0..Len(saves) : disk' = IF n = 0 THEN disk ELSE saves[n].value
    BY DEF Reload
  <1>3. Sound(disk', events.count)
    <2>1. n # 0 => n \in DOMAIN saves
      BY <1>2 DEF QInv, Queues
    <2> QED BY <1>2, <2>1 DEF QInv, Queues
  <1>4. events.count \in Nat
    BY CountNat DEF QInv
  <1>5. saves' \in Seq(Write) /\ DOMAIN saves' = {}
    BY <1>1
  <1>6. Sound(Empty, events.count) /\ Within(Empty, 0)
    BY <1>4, EmptySound
  <1> QED BY <1>1, <1>3, <1>5, <1>6 DEF Queues

LEMMA QueuesStep ==
    ASSUME QInv, [Next]_vars
    PROVE  Queues'
  <1>0. /\ Sound(state, events.count) /\ Within(state, localCounter) /\ localCounter \in Nat
        /\ events.count \in Nat /\ Queues
    BY CountNat DEF QInv, Queues
  <1>1. ASSUME UNCHANGED <<state, disk, saves, localCounter, events>> PROVE Queues'
    BY <1>0, <1>1, QueuesQuiet
  <1>2. ASSUME TimerFires \/ Poll \/ Execute \/ PostUnauthorized \/ SubmitBegins
               \/ SubmitExecutes \/ SubmitFails PROVE Queues'
    BY <1>1, <1>2 DEF TimerFires, Poll, Execute, PostUnauthorized, SubmitBegins, SubmitExecutes,
                      SubmitFails, memory
  <1>3. ASSUME NEW result \in {"drained", "timed_out"}, WaitEnds(result) PROVE Queues'
    BY <1>1, <1>3 DEF WaitEnds
  <1>4. ASSUME NEW a \in stray, ExecuteStray(a) PROVE Queues'
    BY <1>1, <1>4 DEF ExecuteStray, memory
  <1>5. ASSUME PostSucceeds PROVE Queues'
    <2> DEFINE q == [pending |-> Shift(state.pending), attempts |-> Shift(state.attempts)]
    <2>1. Sound(q, events.count) /\ Within(q, localCounter)
      BY <1>0, ShiftSound
    <2>2. state' = q /\ Save(q, "sent") /\ UNCHANGED <<disk, localCounter, events>>
      BY <1>5 DEF PostSucceeds
    <2> HIDE DEF q
    <2> QED BY <2>1, <2>2, QueuesWrite
  <1>6. ASSUME PostFails \/ PostRefused PROVE Queues'
    <2> DEFINE q == [state EXCEPT !.attempts = SetFirst(state.attempts, Tried(drain.tries))]
    <2>1. Tried(drain.tries) \in Nat
      BY DEF Tried, QInv, Draining
    <2>2. Sound(q, events.count) /\ Within(q, localCounter)
      BY <1>0, <2>1, TriedSound
    <2>3. state' = q /\ Save(q, "failed") /\ UNCHANGED <<disk, localCounter, events>>
      BY <1>6 DEF PostFails, PostRefused
    <2> HIDE DEF q
    <2> QED BY <2>2, <2>3, QueuesWrite
  <1>7. ASSUME SubmitSucceeds PROVE Queues'
    <2>1. Sound(Empty, events.count) /\ Within(Empty, localCounter)
      BY <1>0, EmptySound DEF Within, Empty
    <2>2. state' = Empty /\ Save(Empty, "clear") /\ UNCHANGED <<disk, localCounter, events>>
      BY <1>7 DEF SubmitSucceeds
    <2> QED BY <2>1, <2>2, QueuesWrite
  <1>8. CASE UNCHANGED vars
    BY <1>1, <1>8 DEF vars, memory
  <1> QED BY <1>2, <1>3, <1>4, <1>5, <1>6, <1>7, <1>8, QueuesEnqueue, QueuesHydrate,
             QueuesSaveDone, QueuesReload
          DEF Next, Page, Answer, EnqueueViolation, EnqueueSnapshot

(* The loop takes the head, which is an action with a count of its tries.   *)
LEMMA SendsHead ==
    ASSUME QInv, state.pending # <<>>, Send(state)
    PROVE  /\ Draining' /\ drain'.pc = "sending" /\ drain'.action = state.pending[1]
           /\ 1 \in DOMAIN state.pending
  <1>1. /\ state.pending \in Seq(Action) /\ state.attempts \in Seq(Nat)
        /\ Len(state.pending) <= Len(state.attempts)
    BY DEF QInv, Queues, Sound, QueueState
  <1>2. Len(state.pending) \in Nat \ {0} /\ Len(state.attempts) \in Nat
    BY <1>1
  <1>3. state.attempts # <<>>
    BY <1>1, <1>2
  <1>4. /\ Head(state.pending) \in Action /\ Head(state.pending) = state.pending[1]
        /\ 1 \in DOMAIN state.pending
        /\ Head(state.attempts) \in Nat
    BY <1>1, <1>2, <1>3
  <1> QED BY <1>4 DEF Send, Draining

LEMMA Rests ==
    ASSUME drain' = NoPost \/ drain' = [NoPost EXCEPT !.pc = "saving"]
    PROVE  Draining' /\ drain'.pc # "sending"
  <1>1. PICK pc \in {"idle", "saving"} :
           drain' = [pc |-> pc, action |-> None, tries |-> 0, executed |-> FALSE]
    BY DEF NoPost
  <1> QED BY <1>1 DEF Draining

(* What each step does to the loop. *)
LEMMA DrainMoves ==
    ASSUME QInv, [Next]_vars
    PROVE  \/ UNCHANGED drain
           \/ CanDrain /\ Send(state) /\ UNCHANGED saves
           \/ SaveDone /\ Head(saves).by = "sent" /\ state.pending # <<>> /\ Send(state)
           \/ SaveDone /\ Head(saves).by \in {"sent", "failed"} /\ drain' = NoPost
           \/ PostUnauthorized \/ Execute
           \/ PostSucceeds \/ PostFails \/ PostRefused
           \/ Reload
  <1>1. ASSUME SaveDone
        PROVE  \/ UNCHANGED drain
               \/ Head(saves).by = "sent" /\ state.pending # <<>> /\ Send(state)
               \/ Head(saves).by \in {"sent", "failed"} /\ drain' = NoPost
    BY <1>1 DEF SaveDone, Continue
  <1>2. ASSUME TimerFires \/ Poll
        PROVE  UNCHANGED drain \/ (CanDrain /\ Send(state) /\ UNCHANGED saves)
    BY <1>2 DEF TimerFires, Poll
  <1>3. ASSUME NEW slot \in Slots \cup {None}, Enqueue(slot) PROVE UNCHANGED drain
    BY <1>3 DEF Enqueue
  <1>4. ASSUME Hydrate \/ SubmitBegins \/ SubmitExecutes \/ SubmitSucceeds \/ SubmitFails
        PROVE UNCHANGED drain
    BY <1>4 DEF Hydrate, SubmitBegins, SubmitExecutes, SubmitSucceeds, SubmitFails, memory
  <1>5. ASSUME (\E result \in {"drained", "timed_out"} : WaitEnds(result))
               \/ (\E a \in stray : ExecuteStray(a))
        PROVE UNCHANGED drain
    BY <1>5 DEF WaitEnds, ExecuteStray, memory
  <1>6. CASE UNCHANGED vars
    BY <1>6 DEF vars, memory
  <1> QED BY <1>1, <1>2, <1>3, <1>4, <1>5, <1>6
          DEF Next, Page, Answer, EnqueueViolation, EnqueueSnapshot

LEMMA DrainingStep ==
    ASSUME QInv, [Next]_vars
    PROVE  Draining'
  <1>1. CASE UNCHANGED drain
    BY <1>1 DEF QInv, Draining
  <1>2. CASE state.pending # <<>> /\ Send(state)
    BY <1>2, SendsHead
  <1>3. CASE drain' = NoPost \/ drain' = [NoPost EXCEPT !.pc = "saving"]
    BY <1>3, Rests
  <1>4. CASE Execute
    BY <1>4 DEF Execute, QInv, Draining
  <1> QED BY <1>1, <1>2, <1>3, <1>4, DrainMoves
          DEF CanDrain, PostUnauthorized, PostSucceeds, PostFails, PostRefused, Reload

LEMMA StoreTyped ==
    ASSUME Around, NEW a \in Action
    PROVE  Store(a) \in [seq : [Slots -> Nat], edit : [Slots -> Nat], submitted : BOOLEAN]
  <1>1. CASE a.slot # None /\ a.seq > server.seq[a.slot]
    <2>1. a.slot \in Slots /\ a.seq \in Nat /\ a.event \in Nat
      BY <1>1 DEF Action
    <2>2. Store(a) = [server EXCEPT !.seq[a.slot] = a.seq, !.edit[a.slot] = a.event]
      BY <1>1 DEF Store
    <2>3. Store(a) = [seq |-> [server.seq EXCEPT ![a.slot] = a.seq],
                      edit |-> [server.edit EXCEPT ![a.slot] = a.event],
                      submitted |-> server.submitted]
      BY <2>2 DEF Around
    <2>4. server.seq \in [Slots -> Nat] /\ server.edit \in [Slots -> Nat] /\ server.submitted \in BOOLEAN
      BY DEF Around
    <2> QED BY <2>1, <2>3, <2>4
  <1>2. CASE ~(a.slot # None /\ a.seq > server.seq[a.slot])
    BY <1>2 DEF Store, Around
  <1> QED BY <1>1, <1>2

LEMMA AroundStep ==
    ASSUME QInv, [Next]_vars
    PROVE  Around'
  <1>0. Around /\ Draining /\ Unsettled \subseteq Action
    BY DEF QInv, Draining, Unsettled
  <1>1. ASSUME NEW slot \in Slots \cup {None}, Enqueue(slot) PROVE Around'
    <2>1. events' \in [count : Nat, reloads : Nat, start : Nat, early : BOOLEAN,
                       disturbed : BOOLEAN, last : [Slots -> Nat]]
      <3>1. events' = [count |-> events.count + 1, reloads |-> events.reloads,
                       start |-> events.start, early |-> events.early \/ ~hydrated,
                       disturbed |-> events.disturbed \/ ~hydrated \/ Overtakes(slot),
                       last |-> [k \in Slots |-> IF k = slot THEN events.count + 1
                                                 ELSE events.last[k]]]
        BY <1>0, <1>1 DEF Enqueue, Around
      <3>2. events.count + 1 \in Nat /\ events.last \in [Slots -> Nat]
        BY <1>0 DEF Around
      <3> QED BY <1>0, <3>1, <3>2 DEF Around
    <2> QED BY <1>0, <1>1, <2>1 DEF Enqueue, Around
  <1>2. ASSUME Reload PROVE Around'
    <2>1. events' \in [count : Nat, reloads : Nat, start : Nat, early : BOOLEAN,
                       disturbed : BOOLEAN, last : [Slots -> Nat]]
      <3>1. events' = [count |-> events.count, reloads |-> events.reloads + 1,
                       start |-> events.count, early |-> FALSE,
                       disturbed |-> events.disturbed \/ saves # <<>>
                                     \/ (hydrated /\ Highest(disk.pending) # localCounter),
                       last |-> events.last]
        BY <1>0, <1>2 DEF Reload, Around
      <3> QED BY <1>0, <3>1 DEF Around
    <2> QED BY <1>0, <1>2, <2>1 DEF Reload, Around
  <1>3. ASSUME SaveDone PROVE Around'
    BY <1>0, <1>3 DEF SaveDone, Continue, ScheduleDrain, Around
  <1>4. ASSUME Execute PROVE Around'
    BY <1>0, <1>4, StoreTyped DEF Execute, Draining, Around
  <1>5. ASSUME NEW a \in stray, ExecuteStray(a) PROVE Around'
    <2>1. a \in Action
      BY <1>0 DEF Around
    <2> QED BY <1>0, <1>5, <2>1, StoreTyped DEF ExecuteStray, memory, Around
  <1>6. ASSUME SubmitExecutes PROVE Around'
    BY <1>0, <1>6 DEF SubmitExecutes, memory, Around
  <1>7. ASSUME Hydrate \/ TimerFires \/ Poll \/ PostSucceeds \/ PostUnauthorized
        PROVE Around'
    BY <1>0, <1>7 DEF Hydrate, TimerFires, Poll, PostSucceeds, PostUnauthorized, Around
  <1>8. ASSUME PostFails \/ PostRefused PROVE Around'
    BY <1>0, <1>8 DEF PostFails, PostRefused, Around
  <1>9. ASSUME SubmitBegins \/ SubmitSucceeds \/ SubmitFails
               \/ (\E result \in {"drained", "timed_out"} : WaitEnds(result))
        PROVE Around'
    BY <1>0, <1>9 DEF SubmitBegins, SubmitSucceeds, SubmitFails, WaitEnds, Around
  <1>10. CASE UNCHANGED vars
    BY <1>0, <1>10 DEF vars, memory, Around
  <1> QED BY <1>1, <1>2, <1>3, <1>4, <1>5, <1>6, <1>7, <1>8, <1>9, <1>10
          DEF Next, Page, Answer, EnqueueViolation, EnqueueSnapshot

LEMMA QInvStep == QInv /\ [Next]_vars => QInv'
  BY QueuesStep, DrainingStep, AroundStep DEF QInv

(* The queue in memory, every write of it that is outstanding and what is   *)
(* on disk are sound: typed, in order, with tries that are known, and of    *)
(* events that happened.                                                    *)
THEOREM QueueInvariant == Spec => []QInv
  <1> QED BY QInvInit, QInvStep, PTL DEF Spec

(* Every reachable state is well typed: in particular the loop never posts  *)
(* anything but an action, nor counts tries that are not there.             *)
THEOREM QueueTypes == Spec => []TypeOK
  <1> QED BY QueueInvariant, QInvTyped, PTL

(* What waits is in the order it was made, at most one snapshot of a slot,  *)
(* numbered by rising action_seq, across collapses, posts and reloads.      *)
THEOREM PendingInOrderHolds == Spec => []PendingInOrder
  <1>1. QInv => PendingInOrder
    BY DEF QInv, Queues, Sound, Rising, OnePerSlot, PendingInOrder
  <1> QED BY <1>1, QueueInvariant, PTL

(* The two parallel arrays stay aligned as far as the loop reads them.      *)
THEOREM TriesKnownHolds == Spec => []TriesKnown
  <1>1. QInv => TriesKnown
    <2> SUFFICES ASSUME QInv PROVE TriesKnown
      OBVIOUS
    <2>1. /\ Len(state.pending) <= Len(state.attempts)
          /\ state.pending \in Seq(Action) /\ state.attempts \in Seq(Nat)
      BY DEF QInv, Queues, Sound, QueueState
    <2> QED BY <2>1 DEF TriesKnown
  <1> QED BY <1>1, QueueInvariant, PTL

-----------------------------------------------------------------------------
(* The loop and its own writes *)

(* The loop waits for the write at i. *)
Awaited(i) == saves[i].by \in {"sent", "failed"}

(* The loop waits for one write, and only while it says it is saving: no    *)
(* write of an earlier round can set it going again after a 401.            *)
LoopInv ==
    /\ \A i \in DOMAIN saves : Awaited(i) => drain.pc = "saving"
    /\ \A i, j \in DOMAIN saves : Awaited(i) /\ Awaited(j) => i = j
    /\ dormant => drain.pc = "idle"

(* A write asked for comes last. *)
LEMMA SaveLast ==
    ASSUME QInv, NEW q, NEW by, Save(q, by)
    PROVE  /\ saves' # <<>> /\ saves'[Len(saves')].value = q
           /\ \A i \in DOMAIN saves' :
                 \/ i \in DOMAIN saves /\ saves'[i] = saves[i]
                 \/ i = Len(saves) + 1 /\ saves'[i].by = by
  <1> DEFINE w == [value |-> q, by |-> by]
  <1>1. w.value = q /\ w.by = by
    OBVIOUS
  <1>2. saves' = Append(saves, w) /\ saves \in Seq(Write)
    BY DEF Save, QInv, Queues
  <1> HIDE DEF w
  <1> QED BY <1>1, <1>2

LEMMA LoopWrites ==
    ASSUME QInv, LoopInv, NEW q, NEW by \in {"enqueue", "clear", "sent", "failed"}, Save(q, by),
           dormant' = dormant,
           \/ by \in {"enqueue", "clear"} /\ drain' = drain
           \/ by \in {"sent", "failed"} /\ drain.pc = "sending" /\ drain'.pc = "saving"
    PROVE  LoopInv'
  <1>1. \A i \in DOMAIN saves' :
           \/ i \in DOMAIN saves /\ saves'[i] = saves[i]
           \/ i = Len(saves) + 1 /\ saves'[i].by = by
    BY SaveLast
  <1>2. CASE by \in {"enqueue", "clear"}
    BY <1>1, <1>2 DEF LoopInv, Awaited
  <1>3. CASE by \in {"sent", "failed"}
    <2>1. \A i \in DOMAIN saves : ~Awaited(i)
      BY <1>3 DEF LoopInv
    <2>2. ~dormant
      BY <1>3 DEF LoopInv
    <2> QED BY <1>1, <1>3, <2>1, <2>2 DEF LoopInv, Awaited
  <1> QED BY <1>2, <1>3

LEMMA LoopStep ==
    ASSUME QInv, LoopInv, [Next]_vars
    PROVE  LoopInv'
  <1>1. ASSUME UNCHANGED saves, dormant' = dormant,
               \/ UNCHANGED drain
               \/ drain.pc \in {"idle", "sending"} /\ drain'.pc = "sending" /\ ~dormant
        PROVE  LoopInv'
    BY <1>1 DEF LoopInv, Awaited
  <1>2. ASSUME TimerFires \/ Poll PROVE LoopInv'
    <2>1. CASE UNCHANGED drain
      BY <1>1, <1>2, <2>1 DEF TimerFires, Poll
    <2>2. CASE CanDrain /\ Send(state)
      BY <1>1, <1>2, <2>2 DEF TimerFires, Poll, CanDrain, Send
    <2> QED BY <1>2, <2>1, <2>2 DEF TimerFires, Poll
  <1>3. ASSUME Execute PROVE LoopInv'
    <2>1. drain.pc = "sending" /\ drain'.pc = "sending" /\ UNCHANGED <<saves, dormant>>
      BY <1>3 DEF Execute, QInv, Draining
    <2> QED BY <1>1, <2>1 DEF LoopInv
  <1>4. ASSUME NEW slot \in Slots \cup {None}, Enqueue(slot) PROVE LoopInv'
    <2>1. PICK q : Save(q, "enqueue")
      BY <1>4 DEF Enqueue
    <2> QED BY <1>4, <2>1, LoopWrites DEF Enqueue
  <1>5. ASSUME SubmitSucceeds PROVE LoopInv'
    BY <1>5, LoopWrites DEF SubmitSucceeds
  <1>6. ASSUME PostSucceeds \/ PostFails \/ PostRefused PROVE LoopInv'
    <2>1. PICK by \in {"sent", "failed"} : \E q : Save(q, by)
      BY <1>6 DEF PostSucceeds, PostFails, PostRefused
    <2>2. drain.pc = "sending" /\ drain'.pc = "saving" /\ dormant' = dormant
      BY <1>6 DEF PostSucceeds, PostFails, PostRefused, NoPost
    <2> QED BY <2>1, <2>2, LoopWrites
  <1>7. ASSUME PostUnauthorized PROVE LoopInv'
    <2>1. drain.pc = "sending" /\ drain'.pc = "idle" /\ UNCHANGED saves
      BY <1>7 DEF PostUnauthorized, NoPost
    <2> QED BY <2>1 DEF LoopInv, Awaited
  <1>8. ASSUME SaveDone PROVE LoopInv'
    <2>1. saves \in Seq(Write) /\ saves # <<>> /\ saves' = Tail(saves) /\ dormant' = dormant
      BY <1>8 DEF SaveDone, QInv, Queues
    <2>2. /\ 1 \in DOMAIN saves /\ Head(saves) = saves[1]
          /\ \A i \in DOMAIN saves' : /\ i \in Nat \ {0} /\ i + 1 \in DOMAIN saves
                                     /\ saves'[i] = saves[i + 1]
      BY <2>1
    <2>3. CASE Head(saves).by \in {"sent", "failed"}
      <3>1. drain.pc = "saving" /\ ~dormant
        BY <2>2, <2>3 DEF LoopInv, Awaited
      <3>2. \A i \in DOMAIN saves' : ~(saves'[i].by \in {"sent", "failed"})
        BY <2>2, <2>3 DEF LoopInv, Awaited
      <3> QED BY <2>1, <3>1, <3>2 DEF LoopInv, Awaited
    <2>4. CASE ~(Head(saves).by \in {"sent", "failed"})
      <3>1. UNCHANGED drain
        BY <1>8, <2>4 DEF SaveDone, Continue
      <3> QED BY <2>1, <2>2, <3>1 DEF LoopInv, Awaited
    <2> QED BY <2>3, <2>4
  <1>9. ASSUME Reload PROVE LoopInv'
    <2>1. saves' = <<>> /\ ~dormant'
      BY <1>9 DEF Reload
    <2> QED BY <2>1 DEF LoopInv
  <1>10. ASSUME Hydrate \/ SubmitBegins \/ SubmitExecutes \/ SubmitFails PROVE LoopInv'
    BY <1>1, <1>10 DEF Hydrate, SubmitBegins, SubmitExecutes, SubmitFails, memory
  <1>11. ASSUME (\E result \in {"drained", "timed_out"} : WaitEnds(result))
                \/ (\E a \in stray : ExecuteStray(a)) PROVE LoopInv'
    BY <1>1, <1>11 DEF WaitEnds, ExecuteStray, memory
  <1>12. CASE UNCHANGED vars
    BY <1>1, <1>12 DEF vars, memory
  <1> QED BY <1>2, <1>3, <1>4, <1>5, <1>6, <1>7, <1>8, <1>9, <1>10, <1>11, <1>12
          DEF Next, Page, Answer, EnqueueViolation, EnqueueSnapshot

(* After a 401 nothing is posted any more, whatever writes were outstanding *)
(* and however often a submit polls.                                        *)
THEOREM DormantIsSilentHolds == Spec => DormantIsSilent
  <1>1. Init => LoopInv
    BY DEF Init, LoopInv, NoPost
  <1>2. LoopInv /\ LoopInv' => (dormant /\ dormant' => ~(drain.pc # "sending" /\ drain'.pc = "sending"))
    BY DEF LoopInv
  <1>3. QInv /\ LoopInv /\ [Next]_vars => LoopInv'
    BY LoopStep
  <1>4. QInv /\ LoopInv /\ [Next]_vars
        => [dormant /\ dormant' => ~(drain.pc # "sending" /\ drain'.pc = "sending")]_vars
    BY <1>2, <1>3
  <1> QED BY <1>1, <1>3, <1>4, QInvInit, QInvStep, PTL DEF Spec, DormantIsSilent

-----------------------------------------------------------------------------
(* The mirror in IndexedDB *)

(* The last write outstanding is what the page holds; until hydrate has run *)
(* nothing but an early event moves.                                        *)
MirrorInv ==
    /\ ~hydrated => /\ drain.pc = "idle" /\ ~timer /\ submit = "no"
                    /\ ~events.early => saves = <<>>
    /\ hydrated /\ ~events.early =>
          IF saves = <<>> THEN disk = state ELSE saves[Len(saves)].value = state

LEMMA MirrorWrites ==
    ASSUME QInv, MirrorInv, NEW q, NEW by, state' = q, Save(q, by), hydrated, hydrated',
           events'.early = events.early
    PROVE  MirrorInv'
  BY SaveLast DEF MirrorInv

LEMMA MirrorStep ==
    ASSUME QInv, MirrorInv, [Next]_vars
    PROVE  MirrorInv'
  <1>1. ASSUME UNCHANGED <<state, saves, disk, hydrated, events>>,
               hydrated \/ UNCHANGED <<drain, timer, submit>>
        PROVE  MirrorInv'
    BY <1>1 DEF MirrorInv
  <1>2. ASSUME TimerFires \/ Poll \/ Execute \/ PostUnauthorized PROVE MirrorInv'
    <2>1. hydrated
      BY <1>2 DEF TimerFires, Poll, Execute, PostUnauthorized, MirrorInv
    <2> QED BY <1>1, <1>2, <2>1 DEF TimerFires, Poll, Execute, PostUnauthorized
  <1>3. ASSUME SubmitBegins \/ SubmitExecutes \/ SubmitFails
               \/ (\E result \in {"drained", "timed_out"} : WaitEnds(result)) PROVE MirrorInv'
    <2>1. hydrated
      BY <1>3 DEF SubmitBegins, SubmitExecutes, SubmitFails, WaitEnds, MirrorInv
    <2> QED BY <1>1, <1>3, <2>1 DEF SubmitBegins, SubmitExecutes, SubmitFails, WaitEnds, memory
  <1>4. ASSUME NEW a \in stray, ExecuteStray(a) PROVE MirrorInv'
    BY <1>1, <1>4 DEF ExecuteStray, memory
  <1>5. ASSUME PostSucceeds \/ PostFails \/ PostRefused \/ SubmitSucceeds PROVE MirrorInv'
    <2>1. hydrated
      BY <1>5 DEF PostSucceeds, PostFails, PostRefused, SubmitSucceeds, MirrorInv
    <2>2. hydrated' = hydrated /\ events' = events /\ \E q, by : state' = q /\ Save(q, by)
      BY <1>5 DEF PostSucceeds, PostFails, PostRefused, SubmitSucceeds
    <2> QED BY <2>1, <2>2, MirrorWrites
  <1>6. ASSUME NEW slot \in Slots \cup {None}, Enqueue(slot) PROVE MirrorInv'
    <2>1. /\ events'.early = (events.early \/ ~hydrated) /\ hydrated' = hydrated
          /\ UNCHANGED <<drain, timer, submit>>
      BY <1>6 DEF Enqueue, QInv, Around
    <2>2. CASE hydrated
      <3>1. events'.early = events.early
        BY <2>1, <2>2 DEF QInv, Around
      <3>2. PICK q : state' = q /\ Save(q, "enqueue")
        BY <1>6 DEF Enqueue
      <3> QED BY <2>1, <2>2, <3>1, <3>2, MirrorWrites
    <2>3. CASE ~hydrated
      BY <2>1, <2>3 DEF MirrorInv
    <2> QED BY <2>2, <2>3
  <1>7. ASSUME Hydrate PROVE MirrorInv'
    BY <1>7 DEF Hydrate, MirrorInv
  <1>8. ASSUME SaveDone PROVE MirrorInv'
    <2>1. /\ saves \in Seq(Write) /\ saves # <<>> /\ saves' = Tail(saves)
          /\ disk' = Head(saves).value /\ hydrated /\ UNCHANGED <<state, hydrated, events>>
      BY <1>8 DEF SaveDone, QInv, Queues
    <2>2. Len(saves) \in Nat \ {0} /\ Len(saves') = Len(saves) - 1 /\ Len(<<>>) = 0
      <3>1. \A L \in Seq(Write) : L # <<>> => Len(L) \in Nat \ {0} /\ Len(Tail(L)) = Len(L) - 1
        OBVIOUS
      <3> QED BY <2>1, <3>1
    <2>3. CASE Len(saves) = 1
      <3>1. Head(saves) = saves[Len(saves)] /\ saves' = <<>>
        BY <2>1, <2>3
      <3> QED BY <2>1, <3>1 DEF MirrorInv
    <2>4. CASE Len(saves) # 1
      <3>1. saves'[Len(saves')] = saves[Len(saves)]
        BY <2>1, <2>2, <2>4
      <3>2. saves' # <<>>
        BY <2>2, <2>4
      <3> QED BY <2>1, <3>1, <3>2 DEF MirrorInv
    <2> QED BY <2>3, <2>4
  <1>9. ASSUME Reload PROVE MirrorInv'
    <2>1. /\ ~hydrated' /\ drain'.pc = "idle" /\ ~timer' /\ submit' = "no" /\ saves' = <<>>
      BY <1>9 DEF Reload, NoPost
    <2> QED BY <2>1 DEF MirrorInv
  <1>10. CASE UNCHANGED vars
    BY <1>1, <1>10 DEF vars, memory
  <1> QED BY <1>2, <1>3, <1>4, <1>5, <1>6, <1>7, <1>8, <1>9, <1>10
          DEF Next, Page, Answer, EnqueueViolation, EnqueueSnapshot

(* Once every write is done IndexedDB holds exactly what the page holds,    *)
(* over posts, failures, submits and reloads at any point.                  *)
THEOREM DiskMatchesMemoryHolds == Spec => []DiskMatchesMemory
  <1>1. Init => MirrorInv
    BY DEF Init, MirrorInv, NoPost
  <1>2. QInv /\ MirrorInv /\ [Next]_vars => MirrorInv'
    BY MirrorStep
  <1>3. MirrorInv => DiskMatchesMemory
    BY DEF MirrorInv, DiskMatchesMemory
  <1> QED BY <1>1, <1>2, <1>3, QInvInit, QInvStep, PTL DEF Spec

-----------------------------------------------------------------------------
(* action_seq at the server *)

Stored(k) == [slot |-> k, seq |-> server.seq[k], event |-> server.edit[k]]

Waiting == {state.pending[i] : i \in DOMAIN state.pending}

(* What the server has stored or may still be given. *)
Sent == stray \cup {a \in {drain.action} : drain.pc = "sending"} \cup {Stored(k) : k \in Slots}

(* This page has given out the number of a. *)
Own(a) == a.event > events.start

(* Among the page's own actions, waiting, sent or stored, a higher          *)
(* action_seq is a later event.  Before hydrate has run none is sent, so    *)
(* that the numbers it takes back are of events nobody will see.            *)
AgeInv ==
    /\ \A a \in Waiting \cup Sent : a.event <= events.count /\ (Own(a) => a.seq <= localCounter)
    /\ \A a, b \in Waiting \cup Sent :
          Own(a) /\ Own(b) /\ a.seq <= b.seq => a.event <= b.event
    /\ ~hydrated => /\ \A a \in Sent : ~Own(a)
                    /\ \A i \in DOMAIN disk.pending : disk.pending[i].event <= events.start

LEMMA LiveActions ==
    ASSUME QInv
    PROVE  /\ Waiting \subseteq Action /\ Sent \subseteq Action
           /\ \A a \in Waiting \cup Sent : a.seq \in Nat /\ a.event \in Nat
  <1>1. Waiting \subseteq Action
    <2>1. state.pending \in Seq(Action)
      BY DEF QInv, Queues, Sound, QueueState
    <2> QED BY <2>1, ActionsTyped DEF Waiting
  <1>2. \A k \in Slots : Stored(k) \in Action
    BY DEF QInv, Around, Stored, Action
  <1>3. Sent \subseteq Action
    BY <1>2 DEF QInv, Around, Draining, Sent
  <1>4. \A a \in Action : a.seq \in Nat /\ a.event \in Nat
    BY DEF Action
  <1> QED BY <1>1, <1>3, <1>4

(* Storing an action puts nothing new among what is stored. *)
LEMMA StoredFrom ==
    ASSUME QInv, NEW a \in Sent, server' = Store(a), NEW k \in Slots
    PROVE  \/ Stored(k)' = Stored(k)
           \/ Stored(k)' = a /\ a.slot = k /\ a.seq > server.seq[k]
  <1>1. a \in Action
    BY LiveActions
  <1>2. CASE a.slot = k /\ a.seq > server.seq[k]
    <2>1. server' = [server EXCEPT !.seq[k] = a.seq, !.edit[k] = a.event]
      BY <1>2 DEF Store
    <2>2. server'.seq[k] = a.seq /\ server'.edit[k] = a.event
      BY <2>1 DEF QInv, Around
    <2>3. a = [slot |-> a.slot, seq |-> a.seq, event |-> a.event]
      BY <1>1 DEF Action
    <2> QED BY <1>2, <2>2, <2>3 DEF Stored
  <1>3. CASE ~(a.slot = k /\ a.seq > server.seq[k])
    <2>1. server'.seq[k] = server.seq[k] /\ server'.edit[k] = server.edit[k]
      BY <1>1, <1>3 DEF Store, QInv, Around, Action
    <2> QED BY <2>1 DEF Stored
  <1> QED BY <1>2, <1>3

(* A step that adds nothing to what waits and is sent. *)
NothingNew ==
    /\ UNCHANGED <<events, localCounter, hydrated>>
    /\ Waiting' \cup Sent' \subseteq Waiting \cup Sent
    /\ ~hydrated => Sent' \subseteq Sent /\ disk' = disk

LEMMA AgeKept == ASSUME AgeInv, NothingNew PROVE AgeInv'
  BY DEF AgeInv, NothingNew, Own

LEMMA StoresNothingNew ==
    ASSUME QInv, NEW a \in Sent, server' = Store(a),
           UNCHANGED <<events, localCounter, hydrated, state, disk>>,
           stray' \subseteq stray,
           drain'.pc = "sending" => drain.pc = "sending" /\ drain'.action = drain.action
    PROVE  NothingNew
  <1>1. Waiting' = Waiting
    BY DEF Waiting
  <1>2. \A k \in Slots : Stored(k)' \in Sent
    BY StoredFrom DEF Sent
  <1>3. Sent' \subseteq Sent
    BY <1>2 DEF Sent
  <1> QED BY <1>1, <1>3 DEF NothingNew

LEMMA AgeEnqueue ==
    ASSUME QInv, AgeInv, NEW slot \in Slots \cup {None}, Enqueue(slot)
    PROVE  AgeInv'
  <1> DEFINE c == events.count
             n == localCounter
             a == [slot |-> slot, seq |-> n + 1, event |-> c + 1]
             q == Appended(state, a)
  <1>1. c \in Nat /\ n \in Nat /\ events.start \in Nat /\ Sound(state, c) /\ Within(state, n)
    BY CountNat DEF QInv, Queues
  <1>2. a \in Action /\ a.seq = n + 1 /\ a.event = c + 1
    BY <1>1 DEF Action
  <1>3. /\ state' = q /\ localCounter' = n + 1 /\ events'.count = a.event
        /\ events'.start = events.start
        /\ UNCHANGED <<hydrated, disk, drain, stray, server>>
    BY DEF Enqueue, QInv, Around
  <1>4. Sent' = Sent
    BY <1>3 DEF Sent, Stored
  <1> HIDE DEF a
  <1>5. Waiting' \subseteq Waiting \cup {a}
    <2>1. \A i \in DOMAIN q.pending :
             q.pending[i] = a \/ \E j \in DOMAIN state.pending : q.pending[i] = state.pending[j]
      BY <1>1, <1>2, AppendSound
    <2> HIDE DEF q
    <2> QED BY <1>3, <2>1 DEF Waiting
  <1> HIDE DEF q, c, n
  <1>6. \A b \in Waiting \cup Sent : b.event <= c /\ (Own(b) => b.seq <= n)
                                    /\ b.seq \in Nat /\ b.event \in Nat
    BY LiveActions DEF AgeInv, c, n
  <1>7. events'.count = c + 1 /\ \A b : Own(b)' <=> Own(b)
    BY <1>2, <1>3 DEF Own
  <1>8. Waiting' \cup Sent' \subseteq (Waiting \cup Sent) \cup {a}
    BY <1>4, <1>5
  <1>9. \A b \in Waiting' \cup Sent' : b.event <= c + 1 /\ (Own(b) => b.seq <= n + 1)
    BY <1>1, <1>2, <1>6, <1>8
  <1>10. \A b, d \in Waiting' \cup Sent' :
            Own(b) /\ Own(d) /\ b.seq <= d.seq => b.event <= d.event
    <2> SUFFICES ASSUME NEW b \in Waiting' \cup Sent', NEW d \in Waiting' \cup Sent',
                        Own(b), Own(d), b.seq <= d.seq
                 PROVE  b.event <= d.event
      OBVIOUS
    <2>1. CASE d = a
      BY <1>1, <1>2, <1>6, <1>8, <2>1
    <2>2. CASE d # a /\ b = a
      BY <1>1, <1>2, <1>6, <1>8, <2>2
    <2>3. CASE d # a /\ b # a
      BY <1>8, <2>3 DEF AgeInv
    <2> QED BY <2>1, <2>2, <2>3
  <1> QED BY <1>3, <1>4, <1>7, <1>9, <1>10 DEF AgeInv

(* A page that begins has no actions of its own. *)
LEMMA AgeNone ==
    ASSUME QInv, QInv', AgeInv, Hydrate \/ Reload
    PROVE  AgeInv'
  <1>1. CASE Hydrate
    <2>1. /\ state' = disk /\ hydrated' /\ events' = events
          /\ UNCHANGED <<drain, stray, server>> /\ ~hydrated
      BY <1>1 DEF Hydrate
    <2>2. Sent' = Sent
      BY <2>1 DEF Sent, Stored
    <2>3. \A a \in Waiting' : a.event <= events.start
      BY <2>1 DEF Waiting, AgeInv
    <2>4. \A a \in Sent : ~Own(a)
      BY <2>1 DEF AgeInv
    <2>5. \A a \in Waiting' \cup Sent' : a.event \in Nat /\ events.start \in Nat
      <3>1. disk.pending \in Seq(Action)
        BY DEF QInv, Queues, Sound, QueueState
      <3>2. \A a \in Waiting' : a.event \in Nat
        BY <2>1, <3>1, ActionsTyped DEF Waiting
      <3> QED BY <2>2, <3>2, LiveActions, CountNat DEF QInv
    <2>6. \A a \in Waiting' \cup Sent' : ~Own(a)' /\ a.event <= events'.count
      <3>1. \A a \in Waiting' : a.event <= events'.count
        BY DEF QInv, Queues, Sound, Waiting
      <3>2. \A a \in Sent : a.event <= events.count
        BY DEF AgeInv
      <3> QED BY <2>1, <2>2, <2>3, <2>4, <2>5, <3>1, <3>2 DEF Own
    <2> QED BY <2>1, <2>6 DEF AgeInv
  <1>2. CASE Reload
    <2>1. /\ state' = Empty /\ ~hydrated' /\ drain' = NoPost /\ server' = server
          /\ stray' = stray \cup Unsettled
          /\ events'.count = events.count /\ events'.start = events.count
      BY <1>2 DEF Reload, QInv, Around
    <2>2. Waiting' = {}
      BY <2>1 DEF Waiting, Empty
    <2>3. Sent' \subseteq Sent
      BY <2>1 DEF Sent, Stored, Unsettled, NoPost
    <2>4. \A a \in Sent : a.event <= events.count /\ a.event \in Nat /\ events.count \in Nat
      BY LiveActions, CountNat DEF AgeInv, QInv
    <2>5. \A a \in Waiting' \cup Sent' : ~Own(a)' /\ a.event <= events'.count
      BY <2>1, <2>2, <2>3, <2>4 DEF Own
    <2>6. \A i \in DOMAIN disk'.pending : disk'.pending[i].event <= events'.start
      BY <2>1 DEF QInv, Queues, Sound
    <2> QED BY <2>5, <2>6 DEF AgeInv
  <1> QED BY <1>1, <1>2

(* Only a new page, its hydration and an event put something new among what *)
(* waits and is sent.                                                       *)
LEMMA LiveStep ==
    ASSUME QInv, MirrorInv, [Next]_vars
    PROVE  \/ NothingNew
           \/ Hydrate \/ Reload
           \/ \E slot \in Slots : EnqueueSnapshot(slot)
           \/ EnqueueViolation
  <1>1. ASSUME UNCHANGED <<state, drain, stray, server, events, localCounter, hydrated>>,
               ~hydrated => disk' = disk
        PROVE  NothingNew
    <2>1. Waiting' = Waiting /\ Sent' = Sent
      BY <1>1 DEF Waiting, Sent, Stored
    <2> QED BY <1>1, <2>1 DEF NothingNew
  <1>2. ASSUME state.pending # <<>>, Send(state), hydrated,
               UNCHANGED <<state, stray, server, events, localCounter, hydrated>>
        PROVE  NothingNew
    <2>1. drain'.action \in Waiting
      BY <1>2, SendsHead DEF Waiting
    <2>2. Waiting' = Waiting /\ Sent' \subseteq Waiting \cup Sent
      BY <1>2, <2>1 DEF Waiting, Sent, Stored
    <2> QED BY <1>2, <2>2 DEF NothingNew
  <1>3. ASSUME TimerFires \/ Poll PROVE NothingNew
    <2>1. hydrated
      BY <1>3 DEF TimerFires, Poll, MirrorInv
    <2> QED BY <1>1, <1>2, <1>3, <2>1 DEF TimerFires, Poll, CanDrain
  <1>4. ASSUME NEW q, state' = q, Waiting' \subseteq Waiting, hydrated,
               drain'.pc # "sending", stray' \subseteq Sent,
               UNCHANGED <<server, events, localCounter, hydrated>>
        PROVE  NothingNew
    <2>1. Sent' \subseteq Sent
      BY <1>4 DEF Sent, Stored
    <2> QED BY <1>4, <2>1 DEF NothingNew
  <1>5. ASSUME PostSucceeds PROVE NothingNew
    <2> DEFINE q == [pending |-> Shift(state.pending), attempts |-> Shift(state.attempts)]
    <2>1. \A i \in DOMAIN q.pending : \E j \in DOMAIN state.pending :
             q.pending[i] = state.pending[j]
      BY CountNat, ShiftSound DEF QInv, Queues
    <2>2. state' = q
      BY <1>5 DEF PostSucceeds
    <2> HIDE DEF q
    <2>3. Waiting' \subseteq Waiting
      BY <2>1, <2>2 DEF Waiting
    <2>4. hydrated /\ drain'.pc # "sending" /\ stray' \subseteq Sent
      BY <1>5 DEF PostSucceeds, NoPost, MirrorInv, Sent
    <2> QED BY <1>4, <1>5, <2>2, <2>3, <2>4 DEF PostSucceeds
  <1>6. ASSUME PostFails \/ PostRefused PROVE NothingNew
    <2>1. state' = [state EXCEPT !.attempts = SetFirst(state.attempts, Tried(drain.tries))]
      BY <1>6 DEF PostFails, PostRefused
    <2>2. state'.pending = state.pending
      BY <2>1 DEF QInv, Queues, Sound, QueueState
    <2>3. Waiting' = Waiting
      BY <2>2 DEF Waiting
    <2>4. hydrated /\ drain'.pc # "sending" /\ stray' \subseteq Sent
      BY <1>6 DEF PostFails, PostRefused, NoPost, MirrorInv, Sent, Unsettled
    <2> QED BY <1>4, <1>6, <2>3, <2>4 DEF PostFails, PostRefused
  <1>7. ASSUME PostUnauthorized PROVE NothingNew
    <2>1. hydrated /\ drain'.pc # "sending" /\ stray' \subseteq Sent /\ Waiting' = Waiting
      BY <1>7 DEF PostUnauthorized, NoPost, MirrorInv, Sent, Waiting
    <2> QED BY <1>4, <1>7, <2>1 DEF PostUnauthorized
  <1>8. ASSUME SaveDone PROVE NothingNew
    <2>1. hydrated /\ UNCHANGED <<state, stray, server, events, localCounter, hydrated>>
      BY <1>8 DEF SaveDone
    <2>2. CASE UNCHANGED drain
      BY <1>1, <2>1, <2>2
    <2>3. CASE state.pending # <<>> /\ Send(state)
      BY <1>2, <2>1, <2>3
    <2>4. CASE drain' = NoPost
      <3>1. drain'.pc # "sending" /\ stray' \subseteq Sent /\ Waiting' = Waiting
        BY <2>1, <2>4 DEF NoPost, Sent, Waiting
      <3> QED BY <1>4, <2>1, <3>1
    <2> QED BY <1>8, <2>2, <2>3, <2>4 DEF SaveDone, Continue
  <1>9. ASSUME SubmitSucceeds PROVE NothingNew
    <2>1. Waiting' = {} /\ Sent' = Sent
      BY <1>9 DEF SubmitSucceeds, Waiting, Empty, Sent, Stored
    <2> QED BY <1>9, <2>1 DEF SubmitSucceeds, NothingNew
  <1>10. ASSUME Execute PROVE NothingNew
    <2>1. /\ drain.pc = "sending" /\ drain.action \in Sent /\ server' = Store(drain.action)
          /\ drain'.action = drain.action /\ stray' = stray
          /\ UNCHANGED <<events, localCounter, hydrated, state, disk>>
      BY <1>10 DEF Execute, Sent, QInv, Draining
    <2> QED BY <2>1, StoresNothingNew
  <1>11. ASSUME NEW a \in stray, ExecuteStray(a) PROVE NothingNew
    <2>1. /\ a \in Sent /\ server' = Store(a) /\ stray' \subseteq stray /\ drain' = drain
          /\ UNCHANGED <<events, localCounter, hydrated, state, disk>>
      BY <1>11 DEF ExecuteStray, memory, Sent
    <2> QED BY <2>1, StoresNothingNew
  <1>12. ASSUME SubmitExecutes PROVE NothingNew
    <2>1. /\ server'.seq = server.seq /\ server'.edit = server.edit
          /\ UNCHANGED <<state, drain, stray, events, localCounter, hydrated, disk>>
      BY <1>12 DEF SubmitExecutes, memory, QInv, Around
    <2>2. Waiting' = Waiting /\ Sent' = Sent
      BY <2>1 DEF Waiting, Sent, Stored
    <2> QED BY <2>1, <2>2 DEF NothingNew
  <1>13. ASSUME SubmitBegins \/ SubmitFails
                \/ (\E result \in {"drained", "timed_out"} : WaitEnds(result)) PROVE NothingNew
    BY <1>1, <1>13 DEF SubmitBegins, SubmitFails, WaitEnds
  <1>14. CASE UNCHANGED vars
    BY <1>1, <1>14 DEF vars, memory
  <1> QED BY <1>3, <1>5, <1>6, <1>7, <1>8, <1>9, <1>10, <1>11, <1>12, <1>13, <1>14
          DEF Next, Page, Answer

LEMMA AgeStep ==
    ASSUME QInv, QInv', MirrorInv, AgeInv, [Next]_vars
    PROVE  AgeInv'
  BY LiveStep, AgeKept, AgeEnqueue, AgeNone DEF EnqueueSnapshot, EnqueueViolation

(* Storing one of the page's own actions replaces nothing later. *)
LEMMA StoresForward ==
    ASSUME QInv, AgeInv, NEW a \in Sent, server' = Store(a), NEW k \in Slots,
           server'.edit[k] > events.start
    PROVE  server'.edit[k] >= server.edit[k]
  <1>1. /\ Stored(k) \in Sent /\ Stored(k).slot = k
        /\ Stored(k).seq = server.seq[k] /\ Stored(k).event = server.edit[k]
        /\ Stored(k)'.event = server'.edit[k]
    BY DEF Sent, Stored
  <1>2. /\ a.seq \in Nat /\ a.event \in Nat /\ events.start \in Nat
        /\ server.seq[k] \in Nat /\ server.edit[k] \in Nat
    BY LiveActions, CountNat DEF QInv, Around
  <1>3. CASE Stored(k)' = Stored(k)
    <2>1. server'.edit[k] = server.edit[k]
      BY <1>1, <1>3
    <2> QED BY <1>2, <2>1
  <1>4. CASE Stored(k)' = a /\ a.slot = k /\ a.seq > server.seq[k]
    <2>1. server'.edit[k] = a.event
      BY <1>1, <1>4
    <2>2. CASE Own(Stored(k))
      <3>1. Own(a) /\ Stored(k).seq <= a.seq
        BY <1>1, <1>2, <1>4, <2>1 DEF Own
      <3>2. Stored(k).event <= a.event
        BY <1>1, <2>2, <3>1 DEF AgeInv
      <3> QED BY <1>1, <1>2, <2>1, <3>2
    <2>3. CASE ~Own(Stored(k))
      BY <1>1, <1>2, <2>1, <2>3 DEF Own
    <2> QED BY <2>2, <2>3
  <1> QED BY <1>3, <1>4, StoredFrom

(* The stored snapshots change only by what was sent.                       *)
LEMMA ServerMoves ==
    ASSUME QInv, [Next]_vars
    PROVE  server'.edit = server.edit \/ \E a \in Sent : server' = Store(a)
  <1>1. CASE Execute
    BY <1>1 DEF Execute, Sent
  <1>2. ASSUME NEW a \in stray, ExecuteStray(a) PROVE \E b \in Sent : server' = Store(b)
    BY <1>2 DEF ExecuteStray, Sent
  <1>3. ASSUME SubmitExecutes PROVE server'.edit = server.edit
    BY <1>3 DEF SubmitExecutes, QInv, Around
  <1>4. ASSUME NEW slot \in Slots \cup {None}, Enqueue(slot) PROVE server' = server
    BY <1>4 DEF Enqueue
  <1>5. ASSUME Hydrate \/ TimerFires \/ SaveDone \/ Poll \/ PostSucceeds \/ PostFails
               \/ PostRefused \/ PostUnauthorized \/ SubmitBegins \/ SubmitSucceeds
               \/ SubmitFails \/ Reload
               \/ (\E result \in {"drained", "timed_out"} : WaitEnds(result))
        PROVE server' = server
    BY <1>5 DEF Hydrate, TimerFires, SaveDone, Poll, PostSucceeds, PostFails, PostRefused,
                PostUnauthorized, SubmitBegins, SubmitSucceeds, SubmitFails, Reload, WaitEnds
  <1>6. CASE UNCHANGED vars
    BY <1>6 DEF vars
  <1> QED BY <1>1, <1>2, <1>3, <1>4, <1>5, <1>6
          DEF Next, Page, Answer, EnqueueViolation, EnqueueSnapshot

LEMMA ServerStep ==
    ASSUME QInv, AgeInv, [Next]_vars, NEW k \in Slots, server'.edit[k] > events.start
    PROVE  server'.edit[k] >= server.edit[k]
  <1>1. CASE server'.edit = server.edit
    <2>1. server.edit[k] \in Nat
      BY DEF QInv, Around
    <2> QED BY <1>1, <2>1
  <1>2. ASSUME NEW a \in Sent, server' = Store(a) PROVE server'.edit[k] >= server.edit[k]
    BY <1>2, StoresForward
  <1> QED BY <1>1, <1>2, ServerMoves

(* However posts are lost, repeated or run long after the page gave up on   *)
(* them, an edit of the page never replaces a later one at the server.      *)
THEOREM ServerNeverGoesBackHolds == Spec => ServerNeverGoesBack
  <1> DEFINE Forward == \A k \in Slots :
                server'.edit[k] > events.start => server'.edit[k] >= server.edit[k]
  <1>1. Init => MirrorInv /\ AgeInv
    <2> SUFFICES ASSUME Init PROVE MirrorInv /\ AgeInv
      OBVIOUS
    <2>1. MirrorInv
      BY DEF Init, MirrorInv, NoPost
    <2>2. Waiting = {} /\ \A a \in Sent : a.event = 0 /\ a.seq = 0
      BY DEF Init, Waiting, Sent, Stored, Empty, NoPost
    <2>3. events.count = 0 /\ events.start = 0 /\ localCounter = 0 /\ DOMAIN disk.pending = {}
      BY DEF Init, Empty
    <2> QED BY <2>1, <2>2, <2>3 DEF AgeInv, Own
  <1>2. QInv /\ QInv' /\ MirrorInv /\ AgeInv /\ [Next]_vars => MirrorInv' /\ AgeInv'
    BY MirrorStep, AgeStep
  <1>3. QInv /\ AgeInv /\ [Next]_vars => [Forward]_vars
    BY ServerStep
  <1> QED BY <1>1, <1>2, <1>3, QInvInit, QInvStep, PTL DEF Spec, ServerNeverGoesBack

-----------------------------------------------------------------------------
(* What it takes for "drained" to mean delivered *)

(* Events wait for hydrate, and a reload finds every write done and, on     *)
(* disk, the action numbered last.                                          *)
Orderly ==
    /\ events'.count # events.count => hydrated
    /\ events'.reloads # events.reloads
          => saves = <<>> /\ (hydrated => Highest(disk.pending) = localCounter)

(* No slot is edited while its previous edit is on its way.                 *)
NotOvertaken ==
    \A k \in Slots : EnqueueSnapshot(k) => ~Overtakes(k)

(* Then action_seq counts the events, across reloads.                       *)
SeqInv ==
    /\ ~events.early
    /\ events.count = IF hydrated THEN localCounter ELSE Highest(disk.pending)
    /\ \A a \in Waiting \cup Sent : a.seq = a.event
    /\ ~hydrated => \A i \in DOMAIN disk.pending : disk.pending[i].seq = disk.pending[i].event

Stands(k) == server.edit[k] >= events.last[k]

Queued == IF hydrated THEN state.pending ELSE disk.pending

Waits(k) == \E i \in DOMAIN Queued : Queued[i].slot = k /\ Queued[i].event = events.last[k]

(* What is sent is the head of what waits, and the last edit of a slot is   *)
(* stored or waits.                                                         *)
DeliveryInv ==
    submit # "done" =>
       /\ drain.pc = "sending" => state.pending # <<>> /\ state.pending[1] = drain.action
       /\ \A k \in Slots : Stands(k) \/ Waits(k)

LEMMA EnqueueCounts ==
    ASSUME QInv, NEW slot \in Slots \cup {None}, Enqueue(slot)
    PROVE  events'.count # events.count
  BY DEF Enqueue, QInv, Around

(* An orderly reload finds on disk what the page held. *)
LEMMA ReloadFinds ==
    ASSUME QInv, MirrorInv, ~events.early, Reload, Orderly
    PROVE  /\ ~hydrated' /\ state' = Empty /\ drain' = NoPost /\ submit # "done"
           /\ disk' = disk /\ (hydrated => disk = state /\ Highest(disk.pending) = localCounter)
           /\ Queued' = Queued /\ Sent' \subseteq Sent /\ UNCHANGED server
           /\ UNCHANGED <<events.count, events.last>> /\ ~events'.early
  <1>1. events'.reloads # events.reloads
    BY DEF Reload, QInv, Around
  <1>2. saves = <<>> /\ (hydrated => Highest(disk.pending) = localCounter)
    BY <1>1 DEF Orderly
  <1>3. disk' = disk
    <2>1. Len(saves) = 0
      BY <1>2
    <2>2. PICK n \in 0..Len(saves) : disk' = IF n = 0 THEN disk ELSE saves[n].value
      BY DEF Reload
    <2> QED BY <2>1, <2>2
  <1>4. hydrated => disk = state
    BY <1>2 DEF MirrorInv
  <1>5. /\ ~hydrated' /\ state' = Empty /\ drain' = NoPost /\ submit # "done"
        /\ stray' = stray \cup Unsettled /\ UNCHANGED server
    BY DEF Reload
  <1>6. Sent' \subseteq Sent
    BY <1>5 DEF Sent, Stored, Unsettled, NoPost
  <1>7. /\ events'.count = events.count /\ events'.last = events.last /\ ~events'.early
    BY DEF Reload, QInv, Around
  <1>8. Queued' = Queued
    BY <1>3, <1>4, <1>5 DEF Queued
  <1> QED BY <1>2, <1>3, <1>4, <1>5, <1>6, <1>7, <1>8

(* The server keeps the newer edit. *)
LEMMA StoresNewest ==
    ASSUME QInv, SeqInv, NEW a \in Sent, server' = Store(a), NEW k \in Slots
    PROVE  server'.edit[k] >= server.edit[k] /\ (a.slot = k => server'.edit[k] >= a.event)
  <1>1. /\ Stored(k) \in Sent /\ Stored(k).seq = server.seq[k] /\ Stored(k).event = server.edit[k]
        /\ Stored(k)'.event = server'.edit[k]
    BY DEF Sent, Stored
  <1>2. /\ a.seq \in Nat /\ a.event \in Nat /\ server.seq[k] \in Nat /\ server.edit[k] \in Nat
        /\ a.seq = a.event /\ server.seq[k] = server.edit[k]
    BY <1>1, LiveActions DEF QInv, Around, SeqInv
  <1>3. CASE Stored(k)' = Stored(k) /\ ~(a.slot = k /\ a.seq > server.seq[k])
    <2>1. server'.edit[k] = server.edit[k]
      BY <1>1, <1>3
    <2> QED BY <1>2, <1>3, <2>1
  <1>4. CASE a.slot = k /\ a.seq > server.seq[k]
    <2>1. a.slot # None /\ Store(a) = [server EXCEPT !.seq[k] = a.seq, !.edit[k] = a.event]
      BY <1>4 DEF Store
    <2>2. server'.edit[k] = a.event
      BY <2>1 DEF QInv, Around
    <2> QED BY <1>2, <1>4, <2>2
  <1> QED BY <1>3, <1>4, StoredFrom

LEMMA SeqEnqueue ==
    ASSUME QInv, SeqInv, NEW slot \in Slots \cup {None}, Enqueue(slot), hydrated
    PROVE  SeqInv'
  <1> DEFINE c == events.count
             n == localCounter
             a == [slot |-> slot, seq |-> n + 1, event |-> c + 1]
             q == Appended(state, a)
  <1>1. c \in Nat /\ n \in Nat /\ Sound(state, c) /\ Within(state, n)
    BY CountNat DEF QInv, Queues
  <1>2. a \in Action /\ a.seq = n + 1 /\ a.event = c + 1 /\ n = c
    BY <1>1 DEF Action, SeqInv
  <1>3. /\ state' = q /\ localCounter' = n + 1 /\ events'.count = a.event
        /\ UNCHANGED <<hydrated, drain, stray, server>> /\ ~events'.early
    BY DEF Enqueue, QInv, Around, SeqInv
  <1>4. Sent' = Sent
    BY <1>3 DEF Sent, Stored
  <1> HIDE DEF a
  <1>5. Waiting' \subseteq Waiting \cup {a}
    <2>1. \A i \in DOMAIN q.pending :
             q.pending[i] = a \/ \E j \in DOMAIN state.pending : q.pending[i] = state.pending[j]
      BY <1>1, <1>2, AppendSound
    <2> HIDE DEF q
    <2> QED BY <1>3, <2>1 DEF Waiting
  <1> HIDE DEF q, c, n
  <1>6. \A b \in Waiting' \cup Sent' : b.seq = b.event
    BY <1>2, <1>4, <1>5 DEF SeqInv
  <1> QED BY <1>2, <1>3, <1>6 DEF SeqInv

LEMMA SeqStep ==
    ASSUME QInv, MirrorInv, SeqInv, [Next /\ Orderly]_vars
    PROVE  SeqInv'
  <1>1. CASE NothingNew
    BY <1>1 DEF NothingNew, SeqInv
  <1>2. CASE Hydrate
    <2>1. /\ state' = disk /\ localCounter' = Highest(disk.pending) /\ ~hydrated /\ hydrated'
          /\ UNCHANGED <<drain, stray, server, events>>
      BY <1>2 DEF Hydrate
    <2>2. Sent' = Sent /\ \A a \in Waiting' : a.seq = a.event
      BY <2>1 DEF Waiting, Sent, Stored, SeqInv
    <2> QED BY <2>1, <2>2 DEF SeqInv
  <1>3. ASSUME NEW slot \in Slots \cup {None}, Enqueue(slot) PROVE SeqInv'
    <2>1. events'.count # events.count
      BY <1>3, EnqueueCounts
    <2>2. hydrated
      BY <2>1 DEF Orderly, vars
    <2> QED BY <1>3, <2>2, SeqEnqueue
  <1>4. CASE Reload
    <2>1. Orderly
      <3>1. events.reloads \in Nat /\ events'.reloads = events.reloads + 1
        BY <1>4 DEF Reload, QInv, Around
      <3>2. events' # events
        BY <3>1
      <3> QED BY <3>2 DEF vars
    <2>2. Waiting' = {}
      BY <1>4 DEF Reload, Waiting, Empty
    <2>3. ~hydrated => \A i \in DOMAIN disk.pending : disk.pending[i].seq = disk.pending[i].event
      BY DEF SeqInv
    <2>4. hydrated => \A i \in DOMAIN state.pending : state.pending[i].seq = state.pending[i].event
      BY DEF SeqInv, Waiting
    <2> QED BY <1>4, <2>1, <2>2, <2>3, <2>4, ReloadFinds DEF SeqInv
  <1> QED BY <1>1, <1>2, <1>3, <1>4, LiveStep DEF EnqueueSnapshot, EnqueueViolation

LEMMA SeqInit == Init => SeqInv
  <1> SUFFICES ASSUME Init PROVE SeqInv
    OBVIOUS
  <1>1. Waiting = {} /\ \A a \in Sent : a.event = 0 /\ a.seq = 0
    BY DEF Init, Waiting, Sent, Stored, Empty, NoPost
  <1>2. Highest(disk.pending) = 0 /\ DOMAIN disk.pending = {}
    BY DEF Init, Empty, Highest
  <1> QED BY <1>1, <1>2 DEF Init, SeqInv

LEMMA LastNat ==
    ASSUME QInv, NEW k \in Slots
    PROVE  server.edit[k] \in Nat /\ events.last[k] \in Nat
  BY DEF QInv, Around

(* What the server has executed of this page is stored, or newer.           *)
ExecutedInv == (drain.executed => drain.pc = "sending") /\ ExecutedIsStored

LEMMA ExecutedStep ==
    ASSUME QInv, QInv', SeqInv, ExecutedInv, [Next]_vars
    PROVE  ExecutedInv'
  <1>1. ASSUME NEW k \in Slots PROVE server'.edit[k] >= server.edit[k]
    <2>1. CASE server'.edit = server.edit
      BY <2>1, LastNat
    <2>2. ASSUME NEW a \in Sent, server' = Store(a) PROVE server'.edit[k] >= server.edit[k]
      BY <2>2, StoresNewest
    <2> QED BY <2>1, <2>2, ServerMoves
  <1>2. CASE UNCHANGED drain
    <2> SUFFICES ASSUME drain.executed, drain.action.slot # None
                 PROVE  server'.edit[drain.action.slot] >= drain.action.event
      BY <1>2 DEF ExecutedInv, ExecutedIsStored
    <2> DEFINE k == drain.action.slot
    <2>1. drain.action \in Action /\ k \in Slots /\ drain.action.event \in Nat
      BY DEF ExecutedInv, QInv, Draining, Action
    <2>2. server.edit[k] >= drain.action.event
      BY DEF ExecutedInv, ExecutedIsStored
    <2>3. server.edit[k] \in Nat /\ server'.edit[k] \in Nat
      BY <2>1 DEF QInv, Around
    <2> QED BY <1>1, <2>1, <2>2, <2>3
  <1>3. CASE Send(state) \/ drain' = NoPost \/ drain' = [NoPost EXCEPT !.pc = "saving"]
    BY <1>3 DEF Send, NoPost, ExecutedInv, ExecutedIsStored
  <1>4. CASE Execute
    <2>1. /\ drain.pc = "sending" /\ drain.action \in Sent /\ drain.action \in Action
          /\ server' = Store(drain.action)
          /\ drain'.action = drain.action /\ drain'.pc = "sending"
      BY <1>4 DEF Execute, Sent, QInv, Draining
    <2>2. drain.action.slot # None => drain.action.slot \in Slots
      BY <2>1 DEF Action
    <2> QED BY <2>1, <2>2, StoresNewest DEF ExecutedInv, ExecutedIsStored
  <1> QED BY <1>2, <1>3, <1>4, DrainMoves
          DEF PostUnauthorized, PostSucceeds, PostFails, PostRefused, Reload

(* "The highest action_seq wins" is true to the order of the edits until a  *)
(* reload loses a write or finds the action numbered last already posted,   *)
(* or the page is edited before hydrate: up to then an edit whose post the  *)
(* server has executed is stored, or a later one is.  (hydrate numbers on   *)
(* from what the queue still holds)                                         *)
THEOREM ExecutedIsStoredInOrder ==
    Spec /\ [][Orderly]_vars => []ExecutedIsStored
  <1>1. Init => MirrorInv /\ ExecutedInv
    BY DEF Init, MirrorInv, NoPost, ExecutedInv, ExecutedIsStored
  <1>2. QInv /\ MirrorInv /\ SeqInv /\ [Next]_vars /\ [Orderly]_vars => SeqInv'
    BY SeqStep
  <1>3. QInv /\ MirrorInv /\ [Next]_vars => MirrorInv'
    BY MirrorStep
  <1>4. QInv /\ QInv' /\ SeqInv /\ ExecutedInv /\ [Next]_vars => ExecutedInv'
    BY ExecutedStep
  <1>5. ExecutedInv => ExecutedIsStored
    BY DEF ExecutedInv
  <1> QED BY <1>1, <1>2, <1>3, <1>4, <1>5, SeqInit, QInvInit, QInvStep, PTL DEF Spec

-----------------------------------------------------------------------------
(* The steps that leave what waits, what is stored and the loop's action.   *)
LEMMA DeliveryQuiet ==
    ASSUME DeliveryInv, state'.pending = state.pending, server'.edit = server.edit,
           events' = events, UNCHANGED hydrated, hydrated \/ UNCHANGED disk,
           drain'.pc = "sending" => drain.pc = "sending" /\ drain'.action = drain.action,
           submit' # "done" => submit # "done"
    PROVE  DeliveryInv'
  <1>1. Queued' = Queued
    BY DEF Queued
  <1> QED BY <1>1 DEF DeliveryInv, Stands, Waits

LEMMA DeliveryStores ==
    ASSUME QInv, QInv', SeqInv, DeliveryInv, NEW a \in Sent, server' = Store(a),
           UNCHANGED <<state, events, submit, hydrated, disk>>,
           drain'.pc = "sending" => drain.pc = "sending" /\ drain'.action = drain.action
    PROVE  DeliveryInv'
  <1>1. ASSUME NEW k \in Slots, Stands(k) PROVE Stands(k)'
    <2>1. server'.edit[k] >= server.edit[k]
      BY StoresNewest
    <2> QED BY <1>1, <2>1, LastNat, QInv' DEF Stands, QInv, Around
  <1>2. Queued' = Queued
    BY DEF Queued
  <1> QED BY <1>1, <1>2 DEF DeliveryInv, Waits

LEMMA DeliveryEnqueue ==
    ASSUME QInv, DeliveryInv, NEW slot \in Slots \cup {None}, Enqueue(slot), hydrated,
           ~Overtakes(slot)
    PROVE  DeliveryInv'
  <1> DEFINE c == events.count
             a == [slot |-> slot, seq |-> localCounter + 1, event |-> c + 1]
             p == state.pending
             r == Appended(state, a).pending
  <1>1. c \in Nat /\ localCounter \in Nat /\ Sound(state, c)
    BY CountNat DEF QInv, Queues
  <1>2. a \in Action /\ a.slot = slot /\ a.event = c + 1
    BY <1>1 DEF Action
  <1>3. /\ state'.pending = r /\ UNCHANGED <<drain, submit, server>>
        /\ Queued = p /\ Queued' = r
        /\ \A k \in Slots : events'.last[k] = IF k = slot THEN a.event ELSE events.last[k]
    BY DEF Enqueue, QInv, Around, Queued
  <1>4. /\ \E i \in DOMAIN r : r[i] = a
        /\ \A j \in DOMAIN p : p[j].slot # a.slot => \E i \in DOMAIN r : r[i] = p[j]
        /\ p # <<>> /\ (p[1].slot = None \/ p[1].slot # a.slot) => r # <<>> /\ r[1] = p[1]
    <2> HIDE DEF a, c
    <2> QED BY <1>1, <1>2, AppendKeeps
  <1> HIDE DEF a, c, r
  <1> SUFFICES ASSUME submit # "done" PROVE DeliveryInv'
    BY <1>3 DEF DeliveryInv
  <1>5. drain.pc = "sending" => r # <<>> /\ r[1] = drain.action
    BY <1>2, <1>4 DEF DeliveryInv, Overtakes
  <1>6. ASSUME NEW k \in Slots PROVE Stands(k)' \/ Waits(k)'
    <2>1. CASE k = slot
      <3>1. PICK i \in DOMAIN r : r[i] = a
        BY <1>4
      <3> QED BY <1>2, <1>3, <2>1, <3>1 DEF Waits
    <2>2. CASE k # slot /\ Stands(k)
      BY <1>3, <2>2 DEF Stands
    <2>3. CASE k # slot /\ Waits(k)
      <3>1. PICK j \in DOMAIN p : p[j].slot = k /\ p[j].event = events.last[k]
        BY <1>3, <2>3 DEF Waits
      <3>2. PICK i \in DOMAIN r : r[i] = p[j]
        BY <1>2, <1>4, <2>3, <3>1
      <3> QED BY <1>3, <2>3, <3>1, <3>2 DEF Waits
    <2> QED BY <2>1, <2>2, <2>3 DEF DeliveryInv
  <1> QED BY <1>3, <1>5, <1>6 DEF DeliveryInv

(* What is shifted away is what was posted, and that is stored.             *)
LEMMA DeliveryShift ==
    ASSUME QInv, MirrorInv, ExecutedIsStored, DeliveryInv, PostSucceeds
    PROVE  DeliveryInv'
  <1> DEFINE p == state.pending
             s == Shift(p)
  <1>1. /\ state'.pending = s /\ drain'.pc # "sending" /\ UNCHANGED <<server, events, submit>>
        /\ drain.pc = "sending" /\ drain.executed /\ Queued = p /\ Queued' = s
    BY DEF PostSucceeds, NoPost, MirrorInv, Queued
  <1> SUFFICES ASSUME submit # "done", NEW k \in Slots, Waits(k), ~Stands(k)
               PROVE  Waits(k)'
    BY <1>1 DEF DeliveryInv, Stands
  <1>2. p \in Seq(Action) /\ p # <<>> /\ p[1] = drain.action
    BY <1>1 DEF DeliveryInv, QInv, Queues, Sound, QueueState
  <1>3. PICK i \in DOMAIN p : p[i].slot = k /\ p[i].event = events.last[k]
    BY <1>1 DEF Waits
  <1>4. i # 1
    BY <1>1, <1>2, <1>3 DEF ExecutedIsStored, Stands
  <1>5. i - 1 \in DOMAIN s /\ s[i - 1] = p[i]
    BY <1>2, <1>3, <1>4 DEF Shift
  <1> HIDE DEF s
  <1> QED BY <1>1, <1>3, <1>5 DEF Waits

LEMMA DeliveryStep ==
    ASSUME QInv, QInv', MirrorInv, SeqInv, ExecutedIsStored, DeliveryInv,
           [Next /\ Orderly /\ NotOvertaken]_vars
    PROVE  DeliveryInv'
  <1>1. ASSUME TimerFires \/ Poll \/ SaveDone PROVE DeliveryInv'
    <2>1. UNCHANGED <<state, server, events, submit, hydrated>> /\ (hydrated \/ UNCHANGED disk)
      BY <1>1 DEF TimerFires, Poll, SaveDone
    <2>2. CASE UNCHANGED drain \/ drain' = NoPost
      BY <2>1, <2>2, DeliveryQuiet DEF NoPost
    <2>3. CASE state.pending # <<>> /\ Send(state)
      <3>1. Queued' = Queued
        BY <2>1 DEF Queued
      <3> QED BY <2>1, <2>3, <3>1, SendsHead DEF DeliveryInv, Stands, Waits
    <2> QED BY <1>1, <2>2, <2>3 DEF TimerFires, Poll, SaveDone, Continue, CanDrain
  <1>2. ASSUME Hydrate PROVE DeliveryInv'
    <2>1. drain.pc = "idle" /\ UNCHANGED <<server, events, drain, submit>> /\ Queued' = Queued
      BY <1>2 DEF Hydrate, MirrorInv, Queued
    <2> QED BY <2>1 DEF DeliveryInv, Stands, Waits
  <1>3. ASSUME Execute PROVE DeliveryInv'
    <2>1. /\ drain.pc = "sending" /\ drain.action \in Sent /\ server' = Store(drain.action)
          /\ drain'.action = drain.action
          /\ UNCHANGED <<events, state, submit, hydrated, disk>>
      BY <1>3 DEF Execute, Sent, QInv, Draining
    <2> QED BY <2>1, DeliveryStores
  <1>4. ASSUME NEW a \in stray, ExecuteStray(a) PROVE DeliveryInv'
    <2>1. a \in Sent /\ server' = Store(a) /\ UNCHANGED <<events, state, submit, drain, hydrated, disk>>
      BY <1>4 DEF ExecuteStray, memory, Sent
    <2> QED BY <2>1, DeliveryStores
  <1>5. ASSUME PostFails \/ PostRefused PROVE DeliveryInv'
    <2>1. /\ state'.pending = state.pending /\ drain'.pc # "sending"
          /\ UNCHANGED <<server, events, submit, hydrated, disk>>
      BY <1>5 DEF PostFails, PostRefused, NoPost, QInv, Queues, Sound, QueueState
    <2> QED BY <2>1, DeliveryQuiet
  <1>6. ASSUME PostUnauthorized PROVE DeliveryInv'
    <2>1. drain'.pc # "sending" /\ UNCHANGED <<state, server, events, submit, hydrated, disk>>
      BY <1>6 DEF PostUnauthorized, NoPost
    <2> QED BY <2>1, DeliveryQuiet
  <1>7. ASSUME EnqueueViolation PROVE DeliveryInv'
    <2>1. Enqueue(None) /\ events'.count # events.count /\ ~Overtakes(None)
      BY <1>7, EnqueueCounts DEF EnqueueViolation, Overtakes
    <2>2. hydrated
      BY <2>1 DEF Orderly, vars
    <2> QED BY <2>1, <2>2, DeliveryEnqueue
  <1>8. ASSUME NEW slot \in Slots, EnqueueSnapshot(slot) PROVE DeliveryInv'
    <2>1. Enqueue(slot) /\ events'.count # events.count
      BY <1>8, EnqueueCounts DEF EnqueueSnapshot
    <2>2. hydrated /\ ~Overtakes(slot)
      BY <1>8, <2>1 DEF Orderly, NotOvertaken, vars
    <2> QED BY <2>1, <2>2, DeliveryEnqueue
  <1>9. ASSUME SubmitBegins \/ SubmitFails
               \/ (\E result \in {"drained", "timed_out"} : WaitEnds(result))
        PROVE  DeliveryInv'
    <2>1. submit # "done" /\ UNCHANGED <<state, server, events, drain, hydrated, disk>>
      BY <1>9 DEF SubmitBegins, SubmitFails, WaitEnds, InputsEnabled
    <2> QED BY <2>1, DeliveryQuiet
  <1>10. ASSUME SubmitExecutes PROVE DeliveryInv'
    <2>1. server'.edit = server.edit /\ UNCHANGED <<state, events, submit, drain, hydrated, disk>>
      BY <1>10 DEF SubmitExecutes, memory, QInv, Around
    <2> QED BY <2>1, DeliveryQuiet
  <1>11. ASSUME SubmitSucceeds PROVE DeliveryInv'
    BY <1>11 DEF SubmitSucceeds, DeliveryInv
  <1>12. ASSUME Reload PROVE DeliveryInv'
    <2>1. Orderly
      <3>1. events.reloads \in Nat /\ events'.reloads = events.reloads + 1
        BY <1>12 DEF Reload, QInv, Around
      <3>2. events' # events
        BY <3>1
      <3> QED BY <3>2 DEF vars
    <2> QED BY <1>12, <2>1, ReloadFinds DEF SeqInv, DeliveryInv, Stands, Waits, NoPost
  <1>13. CASE UNCHANGED vars
    BY <1>13, DeliveryQuiet DEF vars, memory
  <1> QED BY <1>1, <1>2, <1>3, <1>4, <1>5, <1>6, <1>7, <1>8, <1>9, <1>10, <1>11, <1>12, <1>13,
             DeliveryShift
          DEF Next, Page, Answer

LEMMA DeliveryInit == Init => DeliveryInv
  BY DEF Init, DeliveryInv, NoPost, Stands

LEMMA DrainedStep ==
    ASSUME QInv, QInv', MirrorInv, SeqInv, DeliveryInv, DrainedIsDelivered, [Next]_vars
    PROVE  DrainedIsDelivered'
  <1> SUFFICES ASSUME submit' = "drained", NEW k \in Slots PROVE Stands(k)'
    BY DEF DrainedIsDelivered, Stands
  <1>0. server'.edit[k] >= server.edit[k]
    <2>1. CASE server'.edit = server.edit
      BY <2>1, LastNat
    <2>2. ASSUME NEW a \in Sent, server' = Store(a) PROVE server'.edit[k] >= server.edit[k]
      BY <2>2, StoresNewest
    <2> QED BY <2>1, <2>2, ServerMoves
  <1>1. /\ server.edit[k] \in Nat /\ server'.edit[k] \in Nat
        /\ events.last[k] \in Nat
    BY DEF QInv, Around
  <1>2. CASE submit = "drained" /\ events'.last[k] = events.last[k]
    BY <1>0, <1>1, <1>2 DEF DrainedIsDelivered, Stands
  <1>3. ASSUME WaitEnds("drained") PROVE Stands(k)'
    <2>1. submit = "waiting" /\ state.pending = <<>> /\ UNCHANGED <<server, events>>
      BY <1>3 DEF WaitEnds
    <2>2. hydrated /\ ~Waits(k)
      BY <2>1 DEF MirrorInv, Queued, Waits
    <2> QED BY <2>1, <2>2 DEF DeliveryInv, Stands
  <1>4. ASSUME NEW slot \in Slots, EnqueueSnapshot(slot) PROVE FALSE
    BY <1>4 DEF EnqueueSnapshot, InputsEnabled, Enqueue
  <1>5. ASSUME EnqueueViolation
        PROVE  submit = "drained" /\ events'.last[k] = events.last[k]
    BY <1>5 DEF EnqueueViolation, Enqueue, QInv, Around
  <1>6. ASSUME Hydrate \/ TimerFires \/ SaveDone \/ Poll \/ Execute \/ PostSucceeds
               \/ PostRefused \/ PostFails \/ PostUnauthorized \/ SubmitExecutes
               \/ (\E a \in stray : ExecuteStray(a))
        PROVE  submit' = submit /\ events' = events
    BY <1>6 DEF Hydrate, TimerFires, SaveDone, Poll, Execute, PostSucceeds, PostRefused,
                PostFails, PostUnauthorized, SubmitExecutes, ExecuteStray, memory
  <1>7. ASSUME SubmitBegins \/ SubmitSucceeds \/ SubmitFails \/ WaitEnds("timed_out") \/ Reload
        PROVE  FALSE
    BY <1>7 DEF SubmitBegins, SubmitSucceeds, SubmitFails, WaitEnds, Reload
  <1>8. CASE UNCHANGED vars
    BY <1>2, <1>8 DEF vars, memory
  <1> QED BY <1>2, <1>3, <1>4, <1>5, <1>6, <1>7, <1>8 DEF Next, Page, Answer

(* What the run claim_drained refutes, "returns true if drained cleanly",   *)
(* takes one of three things to fail: a slot is edited while its previous   *)
(* edit is on its way, the page is edited before hydrate, or a reload loses *)
(* a write or finds the action numbered last already posted.  Otherwise,    *)
(* however posts are lost, refused, repeated or late and over reloads, the  *)
(* server has every slot's last edit when drainAndWait returns true.        *)
(* (collapseSnapshots drops the head that tryDrainOnce is posting; hydrate  *)
(* numbers on from what the queue still holds)                              *)
THEOREM DrainedIsDeliveredUndisturbed ==
    Spec /\ [][Orderly /\ NotOvertaken]_vars => []DrainedIsDelivered
  <1>1. Init => MirrorInv /\ ExecutedInv /\ DrainedIsDelivered
    BY DEF Init, MirrorInv, NoPost, ExecutedInv, ExecutedIsStored, DrainedIsDelivered
  <1>2. QInv /\ MirrorInv /\ SeqInv /\ [Next]_vars /\ [Orderly /\ NotOvertaken]_vars => SeqInv'
    BY SeqStep
  <1>3. QInv /\ MirrorInv /\ [Next]_vars => MirrorInv'
    BY MirrorStep
  <1>4. QInv /\ QInv' /\ SeqInv /\ ExecutedInv /\ [Next]_vars => ExecutedInv'
    BY ExecutedStep
  <1>5. QInv /\ QInv' /\ MirrorInv /\ SeqInv /\ ExecutedInv /\ DeliveryInv /\ [Next]_vars
        /\ [Orderly /\ NotOvertaken]_vars => DeliveryInv'
    BY DeliveryStep DEF ExecutedInv
  <1>6. QInv /\ QInv' /\ MirrorInv /\ SeqInv /\ DeliveryInv /\ DrainedIsDelivered /\ [Next]_vars
        => DrainedIsDelivered'
    BY DrainedStep
  <1> QED BY <1>1, <1>2, <1>3, <1>4, <1>5, <1>6, SeqInit, DeliveryInit, QInvInit, QInvStep, PTL
          DEF Spec

-----------------------------------------------------------------------------
(* The history events.disturbed marks the steps that are not orderly or     *)
(* overtake, so that the two invariants above stand until it is set.        *)

(* A step that leaves the history undisturbed is orderly and overtakes none. *)
LEMMA Undisturbed ==
    ASSUME QInv, [Next]_vars, ~events'.disturbed
    PROVE  ~events.disturbed /\ [Next /\ Orderly /\ NotOvertaken]_vars
  <1>1. ASSUME NEW k \in Slots \cup {None}, Enqueue(k)
        PROVE  /\ events'.disturbed = (events.disturbed \/ ~hydrated \/ Overtakes(k))
               /\ events'.reloads = events.reloads
    BY <1>1 DEF Enqueue, QInv, Around
  <1>2. \A k \in Slots : EnqueueSnapshot(k) => ~Overtakes(k)
    BY <1>1 DEF EnqueueSnapshot
  <1>3. NotOvertaken
    BY <1>2 DEF NotOvertaken
  <1>4. CASE events' = events
    BY <1>3, <1>4 DEF Orderly
  <1>5. ASSUME NEW k \in Slots \cup {None}, Enqueue(k) PROVE ~events.disturbed /\ Orderly
    BY <1>1, <1>5 DEF Orderly
  <1>6. CASE Reload
    <2>1. /\ events'.count = events.count
          /\ events'.disturbed = (events.disturbed \/ saves # <<>>
                                  \/ (hydrated /\ Highest(disk.pending) # localCounter))
      BY <1>6 DEF Reload, QInv, Around
    <2>2. ~events.disturbed /\ saves = <<>> /\ (hydrated => Highest(disk.pending) = localCounter)
      BY <2>1
    <2> QED BY <1>3, <2>1, <2>2 DEF Orderly
  <1>7. ASSUME NEW slot \in Slots \cup {None}, Enqueue(slot)
        PROVE  ~events.disturbed /\ [Next /\ Orderly /\ NotOvertaken]_vars
    BY <1>3, <1>5, <1>7
  <1>8. \/ events' = events
        \/ Reload
        \/ \E slot \in Slots \cup {None} : Enqueue(slot)
    BY DEF Next, Page, Answer, Hydrate, TimerFires, SaveDone, Poll, Execute, PostSucceeds,
           PostRefused, PostFails, PostUnauthorized, EnqueueViolation, EnqueueSnapshot,
           SubmitBegins, SubmitExecutes, SubmitSucceeds, SubmitFails, WaitEnds, ExecuteStray,
           vars, memory
  <1> QED BY <1>4, <1>6, <1>7, <1>8

(* What holds until the history is disturbed.                               *)
KeptInv == ~events.disturbed => SeqInv /\ ExecutedInv /\ DeliveryInv

LEMMA KeptStep ==
    ASSUME QInv, QInv', MirrorInv, KeptInv, [Next]_vars
    PROVE  KeptInv'
  <1> SUFFICES ASSUME ~events'.disturbed PROVE SeqInv' /\ ExecutedInv' /\ DeliveryInv'
    BY DEF KeptInv
  <1>1. ~events.disturbed /\ [Next /\ Orderly /\ NotOvertaken]_vars
    BY Undisturbed
  <1>2. SeqInv /\ ExecutedInv /\ DeliveryInv /\ ExecutedIsStored
    BY <1>1 DEF KeptInv, ExecutedInv
  <1>3. [Next /\ Orderly]_vars
    BY <1>1
  <1> QED BY <1>1, <1>2, <1>3, SeqStep, ExecutedStep, DeliveryStep

(* Until a submit is answered, the last edit of every slot is on the server *)
(* or waits in the queue, in memory or on disk, whatever posts, submits and *)
(* reloads fail, repeat or come late; as long as no reload loses a write or *)
(* renumbers, no edit comes before hydrate and none overtakes its post.     *)
THEOREM AnswersKeptHolds == Spec => []AnswersKept
  <1>1. Init => MirrorInv /\ KeptInv
    <2>1. Init => MirrorInv /\ ExecutedInv
      BY DEF Init, MirrorInv, NoPost, ExecutedInv, ExecutedIsStored
    <2> QED BY <2>1, SeqInit, DeliveryInit DEF KeptInv
  <1>2. QInv /\ QInv' /\ MirrorInv /\ KeptInv /\ [Next]_vars => MirrorInv' /\ KeptInv'
    BY MirrorStep, KeptStep
  <1>3. KeptInv => AnswersKept
    BY DEF KeptInv, DeliveryInv, Stands, Waits, Queued, AnswersKept, LastWaits
  <1> QED BY <1>1, <1>2, <1>3, QInvInit, QInvStep, PTL DEF Spec
=============================================================================
