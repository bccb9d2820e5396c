---------------------------- MODULE DisplayProofs ----------------------------
(***************************************************************************)
(* Proofs about the parts that Screens puts together.  The idle watcher: a *)
(* client which holds the user for idle can still find out about activity, *)
(* for any alarms, timeouts and lengths of the event queue, if events are  *)
(* read before the user can become idle again.  Which monitors are on      *)
(* (XrandrSetups), and the panel's brightness as keys step it (PowerParts).*)
(*                                                                         *)
(* What recursive functions compute (the doubled timeouts and the events   *)
(* kept) is shown from the least-number principle, which the provers can   *)
(* use where an induction rule cannot be instantiated.                     *)
(***************************************************************************)
EXTENDS Screens, SequenceTheorems, FiniteSetTheorems, NaturalsInduction,
        WellFoundedInduction, TLAPS

-----------------------------------------------------------------------------
(* Numbers and iteration                                                   *)

\* Numbers below a number are well-founded, so that a set of them has a least
\* one.
Less == {p \in Nat \X Nat : p[1] < p[2]}

LEMMA LeastNumber ==
  ASSUME NEW T \in SUBSET Nat, T # {}
  PROVE  \E n \in T : \A m \in T : n <= m
<1>1. Less = OpToRel(<, Nat)
  BY Zenon DEF OpToRel, Less
<1>2. IsWellFoundedOn(Less, Nat)
  BY <1>1, NatLessThanWellFounded, Zenon
<1>3. PICK x \in T : \A y \in T : <<y, x>> \notin Less
  BY <1>2, WFMin
<1>4. \A y \in T : <<y, x>> \in Nat \X Nat /\ <<y, x>>[1] = y /\ <<y, x>>[2] = x
  OBVIOUS
<1>5. \A y \in T : ~(y < x)
  BY <1>3, <1>4 DEF Less
<1> QED
  BY <1>5

\* A step function can be iterated from any start.
Iteration(f, n, X, start, next) ==
  /\ f \in [0..n -> X] /\ f[0] = start
  /\ \A k \in 1..n : f[k] = next[<<f[k - 1], k>>]

LEMMA Iterated ==
  ASSUME NEW N \in Nat, NEW X, NEW start \in X, NEW next \in [X \X (1..N) -> X]
  PROVE  \E f : Iteration(f, N, X, start, next)
<1> DEFINE Is(f, n) == /\ f \in [0..n -> X] /\ f[0] = start
                       /\ \A k \in 1..n : f[k] = next[<<f[k - 1], k>>]
           T == {n \in 0..N : ~\E f : Is(f, n)}
<1>1. \E f : Is(f, 0)
  <2>1. Is([k \in 0..0 |-> start], 0)
    OBVIOUS
  <2> QED
    BY <2>1
<1>2. ASSUME NEW n \in 1..N, NEW f, Is(f, n - 1)
      PROVE  \E g : Is(g, n)
  <2> DEFINE g == [k \in 0..n |-> IF k = n THEN next[<<f[n - 1], n>>] ELSE f[k]]
  <2>1. /\ n - 1 \in 0..(n - 1) /\ n \in 0..n
        /\ \A k \in 0..n : k # n => k \in 0..(n - 1)
        /\ \A k \in 1..n : k - 1 \in 0..n /\ k - 1 # n /\ (k # n => k \in 1..(n - 1))
    OBVIOUS
  <2>2. next[<<f[n - 1], n>>] \in X
    BY <1>2, <2>1
  <2>3. g \in [0..n -> X]
    BY <1>2, <2>1, <2>2
  <2>4. g[0] = start
    BY <1>2, <2>1
  <2>5. ASSUME NEW k \in 1..n PROVE g[k] = next[<<g[k - 1], k>>]
    <3>1. g[k - 1] = f[k - 1]
      BY <2>1
    <3>2. CASE k = n
      BY <2>1, <3>1, <3>2
    <3>3. CASE k # n
      BY <1>2, <2>1, <3>1, <3>3
    <3> QED
      BY <3>2, <3>3
  <2> HIDE DEF g
  <2> QED
    BY <2>3, <2>4, <2>5
<1>3. T = {}
  <2> SUFFICES ASSUME T # {} PROVE FALSE
    OBVIOUS
  <2>1. PICK n \in T : \A m \in T : n <= m
    <3>1. T \subseteq Nat
      OBVIOUS
    <3> HIDE DEF T
    <3> QED
      BY <3>1, LeastNumber
  <2>2. n \in 0..N /\ ~\E f : Is(f, n)
    OBVIOUS
  <2> HIDE DEF Is
  <2>3. n # 0
    BY <1>1, <2>2
  <2>4. n \in 1..N /\ n - 1 \in 0..N /\ ~(n <= n - 1)
    BY <2>2, <2>3
  <2>5. n - 1 \notin T
    BY <2>1, <2>4
  <2> QED
    BY <1>2, <2>2, <2>4, <2>5
<1>4. \E f : Is(f, N)
  <2>1. N \in 0..N
    OBVIOUS
  <2> HIDE DEF Is
  <2> QED
    BY <1>3, <2>1
<1> QED
  BY <1>4 DEF Iteration

-----------------------------------------------------------------------------
(* The timeouts of idle_adjust_timeout_dim                                 *)

LEMMA MostTurnsNat == MostTurns \in Nat /\ CounterMax \in Nat /\ Margin \in Nat
BY TimesAssumption DEF MostTurns

\* Each turn doubles; after k turns a timeout is larger than k.
LEMMA DoubledIs ==
  ASSUME NEW t \in Nat
  PROVE  /\ Doubled(t) \in [0..MostTurns -> Nat]
         /\ \A k \in 0..MostTurns : Doubled(t)[k] >= t
         /\ t # 0 => \A k \in 0..MostTurns : Doubled(t)[k] > k
<1> DEFINE N == MostTurns
           Eq(D) == D = [k \in 0..N |-> IF k = 0 THEN t ELSE 2 * D[k - 1]]
           next == [p \in Nat \X (1..N) |-> 2 * p[1]]
<1>0. N \in Nat
  BY MostTurnsNat
<1> HIDE DEF N
<1>1. next \in [Nat \X (1..N) -> Nat]
  OBVIOUS
<1>2. PICK f : Iteration(f, N, Nat, t, next)
  <2> HIDE DEF next
  <2> QED
    BY <1>0, <1>1, Iterated
<1>3. Eq(f)
  <2>1. ASSUME NEW k \in 1..N PROVE f[k] = 2 * f[k - 1]
    <3>1. k - 1 \in 0..N
      BY <1>0
    <3>2. <<f[k - 1], k>> \in Nat \X (1..N)
      BY <1>2, <3>1 DEF Iteration
    <3> QED
      BY <1>2, <3>2 DEF Iteration
  <2>2. \A k \in 0..N : f[k] = IF k = 0 THEN t ELSE 2 * f[k - 1]
    BY <1>2, <2>1 DEF Iteration
  <2> QED
    BY <1>2, <2>2 DEF Iteration
<1> DEFINE D == Doubled(t)
<1>4. Eq(D)
  <2>1. D = CHOOSE g : Eq(g)
    BY DEF Doubled, N
  <2> HIDE DEF D, Eq
  <2> QED
    BY <1>3, <2>1
<1> HIDE DEF D
<1>5. /\ DOMAIN D = 0..N /\ D[0] = t
      /\ \A k \in 1..N : D[k] = 2 * D[k - 1]
  BY <1>0, <1>4
<1> DEFINE Good(k) == D[k] \in Nat /\ D[k] >= t /\ (t # 0 => D[k] > k)
           T == {k \in 0..N : ~Good(k)}
<1>6. T = {}
  <2> SUFFICES ASSUME T # {} PROVE FALSE
    OBVIOUS
  <2>1. PICK n \in T : \A m \in T : n <= m
    <3>1. T \subseteq Nat
      OBVIOUS
    <3> HIDE DEF T
    <3> QED
      BY <3>1, LeastNumber
  <2>2. n \in 0..N /\ ~Good(n)
    OBVIOUS
  <2>3. n # 0
    BY <1>5, <2>2
  <2> HIDE DEF T, Good
  <2>4. n \in 1..N /\ n - 1 \in 0..N /\ ~(n <= n - 1)
    BY <1>0, <2>2, <2>3
  <2>5. n - 1 \notin T
    BY <2>1, <2>4
  <2>6. Good(n - 1)
    BY <2>4, <2>5 DEF T
  <2>7. Good(n)
    BY <1>5, <2>4, <2>6 DEF Good
  <2> QED
    BY <2>2, <2>7
<1>7. \A k \in 0..N : Good(k)
  <2> HIDE DEF Good
  <2> QED
    BY <1>6
<1>8. D \in [0..N -> Nat]
  BY <1>4, <1>5, <1>7
<1> QED
  BY <1>7, <1>8 DEF D, N

\* A set of numbers that is not empty has its minimum.
LEMMA MinIs ==
  ASSUME NEW T \in SUBSET Nat, T # {}
  PROVE  Min(T) \in T /\ \A m \in T : Min(T) <= m
<1>1. \E n \in T : \A m \in T : n <= m
  BY LeastNumber
<1> QED
  BY <1>1 DEF Min

LEMMA ShortestIs ==
  ASSUME NEW timeout \in Timeouts, timeout # 0
  PROVE  Shortest \in Nat /\ Shortest > 0 /\ Shortest <= timeout
<1>1. Timeouts \ {0} \in SUBSET Nat /\ timeout \in Timeouts \ {0}
  BY TimesAssumption
<1>2. /\ Min(Timeouts \ {0}) \in Timeouts \ {0}
      /\ Min(Timeouts \ {0}) <= timeout
  BY <1>1, MinIs
<1> QED
  BY <1>1, <1>2 DEF Shortest

\* Doubling passes every idle time: the loop ends with one of its values.
LEMMA AdjustedIs ==
  ASSUME NEW since \in 0..CounterMax, NEW timeout \in Timeouts
  PROVE  /\ Adjusted(since, timeout) \in WaitValues
         /\ Adjusted(since, timeout) \in Nat
         /\ timeout = 0 => Adjusted(since, timeout) = 0
         /\ timeout # 0 => Adjusted(since, timeout) >= timeout
<1> DEFINE D == Doubled(timeout)
           T == {v \in ToSet(D) : v >= since + Margin \/ v >= Cap}
<1>0. timeout \in Nat /\ since \in Nat /\ MostTurns \in Nat /\ since + Margin <= MostTurns
  <2>1. timeout \in Nat
    BY TimesAssumption
  <2>2. CounterMax \in Nat /\ Margin \in Nat /\ MostTurns \in Nat
    BY MostTurnsNat
  <2> QED
    BY <2>1, <2>2 DEF MostTurns
<1>1. /\ D \in [0..MostTurns -> Nat]
      /\ \A k \in 0..MostTurns : D[k] >= timeout
      /\ timeout # 0 => \A k \in 0..MostTurns : D[k] > k
  BY <1>0, DoubledIs
<1>2. CASE timeout = 0
  BY <1>2 DEF Adjusted, WaitValues, NoAlarm
<1>3. CASE timeout # 0
  <2>1. Adjusted(since, timeout) = Min(T)
    BY <1>3 DEF Adjusted
  <2>2. \A v \in ToSet(D) : \E k \in 0..MostTurns : v = D[k]
    <3> HIDE DEF D
    <3> QED
      BY <1>1 DEF ToSet
  <2>3. D[MostTurns] \in T
    <3>1. D[MostTurns] \in ToSet(D) /\ D[MostTurns] > MostTurns /\ D[MostTurns] \in Nat
      <4> HIDE DEF D
      <4> QED
        BY <1>0, <1>1, <1>3 DEF ToSet
    <3> HIDE DEF D
    <3>2. D[MostTurns] >= since + Margin
      BY <1>0, <3>1, TimesAssumption
    <3> QED
      BY <3>1, <3>2
  <2>4. T \in SUBSET Nat
    <3> HIDE DEF D
    <3> QED
      BY <1>1, <2>2
  <2>5. Min(T) \in T
    <3> HIDE DEF T
    <3> QED
      BY <2>3, <2>4, MinIs
  <2>6. PICK k \in 0..MostTurns : Min(T) = D[k]
    <3>1. Min(T) \in ToSet(D)
      BY <2>5
    <3> HIDE DEF T, D
    <3> QED
      BY <2>2, <3>1
  <2>7. D[k] \in WaitValues
    BY DEF WaitValues
  <2> HIDE DEF T, D
  <2> QED
    BY <1>1, <1>3, <2>1, <2>6, <2>7
<1> QED
  BY <1>2, <1>3

-----------------------------------------------------------------------------
(* The queue                                                               *)

Event == [id : Ids \cup {Reset}, value : 0..CounterMax]

\* Filtering keeps the events with these ids, and no others.
LEMMA OnlyIs ==
  ASSUME NEW q \in Seq(Event), NEW ids
  PROVE  /\ Only(q, ids) \in Seq(Event)
         /\ ToSet(Only(q, ids)) = {e \in ToSet(q) : e.id \in ids}
<1> DEFINE N == Len(q)
           Step(kept, n) ==
             IF q[n].id \in ids THEN Append(kept, q[n]) ELSE kept
           Eq(K) == K = [n \in 0..N |-> IF n = 0 THEN <<>>
                                        ELSE IF q[n].id \in ids
                                          THEN Append(K[n - 1], q[n])
                                        ELSE K[n - 1]]
           next == [p \in Seq(Event) \X (1..N) |-> Step(p[1], p[2])]
<1>0. N \in Nat /\ \A n \in 1..N : q[n] \in Event
  OBVIOUS
<1>1. next \in [Seq(Event) \X (1..N) -> Seq(Event)]
  <2>1. \A kept \in Seq(Event) : \A n \in 1..N : Step(kept, n) \in Seq(Event)
    BY <1>0
  <2> HIDE DEF Step, N
  <2> QED
    BY <2>1
<1> HIDE DEF N
<1>2. PICK f : Iteration(f, N, Seq(Event), <<>>, next)
  <2>1. <<>> \in Seq(Event)
    OBVIOUS
  <2> HIDE DEF next
  <2> QED
    BY <1>0, <1>1, <2>1, Iterated
<1>3. Eq(f)
  <2>1. ASSUME NEW n \in 1..N
        PROVE  f[n] = Step(f[n - 1], n)
    <3>1. n - 1 \in 0..N
      BY <1>0
    <3>2. <<f[n - 1], n>> \in Seq(Event) \X (1..N)
      BY <1>2, <3>1 DEF Iteration
    <3>3. f[n] = next[<<f[n - 1], n>>]
      BY <1>2 DEF Iteration
    <3> HIDE DEF Step
    <3> QED
      BY <3>2, <3>3
  <2>2. \A n \in 0..N : f[n] = IF n = 0 THEN <<>>
                               ELSE IF q[n].id \in ids
                                 THEN Append(f[n - 1], q[n])
                               ELSE f[n - 1]
    <3>1. f[0] = <<>> /\ 0..N = {0} \cup 1..N /\ 0 \notin 1..N
      BY <1>0, <1>2 DEF Iteration
    <3>2. \A n \in 1..N : f[n] = IF q[n].id \in ids
                                   THEN Append(f[n - 1], q[n])
                                 ELSE f[n - 1]
      BY <2>1
    <3> QED
      BY <3>1, <3>2
  <2> QED
    BY <1>2, <2>2 DEF Iteration
<1> DEFINE K == CHOOSE g : Eq(g)
<1>4. Eq(K)
  <2> HIDE DEF Eq
  <2> QED
    BY <1>3
<1>4a. Only(q, ids) = K[N]
  BY DEF Only, N
<1> HIDE DEF K
<1>5. /\ DOMAIN K = 0..N /\ K[0] = <<>>
      /\ \A n \in 1..N : K[n] = Step(K[n - 1], n)
  <2>1. 0..N = {0} \cup 1..N /\ 0 \notin 1..N
    BY <1>0
  <2>2. DOMAIN K = 0..N
    BY <1>4
  <2>3. \A n \in 0..N : K[n] = IF n = 0 THEN <<>>
                               ELSE IF q[n].id \in ids
                                 THEN Append(K[n - 1], q[n])
                               ELSE K[n - 1]
    BY <1>4
  <2> QED
    BY <2>1, <2>2, <2>3
<1> DEFINE Kept(n) == {e \in {q[m] : m \in 1..n} : e.id \in ids}
           Good(n) == K[n] \in Seq(Event) /\ ToSet(K[n]) = Kept(n)
           T == {n \in 0..N : ~Good(n)}
<1>6. ASSUME NEW n \in 1..N, Good(n - 1)
      PROVE  Good(n)
  <2>1. {q[m] : m \in 1..n} = {q[m] : m \in 1..(n - 1)} \cup {q[n]}
    BY <1>0
  <2>2. Kept(n) = IF q[n].id \in ids THEN Kept(n - 1) \cup {q[n]}
                  ELSE Kept(n - 1)
    <3> DEFINE A == {q[m] : m \in 1..n}
               B == {q[m] : m \in 1..(n - 1)}
    <3>1. A = B \cup {q[n]}
      BY <2>1
    <3> HIDE DEF A, B
    <3>2. {e \in A : e.id \in ids} =
            IF q[n].id \in ids THEN {e \in B : e.id \in ids} \cup {q[n]}
            ELSE {e \in B : e.id \in ids}
      BY <3>1
    <3> QED
      BY <3>2 DEF A, B
  <2>3. \A s \in Seq(Event) : \A e \in Event :
          Append(s, e) \in Seq(Event) /\ ToSet(Append(s, e)) = ToSet(s) \cup {e}
    <3> SUFFICES ASSUME NEW s \in Seq(Event), NEW e \in Event
                 PROVE  /\ Append(s, e) \in Seq(Event)
                        /\ ToSet(Append(s, e)) = ToSet(s) \cup {e}
      OBVIOUS
    <3>1. /\ Append(s, e) \in Seq(Event) /\ Len(Append(s, e)) = Len(s) + 1
          /\ \A i \in 1..Len(s) : Append(s, e)[i] = s[i]
          /\ Append(s, e)[Len(s) + 1] = e
      BY AppendProperties
    <3>2. DOMAIN s = 1..Len(s) /\ Len(s) \in Nat
          /\ DOMAIN Append(s, e) = 1..(Len(s) + 1)
      BY <3>1
    <3> QED
      BY <3>1, <3>2 DEF ToSet
  <2> HIDE DEF Kept
  <2>4. /\ K[n - 1] \in Seq(Event) /\ ToSet(K[n - 1]) = Kept(n - 1)
        /\ q[n] \in Event
    BY <1>0, <1>6
  <2>5. K[n] = IF q[n].id \in ids THEN Append(K[n - 1], q[n]) ELSE K[n - 1]
    BY <1>5
  <2>6. K[n] \in Seq(Event) /\ ToSet(K[n]) = Kept(n)
    <3>1. CASE q[n].id \in ids
      BY <2>2, <2>3, <2>4, <2>5, <3>1
    <3>2. CASE q[n].id \notin ids
      BY <2>2, <2>4, <2>5, <3>2
    <3> QED
      BY <3>1, <3>2
  <2> QED
    BY <2>6
<1>7. Good(0)
  <2>1. Kept(0) = {}
    OBVIOUS
  <2>2. ToSet(<<>>) = {} /\ <<>> \in Seq(Event)
    BY DEF ToSet
  <2> QED
    BY <1>5, <2>1, <2>2
<1>8. T = {}
  <2> SUFFICES ASSUME T # {} PROVE FALSE
    OBVIOUS
  <2>1. PICK n \in T : \A m \in T : n <= m
    <3>1. T \subseteq Nat
      BY <1>0
    <3> HIDE DEF T
    <3> QED
      BY <3>1, LeastNumber
  <2>2. n \in 0..N /\ ~Good(n)
    OBVIOUS
  <2> HIDE DEF Good
  <2>3. n # 0
    BY <1>7, <2>2
  <2>4. n \in 1..N /\ n - 1 \in 0..N /\ ~(n <= n - 1)
    BY <1>0, <2>2, <2>3
  <2> HIDE DEF T
  <2>5. n - 1 \notin T
    BY <2>1, <2>4
  <2> QED
    BY <1>6, <2>2, <2>4, <2>5 DEF T
<1>9. Good(N)
  <2> HIDE DEF Good
  <2> QED
    BY <1>0, <1>8
<1>10. {q[m] : m \in 1..N} = ToSet(q)
  BY DEF ToSet, N
<1> QED
  BY <1>4a, <1>9, <1>10

\* The events that go out with one change of the counter.
LEMMA OrderIs ==
  ASSUME NEW fired \in SUBSET (Ids \cup {Reset}), NEW order \in SetToSeqs(fired),
         NEW c \in 0..CounterMax, NEW q \in Seq(Event)
  PROVE  LET sent == q \o [n \in DOMAIN order |-> [id |-> order[n], value |-> c]]
         IN /\ sent \in Seq(Event)
            /\ ToSet(sent) = ToSet(q) \cup {[id |-> i, value |-> c] : i \in fired}
<1> DEFINE C == Cardinality(fired)
           new == [n \in DOMAIN order |-> [id |-> order[n], value |-> c]]
<1>1. IsFiniteSet(fired)
  <2>1. IsFiniteSet(Ids \cup {Reset})
    BY IdsAssumption, FS_AddElement
  <2> QED
    BY <2>1, FS_Subset
<1>2. C \in Nat
  BY <1>1, FS_CardinalityType
<1>3. order \in [1..C -> fired] /\ \A i, j \in 1..C : i # j => order[i] # order[j]
  BY DEF SetToSeqs
<1>4. \A i \in fired : \E n \in 1..C : order[n] = i
  <2>1. order \in Injection(1..C, fired)
    BY <1>3 DEF Injection, IsInjective
  <2>2. Cardinality(1..C) = C
    BY <1>2, FS_Interval
  <2>3. order \in Surjection(1..C, fired)
    BY <1>1, <2>1, <2>2, FS_Injection
  <2> QED
    BY <2>3 DEF Surjection
<1>5. fired = {order[n] : n \in 1..C}
  BY <1>3, <1>4
<1>6. /\ new \in Seq(Event) /\ Len(new) = C
      /\ \A n \in 1..C : new[n] = [id |-> order[n], value |-> c]
  <2>1. DOMAIN order = 1..C
    BY <1>3
  <2>2. new \in [1..C -> Event]
    BY <1>3, <2>1 DEF Event
  <2>3. \A n \in 1..C : new[n] = [id |-> order[n], value |-> c]
    BY <2>1
  <2> HIDE DEF new, C
  <2>4. new \in Seq(Event) /\ Len(new) = C
    BY <1>2, <2>2
  <2> QED
    BY <2>3, <2>4
<1>7. ToSet(new) = {[id |-> i, value |-> c] : i \in fired}
  <2> HIDE DEF new, C
  <2>1. DOMAIN new = 1..C
    BY <1>2, <1>6
  <2> QED
    BY <1>5, <1>6, <2>1 DEF ToSet
<1>8. \A s, u \in Seq(Event) :
        s \o u \in Seq(Event) /\ ToSet(s \o u) = ToSet(s) \cup ToSet(u)
  <2> SUFFICES ASSUME NEW s \in Seq(Event), NEW u \in Seq(Event)
               PROVE  /\ s \o u \in Seq(Event)
                      /\ ToSet(s \o u) = ToSet(s) \cup ToSet(u)
    OBVIOUS
  <2> DEFINE l == Len(s)
             m == Len(u)
  <2>1. /\ s \o u \in Seq(Event) /\ Len(s \o u) = l + m
        /\ \A n \in 1..(l + m) :
             (s \o u)[n] = IF n <= l THEN s[n] ELSE u[n - l]
    BY ConcatProperties
  <2>2. l \in Nat /\ m \in Nat /\ DOMAIN s = 1..l /\ DOMAIN u = 1..m
    OBVIOUS
  <2> HIDE DEF l, m
  <2>3. DOMAIN (s \o u) = 1..(l + m)
    BY <2>1, <2>2
  <2>4. \A n \in 1..l : n \in 1..(l + m) /\ (s \o u)[n] = s[n]
    BY <2>1, <2>2
  <2>5. \A n \in 1..m : n + l \in 1..(l + m) /\ (s \o u)[n + l] = u[n]
    <3> SUFFICES ASSUME NEW n \in 1..m
                 PROVE  n + l \in 1..(l + m) /\ (s \o u)[n + l] = u[n]
      OBVIOUS
    <3>1. n + l \in 1..(l + m) /\ ~(n + l <= l) /\ (n + l) - l = n
      BY <2>2
    <3> QED
      BY <2>1, <3>1
  <2>6. \A n \in 1..(l + m) :
          (n \in 1..l /\ (s \o u)[n] = s[n])
            \/ (n - l \in 1..m /\ (s \o u)[n] = u[n - l])
    BY <2>1, <2>2
  <2> DEFINE w == s \o u
  <2>7. ToSet(w) = {w[n] : n \in 1..(l + m)}
    BY <2>3 DEF ToSet
  <2>8. ToSet(s) = {s[n] : n \in 1..l} /\ ToSet(u) = {u[n] : n \in 1..m}
    BY <2>2 DEF ToSet
  <2>9. {w[n] : n \in 1..(l + m)} = {s[n] : n \in 1..l} \cup {u[n] : n \in 1..m}
    <3>1. /\ \A n \in 1..l : n \in 1..(l + m) /\ w[n] = s[n]
          /\ \A n \in 1..m : n + l \in 1..(l + m) /\ w[n + l] = u[n]
          /\ \A n \in 1..(l + m) : (n \in 1..l /\ w[n] = s[n])
                                    \/ (n - l \in 1..m /\ w[n] = u[n - l])
      BY <2>4, <2>5, <2>6
    <3> HIDE DEF w
    <3>2. {w[n] : n \in 1..(l + m)} \subseteq
            {s[n] : n \in 1..l} \cup {u[n] : n \in 1..m}
      BY <3>1
    <3>3. {s[n] : n \in 1..l} \subseteq {w[n] : n \in 1..(l + m)}
      BY <3>1
    <3>4. {u[n] : n \in 1..m} \subseteq {w[n] : n \in 1..(l + m)}
      BY <3>1
    <3> QED
      BY <3>2, <3>3, <3>4
  <2> QED
    BY <2>1, <2>7, <2>8, <2>9
<1> HIDE DEF new
<1>9. /\ q \o new \in Seq(Event)
      /\ ToSet(q \o new) = ToSet(q) \cup {[id |-> i, value |-> c] : i \in fired}
  BY <1>6, <1>7, <1>8
<1> QED
  BY <1>9 DEF new

LEMMA CounterBecomesIs ==
  ASSUME events \in Seq(Event), NEW c \in 0..CounterMax, CounterBecomes(c)
  PROVE  /\ events' \in Seq(Event)
         /\ ToSet(events') = ToSet(events) \cup
              {[id |-> i, value |-> c] : i \in Rising(c) \cup Falling(c)}
<1> DEFINE fired == Rising(c) \cup Falling(c)
<1>1. fired \in SUBSET (Ids \cup {Reset})
  BY DEF Rising, Falling
<1>2. PICK order \in SetToSeqs(fired) :
        events' = events \o [n \in DOMAIN order |-> [id |-> order[n], value |-> c]]
  BY DEF CounterBecomes
<1> HIDE DEF fired
<1>3. /\ events' \in Seq(Event)
      /\ ToSet(events') = ToSet(events) \cup {[id |-> i, value |-> c] : i \in fired}
  <2> DEFINE sent == events \o [n \in DOMAIN order |-> [id |-> order[n], value |-> c]]
  <2>1. /\ sent \in Seq(Event)
        /\ ToSet(sent) = ToSet(events) \cup {[id |-> i, value |-> c] : i \in fired}
    BY <1>1, <1>2, OrderIs, ZenonT(60)
  <2>2. events' = sent
    BY <1>2
  <2> HIDE DEF sent
  <2> QED
    BY <2>1, <2>2, Zenon
<1> QED
  BY <1>3 DEF fired

LEMMA Unread ==
  ASSUME NEW q \in Seq(Event), q # <<>>
  PROVE  /\ Head(q) \in Event /\ Tail(q) \in Seq(Event)
         /\ ToSet(q) = {Head(q)} \cup ToSet(Tail(q))
<1> DEFINE l == Len(q)
           t == Tail(q)
<1>1. /\ Head(q) = q[1] /\ t \in Seq(Event) /\ Len(t) = l - 1
      /\ \A n \in 1..(l - 1) : t[n] = q[n + 1]
  BY HeadTailProperties
<1>2. l \in Nat /\ l >= 1 /\ DOMAIN q = 1..l /\ \A n \in 1..l : q[n] \in Event
  OBVIOUS
<1> HIDE DEF l, t
<1>3. DOMAIN t = 1..(l - 1)
  BY <1>1, <1>2
<1>4. {q[n] : n \in 1..l} = {q[1]} \cup {t[n] : n \in 1..(l - 1)}
  <2>1. \A n \in 1..l : n = 1 \/ (n - 1 \in 1..(l - 1) /\ q[n] = t[n - 1])
    <3> SUFFICES ASSUME NEW n \in 1..l, n # 1
                 PROVE  n - 1 \in 1..(l - 1) /\ q[n] = t[n - 1]
      OBVIOUS
    <3>1. n - 1 \in 1..(l - 1) /\ (n - 1) + 1 = n
      BY <1>2
    <3> QED
      BY <1>1, <3>1
  <2>2. \A n \in 1..(l - 1) : n + 1 \in 1..l /\ t[n] = q[n + 1]
    BY <1>1, <1>2
  <2>3. 1 \in 1..l
    BY <1>2
  <2>4. {q[n] : n \in 1..l} \subseteq {q[1]} \cup {t[n] : n \in 1..(l - 1)}
    BY <2>1
  <2>5. {t[n] : n \in 1..(l - 1)} \subseteq {q[n] : n \in 1..l}
    BY <2>2
  <2> QED
    BY <2>3, <2>4, <2>5
<1>5. ToSet(q) = {Head(q)} \cup ToSet(t)
  BY <1>1, <1>2, <1>3, <1>4 DEF ToSet
<1>6. q[1] \in Event
  BY <1>2
<1> QED
  BY <1>1, <1>5, <1>6 DEF t

-----------------------------------------------------------------------------
(* The types                                                               *)

\* As long as the shortest timeout of the client.
Long(v) == \E timeout \in Timeouts : timeout # 0 /\ timeout <= v

Waits == \A i \in Ids : alarms[i] # NoAlarm => Long(alarms[i])

IdleFor == \A e \in ToSet(events) : e.id # Reset => Long(e.value)

Types == TypeOK /\ Waits /\ IdleFor

LEMMA WaitValuesNat == WaitValues \subseteq Nat
<1>1. \A timeout \in Timeouts : Doubled(timeout) \in [0..MostTurns -> Nat]
  BY DoubledIs, TimesAssumption
<1>2. ASSUME NEW timeout \in Timeouts, NEW k \in 0..MostTurns
      PROVE  Doubled(timeout)[k] \in Nat
  BY <1>1
<1> QED
  BY <1>2 DEF WaitValues, NoAlarm

LEMMA SetTimeoutIs ==
  ASSUME Types, NEW i \in Ids, NEW timeout \in Timeouts, SetTimeout(i, timeout)
  PROVE  /\ alarms' \in [Ids -> WaitValues]
         /\ \A j \in Ids : alarms'[j] # NoAlarm => Long(alarms'[j])
         /\ events' \in Seq(Event)
         /\ ToSet(events') \subseteq ToSet(events)
         /\ \A e \in ToSet(events) : e.id = Reset => e \in ToSet(events')
<1>0. /\ counter \in 0..CounterMax /\ alarms \in [Ids -> WaitValues]
      /\ events \in Seq(Event)
  BY DEF Types, TypeOK, Event
<1>1. CASE counter = 0
  BY <1>0, <1>1 DEF SetTimeout, Types, Waits
<1>2. CASE counter # 0
  <2> DEFINE v == Adjusted(counter, timeout)
  <2>1. /\ v \in WaitValues /\ v \in Nat /\ (timeout = 0 => v = 0)
        /\ (timeout # 0 => v >= timeout)
    BY <1>0, AdjustedIs
  <2>2. alarms' = [alarms EXCEPT ![i] = v]
    BY <1>2 DEF SetTimeout
  <2> HIDE DEF v
  <2>3. v # NoAlarm => Long(v)
    BY <2>1 DEF Long, NoAlarm
  <2>4. /\ alarms' \in [Ids -> WaitValues]
        /\ \A j \in Ids : alarms'[j] # NoAlarm => Long(alarms'[j])
    <3>1. \A j \in Ids : alarms'[j] = IF j = i THEN v ELSE alarms[j]
      BY <1>0, <2>2
    <3> QED
      BY <1>0, <2>1, <2>2, <2>3, <3>1 DEF Types, Waits
  <2>5. events' = Without(i) \/ events' = events
    BY <1>2 DEF SetTimeout
  <2>6. /\ Without(i) \in Seq(Event)
        /\ ToSet(Without(i)) =
             {e \in ToSet(events) : e.id \in (Ids \cup {Reset}) \ {i}}
    BY <1>0, OnlyIs DEF Without
  <2>7. i # Reset
    BY IdsAssumption
  <2> QED
    BY <1>0, <2>4, <2>5, <2>6, <2>7
<1> QED
  BY <1>1, <1>2

LEMMA TypesInit == Init => Types
<1> SUFFICES ASSUME Init PROVE Types
  OBVIOUS
<1>1. alarms = [i \in Ids |-> NoAlarm] /\ NoAlarm \in WaitValues
  BY DEF Init, WaitValues
<1>2. events \in Seq(Event) /\ ToSet(events) = {}
  BY DEF Init, ToSet
<1> QED
  BY <1>1, <1>2 DEF Init, Types, TypeOK, Waits, IdleFor, Event, Disabled

LEMMA TypesNext ==
  ASSUME counter' \in 0..CounterMax, alarms' \in [Ids -> WaitValues],
         resetAt' \in 0..CounterMax \cup {Disabled}, events' \in Seq(Event),
         resetSet' \in BOOLEAN, told' \in BOOLEAN, running' \in BOOLEAN,
         \A i \in Ids : alarms'[i] # NoAlarm => Long(alarms'[i]),
         \A e \in ToSet(events') : e.id # Reset => Long(e.value)
  PROVE  Types'
<1>1. TypeOK'
  BY DEF TypeOK, Event, Disabled, WaitValues, MostTurns, Doubled, NoAlarm
<1>2. Waits' /\ IdleFor'
  BY DEF Waits, IdleFor, Long, NoAlarm, Reset
<1> QED
  BY <1>1, <1>2 DEF Types

LEMMA TypesTime ==
  ASSUME Types, NEW c \in 0..CounterMax, CounterBecomes(c)
  PROVE  Types'
<1>0. /\ alarms \in [Ids -> WaitValues] /\ events \in Seq(Event)
      /\ WaitValues \subseteq Nat /\ Timeouts \subseteq Nat
  BY WaitValuesNat, TimesAssumption DEF Types, TypeOK, Event
<1>1. /\ events' \in Seq(Event)
      /\ ToSet(events') = ToSet(events) \cup
           {[id |-> i, value |-> c] : i \in Rising(c) \cup Falling(c)}
  BY <1>0, CounterBecomesIs
<1>2. UNCHANGED <<alarms, resetAt, resetSet, told, running>> /\ counter' = c
  BY DEF CounterBecomes
<1>3. ASSUME NEW e \in ToSet(events'), e.id # Reset
      PROVE  Long(e.value)
  <2>1. CASE e \in ToSet(events)
    BY <1>3, <2>1 DEF Types, IdleFor
  <2>2. CASE e \notin ToSet(events)
    <3>1. PICK i \in Rising(c) \cup Falling(c) : e = [id |-> i, value |-> c]
      BY <1>1, <1>3, <2>2
    <3>2. i \in Ids /\ alarms[i] # NoAlarm /\ alarms[i] <= c /\ e.value = c
      BY <1>3, <3>1 DEF Rising, Falling
    <3> QED
      <4>1. PICK timeout \in Timeouts : timeout # 0 /\ timeout <= alarms[i]
        BY <3>2 DEF Types, Waits, Long
      <4>2. alarms[i] \in Nat /\ timeout \in Nat
        BY <1>0, <3>2
      <4>3. timeout <= c
        BY <3>2, <4>1, <4>2
      <4> QED
        BY <3>2, <4>1, <4>3 DEF Long
  <2> QED
    BY <2>1, <2>2
<1> QED
  <2>1. \A i \in Ids : alarms'[i] # NoAlarm => Long(alarms'[i])
    BY <1>2 DEF Types, Waits
  <2> QED
    BY <1>0, <1>1, <1>2, <1>3, <2>1, TypesNext DEF Types, TypeOK

\* Reading an event, or dropping some, leaves events of the same kind.
LEMMA TypesRest ==
  ASSUME Types, UNCHANGED <<counter, alarms, running>>,
         events' \in Seq(Event), ToSet(events') \subseteq ToSet(events),
         resetAt' \in 0..CounterMax \cup {Disabled},
         resetSet' \in BOOLEAN, told' \in BOOLEAN
  PROVE  Types'
BY TypesNext DEF Types, TypeOK, Waits, IdleFor

LEMMA ResetAllIs ==
  ASSUME NEW q \in Seq(Event), ResetAll(q)
  PROVE  /\ events' \in Seq(Event) /\ ToSet(events') \subseteq ToSet(q)
         /\ resetAt' = Disabled /\ resetSet' = FALSE /\ told' = FALSE
BY OnlyIs DEF ResetAll

LEMMA TypesStep == Types /\ [Next]_vars => Types'
<1> SUFFICES ASSUME Types, [Next]_vars PROVE Types'
  OBVIOUS
<1>0. /\ counter \in 0..CounterMax /\ CounterMax \in Nat
      /\ events \in Seq(Event) /\ resetSet \in BOOLEAN /\ told \in BOOLEAN
      /\ resetAt \in 0..CounterMax \cup {Disabled}
  BY TimesAssumption DEF Types, TypeOK, Event
<1>1. CASE UserInput
  BY <1>0, <1>1, TypesTime DEF UserInput
<1>2. CASE TimePasses
  BY <1>0, <1>2, TypesTime DEF TimePasses
<1>3. CASE AlarmEvent
  <2> DEFINE e == Head(events)
  <2>1. /\ e \in Event /\ Tail(events) \in Seq(Event) /\ e \in ToSet(events)
        /\ ToSet(Tail(events)) \subseteq ToSet(events) /\ e.id # Reset
    BY <1>0, <1>3, Unread DEF AlarmEvent
  <2>2. e.value - 1 \in 0..CounterMax
    BY <1>0, <2>1, TimesAssumption DEF Types, IdleFor, Long, Event
  <2>3. \/ UNCHANGED resetSet /\ told' = TRUE /\ events' = Tail(events)
             /\ UNCHANGED resetAt
        \/ told' = TRUE /\ events' = Tail(events) /\ resetAt' = e.value - 1
             /\ resetSet' = TRUE
        \/ ResetAll(Tail(events))
    BY <1>3 DEF AlarmEvent
  <2>4. UNCHANGED <<counter, alarms, running>>
    BY <1>3 DEF AlarmEvent
  <2> HIDE DEF e
  <2> QED
    BY <1>0, <2>1, <2>2, <2>3, <2>4, ResetAllIs, TypesRest
<1>4. CASE ResetEvent
  <2>1. /\ Tail(events) \in Seq(Event)
        /\ ToSet(Tail(events)) \subseteq ToSet(events)
    BY <1>0, <1>4, Unread DEF ResetEvent
  <2>2. \/ UNCHANGED <<resetAt, resetSet, told>> /\ events' = Tail(events)
        \/ ResetAll(Tail(events))
    BY <1>4 DEF ResetEvent
  <2>3. UNCHANGED <<counter, alarms, running>>
    BY <1>4 DEF ResetEvent
  <2> QED
    BY <1>0, <2>1, <2>2, <2>3, ResetAllIs, TypesRest
<1>5. ASSUME NEW i \in Ids, NEW timeout \in Timeouts, SetTimeout(i, timeout),
             UNCHANGED <<counter, resetAt, resetSet, told>>, running' \in BOOLEAN
      PROVE  Types'
  <2>1. /\ alarms' \in [Ids -> WaitValues] /\ events' \in Seq(Event)
        /\ \A j \in Ids : alarms'[j] # NoAlarm => Long(alarms'[j])
        /\ ToSet(events') \subseteq ToSet(events)
    BY <1>5, SetTimeoutIs
  <2> QED
    BY <1>0, <1>5, <2>1, TypesNext DEF Types, IdleFor
<1>6. CASE ChangeTimeout
  BY <1>5, <1>6 DEF ChangeTimeout, Types, TypeOK
<1>7. CASE Start
  BY <1>5, <1>7 DEF Start
<1>8. CASE Stop
  <2>1. events' \in Seq(Event) /\ ToSet(events') \subseteq ToSet(events)
    BY <1>0, <1>8, OnlyIs DEF Stop
  <2>2. alarms' \in [Ids -> WaitValues] /\ \A i \in Ids : alarms'[i] = NoAlarm
    BY <1>8 DEF Stop, WaitValues
  <2> QED
    BY <1>0, <1>8, <2>1, <2>2, TypesNext DEF Stop, Types, IdleFor
<1>9. CASE UNCHANGED vars
  BY <1>0, <1>9, TypesRest DEF vars
<1> QED
  BY <1>1, <1>2, <1>3, <1>4, <1>6, <1>7, <1>8, <1>9 DEF Next

\* Whatever the client does with its alarms, each wait value is a doubled
\* timeout, and each event on its way has an id and a value the client
\* can use: threshold = value - 1 does not wrap.
THEOREM TypeCorrect == Spec => []TypeOK
<1>1. Types => TypeOK
  BY DEF Types
<1> QED
  BY <1>1, TypesInit, TypesStep, PTL DEF Spec

-----------------------------------------------------------------------------
(* Activity is reported                                                    *)

\* The reset alarm is armed while the client says so.
Armed == (resetSet <=> resetAt # Disabled) /\ (told => resetSet)

\* An unread event is not too old: the counter has not come back to just
\* below it after the user's input.
Fresh(e) == counter >= e.value \/ counter = 0 \/ counter + 2 <= Shortest

AllFresh == \A e \in ToSet(events) : e.id # Reset => Fresh(e)

\* An armed reset alarm still waits for input, or its event is unread.
Hearing == resetSet => \/ resetAt = 0
                       \/ counter > resetAt
                       \/ \E e \in ToSet(events) : e.id = Reset

IInv == Types /\ Armed /\ AllFresh /\ Hearing

LEMMA HearingInit == Init => IInv
<1> SUFFICES ASSUME Init PROVE IInv
  OBVIOUS
<1>1. ToSet(events) = {}
  BY DEF Init, ToSet
<1> QED
  BY <1>1, TypesInit DEF Init, IInv, Armed, AllFresh, Hearing

\* The counter rises or drops: the reset alarm's own transition is seen.
LEMMA HearingTime ==
  ASSUME IInv, NEW c \in 0..CounterMax, CounterBecomes(c)
  PROVE  Armed' /\ Hearing'
<1>0. /\ counter \in 0..CounterMax /\ events \in Seq(Event)
      /\ resetAt \in 0..CounterMax \cup {Disabled} /\ CounterMax \in Nat
  BY TimesAssumption DEF IInv, Types, TypeOK, Event
<1>1. ToSet(events') = ToSet(events) \cup
        {[id |-> i, value |-> c] : i \in Rising(c) \cup Falling(c)}
  BY <1>0, CounterBecomesIs
<1>2. UNCHANGED <<resetAt, resetSet, told>> /\ counter' = c
  BY DEF CounterBecomes
<1>3. Armed'
  BY <1>2 DEF IInv, Armed, Disabled
<1>4. ASSUME resetSet, resetAt # 0, ~(c > resetAt)
      PROVE  \E e \in ToSet(events') : e.id = Reset
  <2>1. resetAt # Disabled /\ resetAt \in 0..CounterMax
    BY <1>0, <1>4 DEF IInv, Armed
  <2>2. CASE counter > resetAt
    <3>1. Reset \in Falling(c)
      BY <1>0, <1>4, <2>1, <2>2 DEF Falling
    <3>2. [id |-> Reset, value |-> c] \in ToSet(events')
      BY <1>1, <3>1
    <3> QED
      BY <3>2
  <2>3. CASE ~(counter > resetAt)
    BY <1>1, <1>4, <2>3 DEF IInv, Hearing
  <2> QED
    BY <2>2, <2>3
<1> QED
  BY <1>2, <1>3, <1>4 DEF Hearing

LEMMA FreshTime ==
  ASSUME IInv, UserInput \/ (TimePasses /\ Prompt)
  PROVE  AllFresh'
<1>0. /\ counter \in 0..CounterMax /\ events \in Seq(Event) /\ CounterMax \in Nat
  BY TimesAssumption DEF IInv, Types, TypeOK, Event
<1>1. CASE UserInput
  <2>1. counter' = 0
    BY <1>1 DEF UserInput, CounterBecomes
  <2> QED
    BY <2>1 DEF AllFresh, Fresh
<1>2. CASE TimePasses /\ Prompt
  <2> DEFINE c == counter + 1
  <2>0. /\ counter < CounterMax /\ CounterBecomes(c)
        /\ (events # <<>> => (c < Shortest - 1) \/ counter >= Shortest)
    BY <1>2 DEF TimePasses
  <2>1. c \in 0..CounterMax /\ counter' = c
    BY <1>0, <2>0 DEF CounterBecomes
  <2>2. ToSet(events') = ToSet(events) \cup
          {[id |-> i, value |-> c] : i \in Rising(c) \cup Falling(c)}
    BY <1>0, <2>0, <2>1, CounterBecomesIs
  <2> SUFFICES ASSUME NEW e \in ToSet(events'), e.id # Reset
               PROVE  Fresh(e)'
    BY DEF AllFresh
  <2>3. CASE e \in ToSet(events)
    <3>1. events # <<>>
      BY <2>3 DEF ToSet
    <3>2. Fresh(e) /\ Long(e.value) /\ e.value \in Nat
      <4>1. e \in Event
        BY <1>0, <2>3 DEF ToSet
      <4> QED
        BY <2>3, <4>1 DEF IInv, AllFresh, Types, IdleFor, Event
    <3>3. Shortest \in Nat /\ Shortest > 0 /\ Shortest <= e.value
      <4>1. PICK timeout \in Timeouts : timeout # 0 /\ timeout <= e.value
        BY <3>2 DEF Long
      <4>2. timeout \in Nat
        BY TimesAssumption
      <4>3. Shortest \in Nat /\ Shortest > 0 /\ Shortest <= timeout
        BY <4>1, ShortestIs
      <4> QED
        BY <3>2, <4>1, <4>2, <4>3
    <3>4. c >= e.value \/ c + 2 <= Shortest
      BY <1>0, <2>0, <2>1, <3>1, <3>2, <3>3 DEF Fresh
    <3> HIDE DEF c
    <3>5. Shortest' = Shortest
      BY DEF Shortest
    <3> QED
      BY <2>1, <3>4, <3>5 DEF Fresh
  <2>4. CASE e \notin ToSet(events)
    <3>1. e.value = c
      BY <2>2, <2>4
    <3> QED
      BY <1>0, <2>1, <3>1 DEF Fresh
  <2> QED
    BY <2>3, <2>4
<1> QED
  BY <1>1, <1>2

\* Reading or dropping events with the counter as it is.
LEMMA FreshRest ==
  ASSUME AllFresh, UNCHANGED counter, ToSet(events') \subseteq ToSet(events)
  PROVE  AllFresh'
<1>1. Shortest' = Shortest
  BY DEF Shortest
<1> QED
  BY <1>1 DEF AllFresh, Fresh, Reset

LEMMA HearingStep ==
  ASSUME Prompt, IInv, [Next]_vars
  PROVE  IInv'
<1>0. /\ counter \in 0..CounterMax /\ CounterMax \in Nat
      /\ events \in Seq(Event) /\ resetSet \in BOOLEAN /\ told \in BOOLEAN
      /\ resetAt \in 0..CounterMax \cup {Disabled} /\ Types'
  BY TypesStep, TimesAssumption DEF IInv, Types, TypeOK, Event
<1>1. CASE UserInput
  <2>1. CounterBecomes(0) /\ 0 \in 0..CounterMax
    BY <1>0, <1>1 DEF UserInput
  <2> QED
    BY <1>0, <1>1, <2>1, HearingTime, FreshTime DEF IInv
<1>2. CASE TimePasses
  <2>1. CounterBecomes(counter + 1) /\ counter + 1 \in 0..CounterMax
    BY <1>0, <1>2 DEF TimePasses
  <2> QED
    BY <1>0, <1>2, <2>1, HearingTime, FreshTime DEF IInv
<1>3. CASE AlarmEvent
  <2> DEFINE e == Head(events)
             q == Tail(events)
  <2>1. /\ e \in Event /\ q \in Seq(Event) /\ e \in ToSet(events)
        /\ ToSet(events) = {e} \cup ToSet(q) /\ e.id # Reset
        /\ UNCHANGED counter
    BY <1>0, <1>3, Unread DEF AlarmEvent
  <2>2. CASE /\ resetSet /\ told' = TRUE /\ events' = q
             /\ UNCHANGED <<resetAt, resetSet>>
    <3> HIDE DEF e, q
    <3>1. AllFresh' /\ Armed' /\ Hearing'
      BY <2>1, <2>2, FreshRest DEF IInv, Armed, Hearing, Disabled, Reset
    <3> QED
      BY <1>0, <3>1 DEF IInv
  <2>3. CASE /\ ~resetSet /\ counter >= e.value - 1
             /\ told' = TRUE /\ events' = q
             /\ resetAt' = e.value - 1 /\ resetSet' = TRUE
    <3>1. Fresh(e) /\ Long(e.value) /\ e.value \in 0..CounterMax
      BY <2>1 DEF IInv, AllFresh, Types, IdleFor, Event
    <3>2. Shortest \in Nat /\ Shortest > 0 /\ Shortest <= e.value
      <4>1. PICK timeout \in Timeouts : timeout # 0 /\ timeout <= e.value
        BY <3>1 DEF Long
      <4>2. timeout \in Nat
        BY TimesAssumption
      <4>3. Shortest \in Nat /\ Shortest > 0 /\ Shortest <= timeout
        BY <4>1, ShortestIs
      <4> HIDE DEF e
      <4> QED
        BY <3>1, <4>1, <4>2, <4>3
    <3> HIDE DEF e, q
    <3>3. e.value - 1 = 0 \/ counter > e.value - 1
      BY <1>0, <2>3, <3>1, <3>2 DEF Fresh
    <3>4. e.value - 1 # Disabled
      BY <1>0, <3>1 DEF Disabled
    <3>5. AllFresh' /\ Armed' /\ Hearing'
      BY <2>1, <2>3, <3>3, <3>4, FreshRest DEF IInv, Armed, Hearing, Disabled, Reset
    <3> QED
      BY <1>0, <3>5 DEF IInv
  <2>4. CASE ResetAll(q)
    <3> HIDE DEF e, q
    <3>1. /\ ToSet(events') \subseteq ToSet(events)
          /\ resetAt' = Disabled /\ resetSet' = FALSE /\ told' = FALSE
      BY <2>1, <2>4, ResetAllIs
    <3>2. AllFresh' /\ Armed' /\ Hearing'
      BY <2>1, <3>1, FreshRest DEF IInv, Armed, Hearing, Disabled
    <3> QED
      BY <1>0, <3>2 DEF IInv
  <2>5. \/ /\ resetSet /\ told' = TRUE /\ events' = q
           /\ UNCHANGED <<resetAt, resetSet>>
        \/ /\ ~resetSet /\ counter >= e.value - 1
           /\ told' = TRUE /\ events' = q
           /\ resetAt' = e.value - 1 /\ resetSet' = TRUE
        \/ ResetAll(q)
    BY <1>3 DEF AlarmEvent
  <2> QED
    BY <2>2, <2>3, <2>4, <2>5
<1>4. CASE ResetEvent
  <2> DEFINE q == Tail(events)
  <2>1. /\ q \in Seq(Event) /\ ToSet(q) \subseteq ToSet(events)
        /\ UNCHANGED counter
    BY <1>0, <1>4, Unread DEF ResetEvent
  <2>2. \/ ~resetSet /\ events' = q /\ UNCHANGED <<resetAt, resetSet, told>>
        \/ ResetAll(q)
    BY <1>4 DEF ResetEvent
  <2> HIDE DEF q
  <2>3. ToSet(events') \subseteq ToSet(events)
    BY <2>1, <2>2, ResetAllIs
  <2>4. Armed' /\ Hearing'
    <3>1. CASE ~resetSet /\ events' = q /\ UNCHANGED <<resetAt, resetSet, told>>
      BY <3>1 DEF IInv, Armed, Hearing, Disabled
    <3>2. CASE ResetAll(q)
      <4>1. resetAt' = Disabled /\ resetSet' = FALSE /\ told' = FALSE
        BY <2>1, <3>2, ResetAllIs
      <4> QED
        BY <4>1 DEF Armed, Hearing, Disabled
    <3> QED
      BY <2>2, <3>1, <3>2
  <2> QED
    BY <1>0, <2>1, <2>3, <2>4, FreshRest DEF IInv
<1>5. ASSUME UNCHANGED <<counter, resetAt, resetSet, told>>,
             ToSet(events') \subseteq ToSet(events),
             \A e \in ToSet(events) : e.id = Reset => e \in ToSet(events')
      PROVE  IInv'
  BY <1>0, <1>5, FreshRest DEF IInv, Armed, Hearing, Disabled, Reset
<1>6. CASE ChangeTimeout \/ Start
  <2>1. PICK i \in Ids, timeout \in Timeouts : SetTimeout(i, timeout)
    BY <1>6 DEF ChangeTimeout, Start
  <2> QED
    BY <1>5, <1>6, <2>1, SetTimeoutIs DEF ChangeTimeout, Start, IInv
<1>7. CASE Stop
  <2>1. ToSet(events') = {e \in ToSet(events) : e.id \in {Reset}}
    BY <1>0, <1>7, OnlyIs DEF Stop
  <2> QED
    BY <1>5, <1>7, <2>1 DEF Stop
<1>8. CASE UNCHANGED vars
  BY <1>5, <1>8 DEF vars
<1> QED
  BY <1>1, <1>2, <1>3, <1>4, <1>6, <1>7, <1>8 DEF Next

LEMMA HearingReports == IInv => ActivityIsReported
<1> SUFFICES ASSUME IInv, told PROVE ActivityIsReported
  BY DEF ActivityIsReported
<1>1. /\ counter \in 0..CounterMax /\ CounterMax \in Nat
      /\ resetAt \in 0..CounterMax \cup {Disabled}
  BY TimesAssumption DEF IInv, Types, TypeOK
<1>2. resetSet /\ resetAt \in 0..CounterMax
  BY <1>1 DEF IInv, Armed
<1>3. counter >= resetAt \/ \E n \in DOMAIN events : events[n].id = Reset
  BY <1>1, <1>2 DEF IInv, Hearing, ToSet
<1> QED
  BY <1>2, <1>3 DEF ActivityIsReported

\* However many alarms and timeouts the client has, input that comes
\* between an alarm's event and its handler is not lost
\* ("We've missed the alarm already", gpm-idletime.c:233), if an event is
\* read before the user can become idle again (Prompt).
THEOREM ActivityHeard ==
  ASSUME Prompt
  PROVE  Spec => []ActivityIsReported
<1>1. IInv /\ [Next]_vars => IInv'
  BY HearingStep
<1> QED
  BY <1>1, HearingInit, HearingReports, PTL DEF Spec

-----------------------------------------------------------------------------
(***************************************************************************)
(* Layouts of monitors                                                     *)
(***************************************************************************)

\* What a configuration is made of: outputs that are on, or Off.
Layout(c) == /\ c = [o \in XS!Outputs |-> c[o]]
             /\ \A o \in XS!Outputs : c[o] = XS!Off \/ c[o].on = TRUE

\* The panel is off while another monitor is on.
PanelOff(c) == XS!IsOn(c) \ {Laptop} # {} => Laptop \notin XS!IsOn(c)

LEMMA AllOffIs ==
  /\ Layout(XS!AllOff) /\ XS!IsOn(XS!AllOff) = {}
  /\ \A c : Layout(c) /\ c # XS!AllOff => XS!IsOn(c) # {}
<1>1. Layout(XS!AllOff) /\ XS!IsOn(XS!AllOff) = {}
  BY DEF Layout, XS!AllOff, XS!IsOn, XS!Off
<1>2. ASSUME NEW c, Layout(c), XS!IsOn(c) = {} PROVE c = XS!AllOff
  BY <1>2 DEF Layout, XS!AllOff, XS!IsOn
<1> QED
  BY <1>1, <1>2

\* Trimming turns monitors off.
LEMMA TrimmedIs ==
  ASSUME NEW c, Layout(c), NEW t \in XS!Trimmed(c)
  PROVE  Layout(t) /\ XS!IsOn(t) \subseteq XS!IsOn(c)
<1>1. PICK s \in SUBSET XS!IsOn(c) :
        t = [o \in XS!Outputs |-> IF o \in s THEN c[o] ELSE XS!Off]
  BY DEF XS!Trimmed
<1> QED
  BY <1>1 DEF Layout, XS!IsOn, XS!Off

\* No setup shows anything on an output without a monitor, and none but
\* make_laptop_setup's, which there is not below a closed lid, has the panel
\* and another monitor on where the lid is followed.
Setup(t) == /\ Layout(t) /\ XS!IsOn(t) \subseteq connected
            /\ XS!Closed /\ XS!FollowLid => PanelOff(t)

LEMMA CloneIs == Laptop \in connected => Setup(XS!CloneSetup)
<1> SUFFICES ASSUME Laptop \in connected PROVE Setup(XS!CloneSetup)
  OBVIOUS
<1> DEFINE common == {w \in XS!Widths : \A o \in connected : w \in Modes[o]}
           best == XS!Max(common)
<1>1. XS!CloneSetup =
        IF common = {} THEN XS!AllOff
        ELSE [o \in XS!Outputs |->
                IF o \in connected /\ ~(o = Laptop /\ XS!Closed)
                  THEN [on |-> TRUE, x |-> 0, w |-> best] ELSE XS!Off]
  BY DEF XS!CloneSetup
<1> HIDE DEF common, best
<1>2. CASE common = {}
  BY <1>1, <1>2, AllOffIs DEF Setup, PanelOff
<1>3. CASE common # {}
  BY <1>1, <1>3 DEF Setup, PanelOff, Layout, XS!IsOn, XS!Off
<1> QED
  BY <1>2, <1>3

LEMMA XineramaIs == \A t \in XS!XineramaSetups : Setup(t)
<1> DEFINE on == IF XS!Closed /\ XS!FollowLid THEN connected \ {Laptop} ELSE connected
           Left(o) == {p \in on \ {o} : p = Laptop \/ (o # Laptop /\ XS!Before(p, o))}
           c == [o \in XS!Outputs |->
                   IF o \in on THEN XS!TurnOn(o, XS!MapThenSumSet(XS!Best, Left(o)))
                               ELSE XS!Off]
<1>1. XS!XineramaSetups = XS!Trimmed(c)
  BY DEF XS!XineramaSetups
<1>2. Layout(c) /\ XS!IsOn(c) \subseteq on
  BY DEF Layout, XS!IsOn, XS!Off, XS!TurnOn
<1> HIDE DEF c
<1> QED
  BY <1>1, <1>2, TrimmedIs DEF Setup, PanelOff

LEMMA OtherIs == \A t \in XS!OtherSetups : Setup(t) /\ PanelOff(t)
<1> DEFINE c == [o \in XS!Outputs |->
                   IF o \in connected \ {Laptop} THEN XS!TurnOn(o, 0) ELSE XS!Off]
<1>1. XS!OtherSetups = XS!Trimmed(c)
  BY DEF XS!OtherSetups
<1>2. Layout(c) /\ XS!IsOn(c) \subseteq connected \ {Laptop}
  BY DEF Layout, XS!IsOn, XS!Off, XS!TurnOn
<1> HIDE DEF c
<1> QED
  BY <1>1, <1>2, TrimmedIs DEF Setup, PanelOff

LEMMA LaptopIs == Laptop \in connected => Setup(XS!LaptopSetup)
BY DEF Setup, PanelOff, Layout, XS!IsOn, XS!Off, XS!TurnOn, XS!LaptopSetup

LEMMA DefaultIs ==
  Laptop \in connected /\ boot \in {"nothing", "lid", "clone", "dock"}
    => \A t \in XS!DefaultSetups : Setup(t)
BY CloneIs, XineramaIs, OtherIs DEF XS!DefaultSetups

LEMMA DefaultNext ==
  (Laptop \in connected /\ boot \in {"nothing", "lid", "clone", "dock"}
    => \A t \in XS!DefaultSetups : Setup(t))'
BY DefaultIs, PTL

LEMMA DefaultSame ==
  UNCHANGED <<boot, connected, lid>> => XS!DefaultSetups' = XS!DefaultSetups
BY DEF XS!DefaultSetups, XS!XineramaSetups, XS!OtherSetups, XS!CloneSetup,
       XS!Closed, XS!FollowLid

\* A setting that does not follow the lid makes the same setup below it.
LEMMA NothingSame ==
  boot = "nothing" /\ UNCHANGED <<boot, connected>>
    => XS!DefaultSetups' = XS!DefaultSetups
BY DEF XS!DefaultSetups, XS!XineramaSetups, XS!Closed, XS!FollowLid

\* What closing the lid turns off.
LEMMA WithoutLaptopIs ==
  ASSUME NEW c, Layout(c)
  PROVE  /\ Layout(XS!WithoutLaptop(c)) /\ PanelOff(XS!WithoutLaptop(c))
         /\ XS!IsOn(XS!WithoutLaptop(c)) \subseteq XS!IsOn(c)
         /\ XS!IsOn(c) # {} => XS!IsOn(XS!WithoutLaptop(c)) # {}
<1> DEFINE d == [c EXCEPT ![Laptop] = XS!Off]
<1>1. CASE XS!IsOn(c) \ {Laptop} = {}
  BY <1>1 DEF XS!WithoutLaptop, PanelOff
<1>2. CASE XS!IsOn(c) \ {Laptop} # {}
  <2>1. XS!WithoutLaptop(c) = d
    BY <1>2 DEF XS!WithoutLaptop
  <2>2. d = [o \in XS!Outputs |-> IF o = Laptop THEN XS!Off ELSE c[o]]
    BY DEF Layout
  <2>3. Layout(d) /\ XS!IsOn(d) = XS!IsOn(c) \ {Laptop}
    BY <2>2 DEF Layout, XS!IsOn, XS!Off
  <2> QED
    BY <1>2, <2>1, <2>3 DEF PanelOff
<1> QED
  BY <1>1, <1>2

(***************************************************************************)
(* The list of Fn-F7                                                       *)
(***************************************************************************)

\* How many of a set of indices are up to i.
UpTo(S, i) == Cardinality({j \in S : j <= i})

LEMMA CardinalityIs ==
  ASSUME NEW S
  PROVE  XS!Cardinality(S) = Cardinality(S)
BY DEF XS!Cardinality, Cardinality

\* One more index is one more, or none.
LEMMA UpToIs ==
  ASSUME NEW L \in Nat, NEW S \in SUBSET (1..L)
  PROVE  /\ IsFiniteSet(S) /\ Cardinality(S) \in Nat
         /\ \A i : UpTo(S, i) \in Nat
         /\ UpTo(S, 0) = 0 /\ UpTo(S, L) = Cardinality(S)
         /\ \A i \in 1..L : UpTo(S, i) = UpTo(S, i - 1) + IF i \in S THEN 1 ELSE 0
<1>1. IsFiniteSet(1..L)
  BY FS_Interval
<1>2. IsFiniteSet(S) /\ Cardinality(S) \in Nat
  BY <1>1, FS_Subset, FS_CardinalityType
<1>3. \A j \in S : j \in 1..L
  OBVIOUS
<1>4. ASSUME NEW i PROVE IsFiniteSet({j \in S : j <= i}) /\ UpTo(S, i) \in Nat
  <2>1. {j \in S : j <= i} \in SUBSET S
    OBVIOUS
  <2>2. IsFiniteSet({j \in S : j <= i})
    BY <1>2, <2>1, FS_Subset
  <2> QED
    BY <2>2, FS_CardinalityType DEF UpTo
<1>5. UpTo(S, 0) = 0
  <2>1. \A j \in S : ~(j <= 0)
    BY <1>3
  <2>2. {j \in S : j <= 0} = {}
    BY <2>1
  <2> QED
    BY <2>2, FS_EmptySet DEF UpTo
<1>6. UpTo(S, L) = Cardinality(S)
  <2>1. \A j \in S : j <= L
    BY <1>3
  <2>2. {j \in S : j <= L} = S
    BY <2>1
  <2> QED
    BY <2>2 DEF UpTo
<1>7. ASSUME NEW i \in 1..L
      PROVE  UpTo(S, i) = UpTo(S, i - 1) + IF i \in S THEN 1 ELSE 0
  <2> DEFINE A == {j \in S : j <= i - 1}
             B == {j \in S : j <= i}
  <2>1. /\ \A j \in S : j <= i <=> j <= i - 1 \/ j = i
        /\ ~(i <= i - 1)
    BY <1>3
  <2>2. IsFiniteSet(A) /\ Cardinality(A) \in Nat
    BY <1>4 DEF UpTo
  <2>3. i \notin A
    BY <2>1
  <2>4. CASE i \in S
    <3>1. B = A \cup {i}
      BY <2>1, <2>4
    <3> HIDE DEF A, B
    <3>2. Cardinality(B) = Cardinality(A) + 1
      BY <2>2, <2>3, <3>1, FS_AddElement
    <3> QED
      BY <2>4, <3>2 DEF UpTo, A, B
  <2>5. CASE i \notin S
    <3>1. B = A
      BY <2>1, <2>5
    <3> HIDE DEF A, B
    <3>2. Cardinality(B) = Cardinality(A) + 0
      BY <2>2, <3>1
    <3> QED
      BY <2>5, <3>2 DEF UpTo, A, B
  <2> QED
    BY <2>4, <2>5
<1> QED
  BY <1>2, <1>4, <1>5, <1>6, <1>7

\* Each of a finite set of numbers has its place.
LEMMA NthIs ==
  ASSUME NEW L \in Nat, NEW S \in SUBSET (1..L), NEW n \in 1..Cardinality(S)
  PROVE  XS!Nth(S, n) \in S
<1> DEFINE Enough == {i \in Nat : UpTo(S, i) >= n}
<1>1. n \in Nat /\ n > 0 /\ n <= Cardinality(S) /\ Cardinality(S) \in Nat
  BY UpToIs
<1>2. L \in Enough /\ Enough \in SUBSET Nat
  <2>1. UpTo(S, L) >= n
    BY <1>1, UpToIs
  <2> QED
    BY <2>1
<1>3. PICK i \in Enough : \A k \in Enough : i <= k
  <2> HIDE DEF Enough
  <2> QED
    BY <1>2, LeastNumber
<1>4. i \in Nat /\ UpTo(S, i) >= n /\ UpTo(S, i) \in Nat /\ i <= L
  BY <1>2, <1>3, UpToIs
<1>5. i # 0
  BY <1>1, <1>4, UpToIs
<1>6. i \in 1..L /\ i - 1 \in Nat /\ UpTo(S, i - 1) \in Nat
  <2>1. i \in 1..L /\ i - 1 \in Nat
    BY <1>4, <1>5
  <2>2. UpTo(S, i - 1) \in Nat
    BY UpToIs
  <2> QED
    BY <2>1, <2>2
<1>7. UpTo(S, i - 1) < n
  <2>1. i - 1 \notin Enough
    BY <1>3, <1>6
  <2> QED
    BY <1>1, <1>6, <2>1
<1>8. UpTo(S, i) = UpTo(S, i - 1) + IF i \in S THEN 1 ELSE 0
  <2>1. \A j \in 1..L : UpTo(S, j) = UpTo(S, j - 1) + IF j \in S THEN 1 ELSE 0
    BY UpToIs, ZenonT(30)
  <2> QED
    BY <1>6, <2>1
<1>9. i \in S /\ UpTo(S, i) = n
  BY <1>1, <1>4, <1>6, <1>7, <1>8
<1> HIDE DEF Enough
<1> QED
  BY <1>9, CardinalityIs DEF XS!Nth, UpTo

\* What is left of a list: configurations of it that are not all off.
LEMMA SanitizedIs ==
  ASSUME NEW T, NEW list \in Seq(T)
  PROVE  /\ XS!Sanitized(list) \in Seq(T)
         /\ \A n \in DOMAIN XS!Sanitized(list) :
              \E i \in DOMAIN list : /\ list[i] # XS!AllOff
                                     /\ XS!Sanitized(list)[n] = list[i]
<1> DEFINE Dup(i, gone) == {j \in (i + 1)..Len(list) :
                              j \notin gone /\ list[j] = list[i] /\ list[i] # XS!AllOff}
           gone == XS!FoldLeft(LAMBDA acc, i : IF i \in acc \/ Dup(i, acc) = {} THEN acc
                                               ELSE acc \cup {XS!Min(Dup(i, acc))},
                               {}, [i \in DOMAIN list |-> i])
           rest == {i \in DOMAIN list : /\ i \notin gone /\ list[i] # XS!AllOff
                                        /\ XS!Applicable(list[i])}
           k == XS!Cardinality(rest)
<1>1. XS!Sanitized(list) = [n \in 1..k |-> list[XS!Nth(rest, n)]]
  BY DEF XS!Sanitized
<1> HIDE DEF gone
<1>2. rest \in SUBSET (1..Len(list)) /\ Len(list) \in Nat
  BY LenProperties
<1>3. \A i \in rest : list[i] # XS!AllOff /\ list[i] \in T /\ i \in DOMAIN list
  BY ElementOfSeq, LenProperties
<1> HIDE DEF rest
<1>4. k = Cardinality(rest) /\ k \in Nat
  BY <1>2, CardinalityIs, UpToIs
<1>5. \A n \in 1..k : XS!Nth(rest, n) \in rest
  BY <1>2, <1>4, NthIs
<1> HIDE DEF k
<1>6. [n \in 1..k |-> list[XS!Nth(rest, n)]] \in Seq(T)
  BY <1>3, <1>4, <1>5
<1> QED
  BY <1>1, <1>3, <1>5, <1>6

(***************************************************************************)
(* Which monitors are on                                                   *)
(***************************************************************************)

Situation ==
  /\ boot \in {"nothing", "lid", "clone", "dock"} /\ Laptop \in connected
  /\ lid \in {"open", "closed"} /\ excused \in BOOLEAN

\* What is shown is shown on monitors.
OnMonitors == Layout(shown) /\ XS!IsOn(shown) \subseteq connected

\* So is what is stored, and it shows something.
Filed ==
  \A c \in DOMAIN stored :
    Layout(stored[c]) /\ stored[c] # XS!AllOff /\ XS!IsOn(stored[c]) \subseteq c

\* And so is an entry of a list made for these monitors.
Entry(t, for) ==
  /\ Layout(t) /\ t # XS!AllOff /\ XS!IsOn(t) \subseteq for.connected
  /\ for.lid = "closed" /\ XS!FollowLid /\ ~for.excused => PanelOff(t)

Counted(s) ==
  Len(s) \in Nat /\ DOMAIN s = 1..Len(s) /\ (s = <<>> <=> Len(s) = 0)

Cycled ==
  /\ Counted(fn) /\ current \in Nat
  /\ \A n \in DOMAIN fn : Entry(fn[n], madeFor)

\* Something is shown, unless the lid is closed and followed.
Lit ==
  /\ boot = "nothing" \/ (boot = "lid" /\ ~XS!Closed)
  /\ XS!AllOff \notin XS!DefaultSetups
  => XS!IsOn(shown) # {}

Follows == XS!Closed /\ XS!FollowLid /\ ~excused => PanelOff(shown)

SetupsInv == Situation /\ OnMonitors /\ Filed /\ Cycled /\ Lit /\ Follows

\* What fn_f7 makes is a list of entries.
LEMMA GeneratedIs ==
  ASSUME SetupsInv, NEW list \in XS!Generated
  PROVE  /\ Counted(list)
         /\ \A n \in DOMAIN list :
              Entry(list[n], [connected |-> connected, lid |-> lid, excused |-> excused])
<1>1. PICK x \in XS!XineramaSetups, o \in XS!OtherSetups :
        list = XS!Sanitized(<<shown, XS!CloneSetup, x, o, XS!LaptopSetup>>)
  BY DEF XS!Generated
<1> DEFINE all == <<shown, XS!CloneSetup, x, o, XS!LaptopSetup>>
           T == {shown, XS!CloneSetup, x, o, XS!LaptopSetup}
<1>2. all \in Seq(T) /\ \A i \in DOMAIN all : all[i] \in T
  OBVIOUS
<1>3. \A t \in T : /\ Layout(t) /\ XS!IsOn(t) \subseteq connected
                   /\ XS!Closed /\ XS!FollowLid /\ ~excused => PanelOff(t)
  BY CloneIs, XineramaIs, OtherIs, LaptopIs
     DEF Setup, SetupsInv, Situation, OnMonitors, Follows
<1> HIDE DEF all, T
<1>4. /\ list \in Seq(T)
      /\ \A n \in DOMAIN list :
           \E i \in DOMAIN all : all[i] # XS!AllOff /\ list[n] = all[i]
  BY <1>1, <1>2, SanitizedIs DEF all
<1>5. Counted(list)
  BY <1>4, LenProperties, EmptySeq DEF Counted
<1>6. \A n \in DOMAIN list : list[n] \in T /\ list[n] # XS!AllOff
  BY <1>2, <1>4
<1> QED
  BY <1>3, <1>5, <1>6 DEF Entry, XS!Closed

LEMMA CycleStep ==
  ASSUME SetupsInv, NEW list, NEW at \in Nat, NEW for, for.connected = connected,
         Counted(list), \A n \in DOMAIN list : Entry(list[n], for),
         XS!Cycle(list, at), madeFor' = for, UNCHANGED <<boot, connected, lid>>
  PROVE  /\ OnMonitors' /\ Filed' /\ Cycled'
         /\ UNCHANGED shown \/ (XS!IsOn(shown') # {} /\ Entry(shown', for))
<1>1. CASE list = <<>>
  <2>1. fn' = list /\ current' = 0 /\ UNCHANGED <<shown, stored>>
    BY <1>1 DEF XS!Cycle
  <2> QED
    BY <1>1, <2>1 DEF SetupsInv, OnMonitors, Filed, Cycled, Counted
<1>2. CASE list # <<>>
  <2>1. /\ fn' = list /\ current' = (at % Len(list)) + 1 /\ shown' = list[current']
        /\ stored' = [c \in DOMAIN stored \cup {connected} |->
                        IF c = connected THEN shown' ELSE stored[c]]
    BY <1>2 DEF XS!Cycle
  <2>2. Len(list) \in Nat /\ Len(list) # 0
    BY <1>2 DEF Counted
  <2>3. current' \in 1..Len(list)
    BY <2>1, <2>2
  <2>4. Entry(shown', for)
    BY <2>1, <2>3 DEF Counted
  <2>5. OnMonitors' /\ XS!IsOn(shown') # {}
    BY <2>4, AllOffIs DEF Entry, OnMonitors
  <2>6. Filed'
    BY <2>1, <2>4 DEF SetupsInv, Filed, Entry
  <2>7. Cycled'
    BY <2>1, <2>3 DEF Cycled, Counted, Entry, XS!FollowLid
  <2> QED
    BY <2>4, <2>5, <2>6, <2>7
<1> QED
  BY <1>1, <1>2

LEMMA FnF7Step ==
  ASSUME SetupsInv, XS!FnF7
  PROVE  SetupsInv'
<1>1. /\ UNCHANGED <<boot, connected, lid>>
      /\ excused' = (excused \/ madeFor'.excused \/ madeFor'.lid # lid)
  BY DEF XS!FnF7
<1>2. PICK list : \E at \in Nat :
        /\ Counted(list) /\ \A n \in DOMAIN list : Entry(list[n], madeFor')
        /\ XS!Cycle(list, at) /\ madeFor'.connected = connected
  <2>1. CASE XS!UpToDate
    <3>1. XS!Cycle(fn, current) /\ madeFor' = madeFor /\ madeFor.connected = connected
      BY <2>1 DEF XS!FnF7, XS!UpToDate
    <3> QED
      BY <3>1 DEF SetupsInv, Cycled
  <2>2. CASE ~XS!UpToDate
    <3>1. PICK list \in XS!Generated : XS!Cycle(list, 1)
      BY <2>2 DEF XS!FnF7
    <3>2. madeFor' = [connected |-> connected, lid |-> lid, excused |-> excused]
      BY <2>2 DEF XS!FnF7
    <3> QED
      BY <3>1, <3>2, GeneratedIs
  <2> QED
    BY <2>1, <2>2
<1>3. /\ OnMonitors' /\ Filed' /\ Cycled'
      /\ UNCHANGED shown \/ (XS!IsOn(shown') # {} /\ Entry(shown', madeFor'))
  BY <1>1, <1>2, CycleStep
<1>4. Situation'
  BY <1>1 DEF SetupsInv, Situation
<1>5. Lit'
  BY <1>1, <1>3, DefaultSame DEF SetupsInv, Lit, XS!Closed
<1>6. Follows'
  BY <1>1, <1>3 DEF SetupsInv, Follows, Entry, XS!Closed, XS!FollowLid
<1> QED
  BY <1>3, <1>4, <1>5, <1>6 DEF SetupsInv

\* A configuration from the file, or the default setup, or what was shown.
LEMMA UseStoredOrAutoIs ==
  ASSUME SetupsInv, UNCHANGED <<boot, stored>>, Laptop \in connected',
         NEW now, Layout(now), XS!IsOn(now) \subseteq connected', NEW repeated,
         XS!UseStoredOrAuto(now, repeated)
  PROVE  /\ OnMonitors'
         /\ XS!Closed' /\ XS!FollowLid' /\ PanelOff(now) => PanelOff(shown')
         /\ \/ XS!IsOn(shown') # {}
            \/ repeated /\ shown' = now
            \/ XS!AllOff \in XS!DefaultSetups'
<1>1. CASE connected' \in DOMAIN stored'
  <2> DEFINE c == stored'[connected']
  <2>1. Layout(c) /\ XS!IsOn(c) \subseteq connected' /\ XS!IsOn(c) # {}
    BY <1>1, AllOffIs DEF SetupsInv, Filed
  <2>2. shown' = IF lid' = "closed" THEN XS!WithoutLaptop(c) ELSE c
    BY <1>1 DEF XS!UseStoredOrAuto, XS!FromFile
  <2> HIDE DEF c
  <2> QED
    BY <2>1, <2>2, WithoutLaptopIs DEF OnMonitors, XS!Closed
<1>2. CASE connected' \notin DOMAIN stored' /\ repeated
  <2>1. shown' = now
    BY <1>2 DEF XS!UseStoredOrAuto
  <2> QED
    BY <1>2, <2>1 DEF OnMonitors
<1>3. CASE connected' \notin DOMAIN stored' /\ ~repeated
  <2>1. PICK t \in XS!DefaultSetups' : shown' = IF t = XS!AllOff THEN now ELSE t
    BY <1>3 DEF XS!UseStoredOrAuto, XS!AutoConfigure
  <2>2. Setup(t)'
    BY DefaultNext DEF SetupsInv, Situation
  <2>3. /\ Layout(t) /\ XS!IsOn(t) \subseteq connected'
        /\ XS!Closed' /\ XS!FollowLid' => PanelOff(t)
    BY <2>2 DEF Setup
  <2> QED
    BY <2>1, <2>3, AllOffIs DEF OnMonitors
<1> QED
  BY <1>1, <1>2, <1>3

LEMMA HotplugStep ==
  ASSUME SetupsInv, NEW others, XS!Hotplug(others)
  PROVE  SetupsInv'
<1> DEFINE now == [o \in XS!Outputs |-> IF o \in connected' THEN shown[o] ELSE XS!Off]
<1>1. /\ connected' = others \cup {Laptop}
      /\ UNCHANGED <<boot, lid, stored, fn, current, madeFor, excused>>
      /\ XS!UseStoredOrAuto(now, connected' = connected)
  BY DEF XS!Hotplug
<1>2. /\ Layout(now) /\ XS!IsOn(now) = XS!IsOn(shown) \cap connected'
  BY DEF SetupsInv, OnMonitors, Layout, XS!IsOn, XS!Off
<1>3. Situation' /\ Filed' /\ Cycled'
  BY <1>1 DEF SetupsInv, Situation, Filed, Cycled, Entry, XS!FollowLid
<1> HIDE DEF now
<1>4. /\ OnMonitors'
      /\ XS!Closed' /\ XS!FollowLid' /\ PanelOff(now) => PanelOff(shown')
      /\ \/ XS!IsOn(shown') # {}
         \/ connected' = connected /\ shown' = now
         \/ XS!AllOff \in XS!DefaultSetups'
  BY <1>1, <1>2, UseStoredOrAutoIs
<1>5. Lit'
  <2>1. CASE connected' = connected /\ shown' = now
    <3>1. XS!IsOn(shown') = XS!IsOn(shown)
      BY <1>2, <2>1 DEF SetupsInv, OnMonitors
    <3> QED
      BY <1>1, <2>1, <3>1, DefaultSame DEF SetupsInv, Lit, XS!Closed
  <2>2. CASE XS!IsOn(shown') # {} \/ XS!AllOff \in XS!DefaultSetups'
    BY <2>2 DEF Lit
  <2> QED
    BY <1>4, <2>1, <2>2
<1>6. Follows'
  BY <1>1, <1>2, <1>4 DEF SetupsInv, Follows, PanelOff, XS!Closed, XS!FollowLid
<1> QED
  BY <1>3, <1>4, <1>5, <1>6 DEF SetupsInv

LEMMA OtherClientStep ==
  ASSUME SetupsInv, NEW o \in XS!Outputs, XS!OtherClient(o)
  PROVE  SetupsInv'
<1>1. /\ o \in XS!IsOn(shown) /\ XS!IsOn(shown) # {o}
      /\ shown' = [shown EXCEPT ![o] = XS!Off]
      /\ UNCHANGED <<boot, connected, lid, stored, fn, current, madeFor, excused>>
  BY DEF XS!OtherClient
<1>2. shown' = [p \in XS!Outputs |-> IF p = o THEN XS!Off ELSE shown[p]]
  BY <1>1 DEF SetupsInv, OnMonitors, Layout
<1>3. Layout(shown') /\ XS!IsOn(shown') = XS!IsOn(shown) \ {o}
  BY <1>2 DEF SetupsInv, OnMonitors, Layout, XS!IsOn, XS!Off
<1>4. OnMonitors'
  BY <1>1, <1>3 DEF SetupsInv, OnMonitors
<1>5. Situation' /\ Filed' /\ Cycled'
  BY <1>1 DEF SetupsInv, Situation, Filed, Cycled, Entry, XS!FollowLid
<1>6. XS!IsOn(shown') # {}
  BY <1>1, <1>3
<1>7. Lit' /\ Follows'
  BY <1>1, <1>3, <1>6
     DEF SetupsInv, Lit, Follows, PanelOff, XS!Closed, XS!FollowLid
<1> QED
  BY <1>4, <1>5, <1>7 DEF SetupsInv

LEMMA LidStep ==
  ASSUME SetupsInv, XS!LidMoves
  PROVE  SetupsInv'
<1>1. /\ lid' = IF XS!Closed THEN "open" ELSE "closed"
      /\ excused' = (excused /\ lid' = "closed")
      /\ UNCHANGED <<boot, connected, stored, fn, current, madeFor>>
  BY DEF XS!LidMoves
<1>2. Situation' /\ Filed' /\ Cycled' /\ (XS!FollowLid' <=> XS!FollowLid)
  BY <1>1 DEF SetupsInv, Situation, Filed, Cycled, Entry, XS!FollowLid
<1>3. CASE ~XS!FollowLid
  <2>1. UNCHANGED shown
    BY <1>3 DEF XS!LidMoves
  <2>2. boot \notin {"lid", "clone"}
    BY <1>3 DEF XS!FollowLid
  <2>3. Lit'
    BY <1>1, <2>1, <2>2, NothingSame DEF SetupsInv, Lit
  <2> QED
    BY <1>1, <1>2, <1>3, <2>1, <2>3 DEF SetupsInv, OnMonitors, Follows
<1>4. CASE XS!FollowLid /\ lid' = "closed"
  <2>1. shown' = XS!WithoutLaptop(shown)
    BY <1>4 DEF XS!LidMoves
  <2>2. OnMonitors' /\ PanelOff(shown')
    BY <1>1, <2>1, WithoutLaptopIs DEF SetupsInv, OnMonitors
  <2>3. boot # "nothing" /\ XS!Closed'
    BY <1>4 DEF XS!FollowLid, XS!Closed
  <2> QED
    BY <1>1, <1>2, <2>2, <2>3 DEF SetupsInv, Lit, Follows
<1>5. CASE XS!FollowLid /\ lid' # "closed"
  <2>1. XS!UseStoredOrAuto(shown, FALSE)
    BY <1>5 DEF XS!LidMoves
  <2>2. /\ OnMonitors'
        /\ XS!IsOn(shown') # {} \/ XS!AllOff \in XS!DefaultSetups'
    BY <1>1, <2>1, UseStoredOrAutoIs DEF SetupsInv, OnMonitors, Situation
  <2>3. ~XS!Closed'
    BY <1>5 DEF XS!Closed
  <2> QED
    BY <1>2, <2>2, <2>3 DEF SetupsInv, Lit, Follows
<1> QED
  BY <1>3, <1>4, <1>5

LEMMA SetupsStart ==
  ASSUME Boots \subseteq {"nothing", "lid", "clone", "dock"}, XS!Init
  PROVE  SetupsInv
<1> DEFINE every == [o \in XS!Outputs |->
                        IF o \in connected THEN XS!TurnOn(o, 0) ELSE XS!Off]
<1>1. /\ boot \in Boots /\ Laptop \in connected /\ lid \in {"open", "closed"}
      /\ connected \subseteq XS!Outputs
      /\ stored = [c \in {} |-> XS!AllOff] /\ fn = <<>> /\ current = 0
      /\ excused = (XS!Closed /\ XS!AllOff \in XS!DefaultSetups)
      /\ IF boot = "nothing" THEN shown = every
         ELSE \E config \in XS!DefaultSetups :
                shown = IF config = XS!AllOff THEN every ELSE config
  BY DEF XS!Init
<1>2. Situation
  BY <1>1 DEF Situation
<1>3. Layout(every) /\ XS!IsOn(every) = connected
  BY <1>1 DEF Layout, XS!IsOn, XS!Off, XS!TurnOn
<1>4. Filed
  BY <1>1 DEF Filed
<1>5. Cycled
  <2>1. Counted(fn)
    BY <1>1, EmptySeq, LenProperties DEF Counted
  <2>2. DOMAIN fn = {}
    BY <1>1
  <2> QED
    BY <1>1, <2>1, <2>2 DEF Cycled
<1> HIDE DEF every
<1>6. OnMonitors /\ Lit /\ Follows
  <2>1. CASE boot = "nothing"
    BY <1>1, <1>3, <2>1 DEF OnMonitors, Lit, Follows, XS!FollowLid
  <2>2. CASE boot # "nothing"
    <3>1. PICK t \in XS!DefaultSetups : shown = IF t = XS!AllOff THEN every ELSE t
      BY <1>1, <2>2
    <3>2. CASE t = XS!AllOff
      BY <1>1, <1>3, <3>1, <3>2 DEF OnMonitors, Lit, Follows
    <3>3. CASE t # XS!AllOff
      <4>1. Setup(t)
        BY <1>2, DefaultIs DEF Situation
      <4> QED
        BY <3>1, <3>3, <4>1, AllOffIs DEF Setup, OnMonitors, Lit, Follows
    <3> QED
      BY <3>2, <3>3
  <2> QED
    BY <2>1, <2>2
<1> QED
  BY <1>2, <1>4, <1>5, <1>6 DEF SetupsInv

LEMMA SetupsStep ==
  ASSUME SetupsInv, XS!Next \/ UNCHANGED setupsVars
  PROVE  SetupsInv'
<1>1. CASE UNCHANGED setupsVars
  <2>1. XS!DefaultSetups' = XS!DefaultSetups
    BY <1>1, DefaultSame DEF setupsVars
  <2> QED
    BY <1>1, <2>1
       DEF setupsVars, SetupsInv, Situation, OnMonitors, Filed, Cycled, Entry, Lit,
           Follows, XS!Closed, XS!FollowLid
<1> QED
  BY <1>1, FnF7Step, LidStep, HotplugStep, OtherClientStep DEF XS!Next

(***************************************************************************)
(* Sequences of what is under way                                          *)
(***************************************************************************)

LEMMA LastAppend ==
  ASSUME NEW T, NEW s \in Seq(T), NEW e \in T
  PROVE  Append(s, e) \in Seq(T) /\ Append(s, e) # <<>> /\ Last(Append(s, e)) = e
BY AppendProperties, LenProperties DEF Last

LEMMA LastTail ==
  ASSUME NEW T, NEW s \in Seq(T), s # <<>>
  PROVE  /\ Head(s) \in T /\ Tail(s) \in Seq(T)
         /\ IF Tail(s) = <<>> THEN Head(s) = Last(s) ELSE Last(Tail(s)) = Last(s)
<1>1. /\ Head(s) \in T /\ Head(s) = s[1] /\ Tail(s) \in Seq(T) /\ Len(Tail(s)) = Len(s) - 1
      /\ \A i \in 1..Len(Tail(s)) : Tail(s)[i] = s[i + 1]
  BY HeadTailProperties
<1>2. Len(s) \in Nat /\ Len(s) # 0
  BY LenProperties, EmptySeq
<1>3. Tail(s) = <<>> <=> Len(s) = 1
  BY <1>1, <1>2, EmptySeq
<1> QED
  BY <1>1, <1>2, <1>3 DEF Last

(***************************************************************************)
(* The panel as the device is held (Orientation)                           *)
(***************************************************************************)

\* The panel is turned as the orientation that was passed on, that is the
\* one known, and the last event that is not read is how the device is held.
OrientationInv ==
  /\ sensor \in OR!Orientations /\ prev \in OR!Orientations /\ call \in OR!Orientations
  /\ uevents \in Seq(OR!Orientations)
  /\ touch = panel
  /\ IF uevents = <<>> THEN ~lost => prev = sensor ELSE Last(uevents) = sensor
  /\ ~dropped => IF call = OR!Undefined THEN ~refused => panel = prev ELSE call = prev

LEMMA OrientationStart == OR!Init => OrientationInv
BY DEF OR!Init, OrientationInv, OR!Undefined, OR!Orientations

LEMMA RotationPassedOn ==
  ASSUME OrientationInv, NEW o \in OR!Orientations, NEW locked, OR!DoRotation(o, locked),
         prev' = o, panel' = panel
  PROVE  /\ call' \in OR!Orientations
         /\ ~dropped' => IF call' = OR!Undefined THEN ~refused' => panel' = prev'
                                                 ELSE call' = prev'
BY DEF OrientationInv, OR!DoRotation

LEMMA OrientationStep ==
  ASSUME OrientationInv, OR!Next \/ UNCHANGED orientationVars
  PROVE  OrientationInv'
<1>1. CASE OR!XrandrReady \/ UNCHANGED orientationVars
  BY <1>1 DEF OrientationInv, OR!XrandrReady, orientationVars
<1>2. CASE OR!DeviceTurned
  <2>1. /\ sensor' \in OR!Orientations /\ uevents' = Append(uevents, sensor')
        /\ UNCHANGED <<prev, call, panel, touch, dropped, lost, refused>>
    BY <1>2 DEF OR!DeviceTurned
  <2>2. uevents' \in Seq(OR!Orientations) /\ uevents' # <<>> /\ Last(uevents') = sensor'
    BY <2>1, LastAppend DEF OrientationInv
  <2> QED
    BY <2>1, <2>2 DEF OrientationInv
<1>3. CASE OR!Uevent
  <2>1. /\ uevents # <<>> /\ uevents' = Tail(uevents) /\ lost' = lock /\ lock' = lock
        /\ UNCHANGED <<sensor, panel, touch>>
    BY <1>3 DEF OR!Uevent
  <2>2. /\ Head(uevents) \in OR!Orientations /\ uevents' \in Seq(OR!Orientations)
        /\ IF uevents' = <<>> THEN Head(uevents) = sensor ELSE Last(uevents') = sensor'
    BY <2>1, LastTail DEF OrientationInv
  <2>3. CASE lock \/ Head(uevents) = prev
    <3>1. UNCHANGED <<prev, call, refused, dropped>>
      BY <1>3, <2>3 DEF OR!Uevent
    <3> QED
      BY <2>1, <2>2, <2>3, <3>1 DEF OrientationInv
  <2>4. CASE ~lock /\ Head(uevents) # prev
    <3>1. prev' = Head(uevents) /\ OR!DoRotation(prev', lock)
      BY <1>3, <2>4 DEF OR!Uevent
    <3>2. /\ call' \in OR!Orientations
          /\ ~dropped' => IF call' = OR!Undefined THEN ~refused' => panel' = prev'
                                                  ELSE call' = prev'
      BY <2>1, <2>2, <3>1, RotationPassedOn
    <3> QED
      BY <2>1, <2>2, <2>4, <3>1, <3>2 DEF OrientationInv
  <2> QED
    BY <2>3, <2>4
<1>4. CASE OR!LockChanged
  <2>1. UNCHANGED <<sensor, uevents, prev, panel, touch, lost>>
    BY <1>4 DEF OR!LockChanged
  <2>2. /\ call' \in OR!Orientations
        /\ ~dropped' => IF call' = OR!Undefined THEN ~refused' => panel' = prev'
                                                ELSE call' = prev'
    <3>1. CASE lock'
      BY <1>4, <2>1, <3>1 DEF OR!LockChanged, OrientationInv
    <3>2. CASE ~lock'
      <4>1. OR!DoRotation(prev, lock')
        BY <1>4, <3>2 DEF OR!LockChanged
      <4> QED
        BY <2>1, <4>1, RotationPassedOn DEF OrientationInv
    <3> QED
      BY <3>1, <3>2
  <2> QED
    BY <2>1, <2>2 DEF OrientationInv
<1>5. CASE OR!RotateTo
  BY <1>5 DEF OrientationInv, OR!RotateTo, OR!Rotate, OR!Undefined, OR!Orientations
<1>6. CASE OR!CallFails
  BY <1>6 DEF OrientationInv, OR!CallFails, OR!Undefined, OR!Orientations
<1>7. CASE OR!RotateKey
  BY <1>7 DEF OrientationInv, OR!RotateKey
<1> QED
  BY <1>1, <1>2, <1>3, <1>4, <1>5, <1>6, <1>7 DEF OR!Next

(***************************************************************************)
(* The panel of an idle session (IdleDelay)                                *)
(***************************************************************************)

\* The last signal under way tells of the presence, the notice is that of
\* the presence when none is, and without a notice the screen is, or the last
\* call under way makes it, as bright as the setting.
DelayInv ==
  /\ wire \in Seq(ID!Signals) /\ calls \in Seq(Levels)
  /\ {dim, setting, lit} \subseteq Levels
  /\ IF wire = <<>> THEN ~garbled /\ ~left /\ ~idle => ~idleNotice
     ELSE Last(wire) # "text" => (Last(wire) = "idle" <=> idle)
  /\ ~idleNotice /\ ~late /\ ~left =>
       setting = IF calls = <<>> THEN lit ELSE Last(calls)

LEMMA DelayStart == ID!Init => DelayInv
BY DEF ID!Init, DelayInv

LEMMA StatusIs ==
  ASSUME DelayInv, NEW isIdle \in BOOLEAN, ID!SetStatus(isIdle), setting' = setting,
         lit' = lit, left' = left
  PROVE  /\ idleNotice' = isIdle /\ calls' \in Seq(Levels)
         /\ ~idleNotice' /\ ~late' /\ ~left' =>
              setting' = IF calls' = <<>> THEN lit' ELSE Last(calls')
<1>1. CASE isIdle = idleNotice
  BY <1>1 DEF DelayInv, ID!SetStatus
<1>2. CASE isIdle # idleNotice
  <2> DEFINE value == IF isIdle THEN dim ELSE setting
  <2>1. /\ idleNotice' = isIdle /\ calls' = Append(calls, value)
        /\ late' = (late /\ value # setting)
    BY <1>2 DEF ID!SetStatus, ID!SetBrightness
  <2>2. value \in Levels /\ calls \in Seq(Levels) /\ (~isIdle => value = setting)
    BY DEF DelayInv
  <2>3. calls' \in Seq(Levels) /\ calls' # <<>> /\ Last(calls') = value
    BY <2>1, <2>2, LastAppend
  <2> QED
    BY <2>1, <2>2, <2>3
<1> QED
  BY <1>1, <1>2

LEMMA DelayStep ==
  ASSUME DelayInv, ID!Next \/ UNCHANGED delayVars
  PROVE  DelayInv'
<1>1. CASE ID!PresenceChanged \/ ID!TextChanged
  <2> DEFINE signal == IF ID!TextChanged THEN "text" ELSE IF idle' THEN "idle" ELSE "busy"
  <2>1. PICK e \in ID!Signals :
          /\ wire' = Append(wire, e)
          /\ e # "text" => (e = "idle" <=> idle')
          /\ UNCHANGED <<idleNotice, dim, setting, calls, lit, late, garbled, left>>
    <3>1. CASE ID!PresenceChanged
      BY <3>1 DEF ID!PresenceChanged, ID!Signals, DelayInv
    <3>2. CASE ID!TextChanged
      BY <3>2 DEF ID!TextChanged, ID!Signals, DelayInv
    <3> QED
      BY <1>1, <3>1, <3>2
  <2>2. wire' \in Seq(ID!Signals) /\ wire' # <<>> /\ Last(wire') = e
    BY <2>1, LastAppend DEF DelayInv
  <2> QED
    BY <2>1, <2>2 DEF DelayInv
<1>2. CASE ID!DimChanged \/ UNCHANGED delayVars
  BY <1>2 DEF DelayInv, ID!DimChanged, delayVars
<1>3. CASE ID!SettingChanged
  BY <1>3 DEF DelayInv, ID!SettingChanged
<1>4. CASE ID!PresenceSignal
  <2>1. /\ wire # <<>> /\ wire' = Tail(wire) /\ garbled' = (Head(wire) = "text")
        /\ UNCHANGED <<idle, dim, setting, lit, left>>
    BY <1>4 DEF ID!PresenceSignal
  <2>2. PICK isIdle \in BOOLEAN :
          (Head(wire) # "text" => isIdle = (Head(wire) = "idle")) /\ ID!SetStatus(isIdle)
    <3>1. PICK isIdle \in IF garbled' THEN BOOLEAN ELSE {Head(wire) = "idle"} :
            ID!SetStatus(isIdle)
      BY <1>4 DEF ID!PresenceSignal
    <3> QED
      BY <2>1, <3>1
  <2>3. /\ idleNotice' = isIdle /\ calls' \in Seq(Levels)
        /\ ~idleNotice' /\ ~late' /\ ~left' =>
              setting' = IF calls' = <<>> THEN lit' ELSE Last(calls')
    BY <2>1, <2>2, StatusIs
  <2>4. /\ wire' \in Seq(ID!Signals)
        /\ IF wire' = <<>> THEN Head(wire) = Last(wire) ELSE Last(wire') = Last(wire)
    BY <2>1, LastTail DEF DelayInv
  <2>5. IF wire' = <<>> THEN ~garbled' /\ ~left' /\ ~idle' => ~idleNotice'
        ELSE Last(wire') # "text" => (Last(wire') = "idle" <=> idle')
    BY <2>1, <2>2, <2>3, <2>4 DEF DelayInv
  <2> QED
    BY <2>1, <2>3, <2>4, <2>5 DEF DelayInv
<1>5. CASE ID!CallArrives
  <2>1. /\ calls # <<>> /\ lit' = Head(calls) /\ calls' = Tail(calls)
        /\ UNCHANGED <<idle, wire, idleNotice, dim, setting, late, garbled, left>>
    BY <1>5 DEF ID!CallArrives
  <2>2. /\ lit' \in Levels /\ calls' \in Seq(Levels)
        /\ IF calls' = <<>> THEN lit' = Last(calls) ELSE Last(calls') = Last(calls)
    BY <2>1, LastTail DEF DelayInv
  <2> QED
    BY <2>1, <2>2 DEF DelayInv
<1>6. CASE ID!Resume
  <2>1. /\ calls' = Append(calls, setting) /\ late' = FALSE
        /\ UNCHANGED <<idle, wire, idleNotice, dim, setting, lit, garbled, left>>
    BY <1>6 DEF ID!Resume, ID!SetBrightness
  <2>2. calls' \in Seq(Levels) /\ calls' # <<>> /\ Last(calls') = setting
    BY <2>1, LastAppend DEF DelayInv
  <2> QED
    BY <2>1, <2>2 DEF DelayInv
<1>7. CASE ID!Restart
  <2>1. /\ idleNotice' = FALSE /\ wire' = <<>> /\ left' = (left \/ idle \/ idleNotice \/ wire # <<>>)
        /\ UNCHANGED <<idle, dim, setting, calls, lit, late, garbled>>
    BY <1>7 DEF ID!Restart
  <2>2. <<>> \in Seq(ID!Signals)
    OBVIOUS
  <2> QED
    BY <2>1, <2>2 DEF DelayInv
<1> QED
  BY <1>1, <1>2, <1>3, <1>4, <1>5, <1>6, <1>7 DEF ID!Next

(***************************************************************************)
(* The plan for films (PowerParts)                                         *)
(***************************************************************************)

\* When a change of the plan was heard its limits are applied.
PlanTyped ==
  /\ plan \in Plans /\ wanted \in Plans /\ userPlan \in Plans \cup {NoPlan}
  /\ activeWindow \in ScreenWindows \cup {NoFocus} /\ fullScreen \subseteq ScreenWindows
  /\ seen \in [active : ScreenWindows \cup {NoFocus}, full : SUBSET ScreenWindows]
  /\ PW!PlanApplies

\* The window listened to is the one seen in front.
Listening ==
  /\ listening # NoFocus => listening = seen.active
  /\ ~powerRuns => listening = NoFocus

Listened == listening = seen.active /\ seen.active # NoFocus
FilmInFront == seen.active \in seen.full \cap Players

\* The user's plan is replaced, and kept, in one of two ways: the window in
\* front came there in full screen, or was put in full screen there.
Films ==
  /\ activeSet \/ hasSet =>
       powerRuns /\ listening = seen.active /\ plan = High /\ userPlan = wanted
  /\ ~activeSet /\ ~hasSet => plan = wanted
  /\ ~(activeSet /\ hasSet)
  /\ hasSet => Listened /\ FilmInFront
  /\ activeSet /\ Listened => seen.active \in seen.full
  /\ Listened /\ FilmInFront => activeSet \/ hasSet

PlanInv == PlanTyped /\ Listening /\ (~planMixed => Films)

LEMMA PlanStarts ==
  ASSUME PlanConstants, PW!PlanInit
  PROVE  PlanInv
BY DEF PlanConstants, PW!PlanInit, PlanInv, PlanTyped, Listening, Films, Listened,
       PW!PlanApplies

LEMMA PlanSet ==
  ASSUME PlanConstants, PlanTyped, NEW p \in Plans \cup {NoPlan}, PW!SetPlan(p),
         limits' = limits
  PROVE  plan' \in Plans /\ PW!PlanApplies' /\ (p # NoPlan => plan' = p)
BY DEF PlanConstants, PlanTyped, PW!SetPlan, PW!ChangePlan, PW!PlanApplies

LEMMA KeepIs ==
  ASSUME PlanConstants, PlanTyped, PW!Keep, limits' = limits
  PROVE  userPlan' = plan /\ plan' = High /\ PW!PlanApplies'
BY PlanSet DEF PlanConstants, PW!Keep

\* What a window in front does to the plan.
LEMMA ActiveChangedIs ==
  ASSUME PlanConstants, PlanInv, seen' = [seen EXCEPT !.active = activeWindow], powerRuns,
         UNCHANGED <<powerRuns, limits, wanted>>, PW!ActiveChanged(activeWindow)
  PROVE  /\ plan' \in Plans /\ userPlan' \in Plans \cup {NoPlan} /\ PW!PlanApplies'
         /\ listening' = activeWindow /\ (~planMixed' => Films')
<1> DEFINE w == activeWindow
<1>1. /\ seen'.active = w /\ seen'.full = seen.full /\ listening' = w /\ hasSet' = hasSet
      /\ NoFocus \notin seen.full
  BY DEF PlanConstants, PlanInv, PlanTyped, PW!ActiveChanged
<1>2. ASSUME w \in seen.full, NEW ok \in PW!Recognized(w), ok, activeSet' = TRUE, PW!Keep,
             planMixed' = (planMixed \/ hasSet \/ activeSet)
      PROVE  /\ plan' \in Plans /\ userPlan' \in Plans \cup {NoPlan} /\ PW!PlanApplies'
             /\ ~planMixed' => Films'
  BY <1>1, <1>2, KeepIs DEF PlanConstants, PlanInv, PlanTyped, Films, Listened, FilmInFront
<1>3. ASSUME w \in seen.full, UNCHANGED <<activeSet, userPlan, plan, planTold, planMissed>>,
             planMixed' = (planMixed \/ hasSet \/ w \in Players)
      PROVE  /\ plan' \in Plans /\ userPlan' \in Plans \cup {NoPlan} /\ PW!PlanApplies'
             /\ ~planMixed' => Films'
  BY <1>1, <1>3 DEF PlanInv, PlanTyped, Films, Listened, FilmInFront, PW!PlanApplies
<1>4. ASSUME w \notin seen.full, planMixed' = (planMixed \/ hasSet), userPlan' = userPlan,
             activeSet, w # NoFocus, activeSet' = FALSE, PW!SetPlan(userPlan)
      PROVE  /\ plan' \in Plans /\ userPlan' \in Plans \cup {NoPlan} /\ PW!PlanApplies'
             /\ ~planMixed' => Films'
  <2>1. userPlan \in Plans \cup {NoPlan}
    BY DEF PlanInv, PlanTyped
  <2>2. plan' \in Plans /\ PW!PlanApplies' /\ (userPlan # NoPlan => plan' = userPlan)
    BY <1>4, <2>1, PlanSet DEF PlanInv
  <2> QED
    BY <1>1, <1>4, <2>1, <2>2
       DEF PlanConstants, PlanInv, PlanTyped, Films, Listened, FilmInFront
<1>5. ASSUME w \notin seen.full, planMixed' = (planMixed \/ hasSet), ~(activeSet /\ w # NoFocus),
             UNCHANGED <<userPlan, activeSet, plan, planTold, planMissed>>
      PROVE  /\ plan' \in Plans /\ userPlan' \in Plans \cup {NoPlan} /\ PW!PlanApplies'
             /\ ~planMixed' => Films'
  BY <1>1, <1>5 DEF PlanInv, PlanTyped, Films, Listened, FilmInFront, PW!PlanApplies
<1>6. CASE w \in seen.full
  <2>1. PICK ok \in PW!Recognized(w) :
          /\ IF ok THEN activeSet' = TRUE /\ PW!Keep
                   ELSE UNCHANGED <<activeSet, userPlan, plan, planTold, planMissed>>
          /\ planMixed' = (planMixed \/ hasSet \/ (w \in Players /\ ~ok) \/ (ok /\ activeSet))
    BY <1>6 DEF PW!ActiveChanged
  <2>2. CASE ok
    BY <1>1, <1>2, <1>6, <2>1, <2>2
  <2>3. CASE ~ok
    BY <1>1, <1>3, <1>6, <2>1, <2>3
  <2> QED
    BY <2>2, <2>3
<1>7. CASE w \notin seen.full
  <2>1. /\ IF activeSet /\ w # NoFocus THEN activeSet' = FALSE /\ PW!SetPlan(userPlan)
                                       ELSE UNCHANGED <<activeSet, plan, planTold, planMissed>>
        /\ planMixed' = (planMixed \/ hasSet) /\ UNCHANGED userPlan
    BY <1>7 DEF PW!ActiveChanged
  <2>2. CASE activeSet /\ w # NoFocus
    BY <1>1, <1>4, <1>7, <2>1, <2>2
  <2>3. CASE ~(activeSet /\ w # NoFocus)
    BY <1>1, <1>5, <1>7, <2>1, <2>3
  <2> QED
    BY <2>2, <2>3
<1> QED
  BY <1>1, <1>6, <1>7

\* What a change of the state of the window in front does to the plan.
LEMMA StateChangedIs ==
  ASSUME PlanConstants, PlanInv, NEW w \in ScreenWindows, w = listening, powerRuns,
         seen'.active = seen.active, w \in seen'.full <=> w \notin seen.full,
         UNCHANGED <<powerRuns, limits, wanted, listening>>, PW!PlanStateChanged(w)
  PROVE  /\ plan' \in Plans /\ userPlan' \in Plans \cup {NoPlan} /\ PW!PlanApplies'
         /\ ~planMixed' => Films'
<1>1. /\ w = seen.active /\ w # NoFocus /\ activeSet' = activeSet
      /\ userPlan \in Plans \cup {NoPlan} /\ plan \in Plans
  BY DEF PlanConstants, PlanInv, PlanTyped, Listening, PW!PlanStateChanged
<1>2. PICK ok \in PW!Recognized(w) :
        /\ IF ~ok THEN UNCHANGED <<hasSet, userPlan, plan, planTold, planMissed>>
           ELSE hasSet' = ~hasSet /\ IF hasSet THEN PW!SetPlan(userPlan) /\ UNCHANGED userPlan
                                              ELSE PW!Keep
        /\ planMixed' = (planMixed \/ activeSet \/ (w \in Players /\ ~ok))
  BY DEF PW!PlanStateChanged
<1>3. ok => w \in Players
  BY <1>2 DEF PW!Recognized
<1>4. CASE ~ok
  BY <1>1, <1>2, <1>4 DEF PlanInv, PlanTyped, Films, Listened, FilmInFront, PW!PlanApplies
<1>5. CASE ok /\ hasSet
  <2>1. plan' \in Plans /\ PW!PlanApplies' /\ (userPlan # NoPlan => plan' = userPlan)
    BY <1>1, <1>2, <1>5, PlanSet DEF PlanInv
  <2>2. userPlan' = userPlan /\ hasSet' = FALSE /\ planMixed' = (planMixed \/ activeSet)
    BY <1>2, <1>5
  <2> QED
    BY <1>1, <1>3, <1>5, <2>1, <2>2
       DEF PlanConstants, PlanInv, PlanTyped, Films, Listened, FilmInFront
<1>6. CASE ok /\ ~hasSet
  <2>1. userPlan' = plan /\ plan' = High /\ PW!PlanApplies'
    BY <1>2, <1>6, KeepIs DEF PlanInv
  <2>2. hasSet' = TRUE /\ planMixed' = (planMixed \/ activeSet)
    BY <1>2, <1>6
  <2> QED
    BY <1>1, <1>3, <1>6, <2>1, <2>2
       DEF PlanConstants, PlanInv, PlanTyped, Films, Listened, FilmInFront
<1> QED
  BY <1>4, <1>5, <1>6

LEMMA PlanStep ==
  ASSUME PlanConstants, PlanInv, PW!PlanNext \/ UNCHANGED planVars
  PROVE  PlanInv'
<1>1. CASE PW!PlanStart
  <2>1. PlanTyped' /\ Listening'
    BY <1>1 DEF PlanInv, PlanTyped, Listening, PW!PlanStart, PW!movie, PW!PlanApplies
  <2>2. ~planMixed' => Films'
    BY <1>1 DEF PlanInv, Films, Listening, Listened, FilmInFront, PW!PlanStart, PW!movie
  <2> QED
    BY <2>1, <2>2 DEF PlanInv
<1>2. CASE PW!PlanStop
  <2>1. PlanTyped' /\ Listening'
    BY <1>2 DEF PlanInv, PlanTyped, Listening, PW!PlanStop, PW!PlanApplies
  <2>2. ~planMixed' => Films'
    BY <1>2 DEF PlanInv, Films, Listening, Listened, FilmInFront, PW!PlanStop
  <2> QED
    BY <2>1, <2>2 DEF PlanInv
<1>3. CASE PW!SeeActive
  <2>1. /\ seen' = [seen EXCEPT !.active = activeWindow]
        /\ UNCHANGED <<powerRuns, limits, activeWindow, fullScreen, wanted>>
    BY <1>3 DEF PW!SeeActive
  <2>2. /\ seen' \in [active : ScreenWindows \cup {NoFocus}, full : SUBSET ScreenWindows]
        /\ seen'.active = activeWindow
    BY <2>1 DEF PlanInv, PlanTyped
  <2>3. CASE powerRuns
    <3>1. PW!ActiveChanged(activeWindow)
      BY <1>3, <2>3 DEF PW!SeeActive
    <3>2. /\ plan' \in Plans /\ userPlan' \in Plans \cup {NoPlan} /\ PW!PlanApplies'
          /\ listening' = activeWindow /\ (~planMixed' => Films')
      BY <2>1, <2>3, <3>1, ActiveChangedIs
    <3> QED
      BY <2>1, <2>2, <2>3, <3>2 DEF PlanInv, PlanTyped, Listening
  <2>4. CASE ~powerRuns
    <3>1. UNCHANGED <<plan, planTold, listening, userPlan, activeSet, hasSet, planMixed, planMissed>>
      BY <1>3, <2>4 DEF PW!SeeActive, PW!movie
    <3>2. PlanTyped' /\ Listening'
      BY <2>1, <2>2, <2>4, <3>1 DEF PlanInv, PlanTyped, Listening, PW!PlanApplies
    <3>3. ~planMixed' => Films'
      BY <2>1, <2>2, <2>4, <3>1 DEF PlanInv, Films, Listening, Listened, FilmInFront
    <3> QED
      BY <3>2, <3>3 DEF PlanInv
  <2> QED
    BY <2>3, <2>4
<1>4. CASE PW!PlanHear
  <2>1. PlanTyped' /\ Listening'
    BY <1>4 DEF PlanInv, PlanTyped, Listening, PW!PlanHear, PW!PlanChanged, PW!movie,
                PW!PlanApplies
  <2>2. ~planMixed' => Films'
    BY <1>4 DEF PlanInv, Films, Listened, FilmInFront, PW!PlanHear, PW!movie
  <2> QED
    BY <2>1, <2>2 DEF PlanInv
<1>5. CASE PW!UserSetsLimits
  <2>1. PlanTyped' /\ Listening'
    BY <1>5 DEF PlanInv, PlanTyped, Listening, PW!UserSetsLimits, PW!movie, PW!PlanApplies
  <2>2. ~planMixed' => Films'
    BY <1>5 DEF PlanInv, Films, Listened, FilmInFront, PW!UserSetsLimits, PW!movie
  <2> QED
    BY <2>1, <2>2 DEF PlanInv
<1>6. ASSUME NEW w \in ScreenWindows \cup {NoFocus}, PW!Focus(w)
      PROVE  PlanInv'
  <2>1. PlanTyped' /\ Listening'
    BY <1>6 DEF PlanInv, PlanTyped, Listening, PW!Focus, PW!movie, PW!PlanApplies
  <2>2. ~planMixed' => Films'
    BY <1>6 DEF PlanInv, Films, Listened, FilmInFront, PW!Focus, PW!movie
  <2> QED
    BY <2>1, <2>2 DEF PlanInv
<1>7. ASSUME NEW w \in ScreenWindows, NEW another \in BOOLEAN, PW!Toggle(w, another)
      PROVE  PlanInv'
  <2>1. PlanTyped' /\ Listening'
    BY <1>7 DEF PlanInv, PlanTyped, Listening, PW!Toggle, PW!movie, PW!PlanApplies
  <2>2. ~planMixed' => Films'
    BY <1>7 DEF PlanInv, Films, Listened, FilmInFront, PW!Toggle, PW!movie
  <2> QED
    BY <2>1, <2>2 DEF PlanInv
<1>8. ASSUME NEW p \in Plans, PW!UserSetsPlan(p)
      PROVE  PlanInv'
  <2>1. PlanTyped' /\ Listening'
    BY <1>8 DEF PlanInv, PlanTyped, Listening, PW!UserSetsPlan, PW!ChangePlan, PW!movie,
                PW!PlanApplies
  <2>2. ~planMixed' => Films'
    BY <1>8 DEF PlanInv, Films, Listened, FilmInFront, PW!UserSetsPlan, PW!ChangePlan, PW!movie
  <2> QED
    BY <2>1, <2>2 DEF PlanInv
<1>9. ASSUME NEW w \in ScreenWindows, PW!SeeState(w)
      PROVE  PlanInv'
  <2> DEFINE changed == (w \in fullScreen) # (w \in seen.full)
  <2>1. /\ seen' = [seen EXCEPT !.full = (@ \ {w}) \cup ({w} \cap fullScreen)]
        /\ UNCHANGED <<powerRuns, limits, activeWindow, fullScreen, listening, wanted>>
    BY <1>9 DEF PW!SeeState
  <2>2. /\ seen' \in [active : ScreenWindows \cup {NoFocus}, full : SUBSET ScreenWindows]
        /\ seen'.active = seen.active
        /\ seen'.full = (seen.full \ {w}) \cup ({w} \cap fullScreen)
    BY <2>1 DEF PlanInv, PlanTyped
  <2>3. Listening'
    BY <2>1, <2>2 DEF PlanInv, Listening
  <2>4. CASE powerRuns /\ w = listening /\ changed /\ w \notin also
    <3>1. PW!PlanStateChanged(w)
      BY <1>9, <2>4 DEF PW!SeeState
    <3>2. w \in seen'.full <=> w \notin seen.full
      BY <2>2, <2>4
    <3>3. /\ plan' \in Plans /\ userPlan' \in Plans \cup {NoPlan} /\ PW!PlanApplies'
          /\ ~planMixed' => Films'
      BY <2>1, <2>2, <2>4, <3>1, <3>2, StateChangedIs
    <3> QED
      BY <2>1, <2>2, <2>3, <3>3 DEF PlanInv, PlanTyped
  <2>5. CASE ~(powerRuns /\ w = listening /\ changed /\ w \notin also)
    <3>1. /\ planMixed' = (planMixed \/ (w = listening /\ changed /\ (w \in Players \/ activeSet)))
          /\ UNCHANGED <<plan, planTold, userPlan, activeSet, hasSet, planMissed>>
      BY <1>9, <2>5 DEF PW!SeeState, PW!movie
    <3>2. PlanTyped'
      BY <2>1, <2>2, <3>1 DEF PlanInv, PlanTyped, PW!PlanApplies
    <3>3. ~planMixed' => Films'
      <4>1. CASE w = seen.active /\ changed
        BY <2>1, <2>2, <3>1, <4>1 DEF PlanInv, Films, Listening, Listened, FilmInFront
      <4>2. CASE w # seen.active \/ ~changed
        <5>1. seen.active \in seen'.full <=> seen.active \in seen.full
          BY <2>2, <4>2
        <5> QED
          BY <2>1, <2>2, <3>1, <5>1 DEF PlanInv, Films, Listened, FilmInFront
      <4> QED
        BY <4>1, <4>2
    <3> QED
      BY <2>3, <3>2, <3>3 DEF PlanInv
  <2> QED
    BY <2>4, <2>5
<1>10. CASE UNCHANGED planVars
  <2>1. PlanTyped' /\ Listening'
    BY <1>10 DEF PlanInv, PlanTyped, Listening, planVars, PW!PlanApplies
  <2>2. ~planMixed' => Films'
    BY <1>10 DEF PlanInv, Films, Listened, FilmInFront, planVars
  <2> QED
    BY <2>1, <2>2 DEF PlanInv
<1> QED
  BY <1>1, <1>2, <1>3, <1>4, <1>5, <1>6, <1>7, <1>8, <1>9, <1>10 DEF PW!PlanNext

LEMMA FilmsShown == PlanInv => PW!PlanApplies /\ PW!FilmsArePlayed
BY DEF PlanInv, PlanTyped, Listening, Films, Listened, FilmInFront, PW!FilmsArePlayed, PW!Seen

(***************************************************************************)
(* The brightness of the panel, and what is shown of it (PowerParts)       *)
(***************************************************************************)

PanelLevels == backlit.min..backlit.max

LEMMA ShareIs ==
  ASSUME NEW n \in Nat, n > 0, NEW k \in 0..n
  PROVE  (k * 100) \div n \in 0..100 /\ ((k * 100) \div n = 100 => k = n)
<1> DEFINE q == (k * 100) \div n
           r == (k * 100) % n
<1>1. k * 100 \in Nat /\ k * 100 <= n * 100
  OBVIOUS
<1>2. q \in Nat /\ r \in Nat /\ k * 100 = n * q + r
  BY <1>1
<1> HIDE DEF q, r
<1>3. n * q <= n * 100
  BY <1>1, <1>2
<1>4. q <= 100
  <2> SUFFICES ASSUME q >= 101 PROVE FALSE
    BY <1>2
  <2>1. n * q >= n * 101
    BY <1>2
  <2>2. n * q \in Nat
    BY <1>2
  <2> QED
    BY <1>3, <2>1, <2>2
<1>5. q = 100 => k * 100 >= n * 100
  BY <1>2
<1> QED
  BY <1>2, <1>4, <1>5 DEF q

LEMMA PercentageIs ==
  ASSUME PanelConstants, backlit \in Panels, NEW v \in PanelLevels
  PROVE  PW!Percentage(v) \in 0..100 /\ (PW!Percentage(v) = 100 => v = backlit.max)
<1> DEFINE n == backlit.max - backlit.min
           k == v - backlit.min
<1>1. n \in Nat /\ n > 0 /\ k \in 0..n /\ (k = n => v = backlit.max)
  BY DEF PanelConstants, PanelLevels
<1>2. PW!Percentage(v) = (k * 100) \div n
  BY DEF PW!Percentage, PanelLevels
<1> HIDE DEF n, k
<1> QED
  BY <1>1, <1>2, ShareIs

LEMMA AbsoluteIs ==
  ASSUME PanelConstants, backlit \in Panels, NEW p \in Percents
  PROVE  PW!Absolute(p) \in PanelLevels
<1> DEFINE n == backlit.max - backlit.min
           x == n * p
<1>1. n \in Nat /\ p \in 0..100 /\ backlit.min \in Nat /\ backlit.max = backlit.min + n
  BY DEF PanelConstants
<1>2. PW!Absolute(p) = backlit.min + x \div 100
  BY DEF PW!Absolute
<1> HIDE DEF n
<1>3. x \in Nat /\ x <= n * 100
  BY <1>1
<1> HIDE DEF x
<1>4. x \div 100 \in 0..n
  BY <1>1, <1>3
<1> QED
  BY <1>1, <1>2, <1>4 DEF PanelLevels

LEMMA StepIs ==
  ASSUME PanelConstants, backlit \in Panels
  PROVE  PW!Step \in Nat /\ PW!Step > 0
<1> DEFINE n == backlit.max - backlit.min + 1
<1>1. n \in Nat /\ n > 0
  BY DEF PanelConstants
<1> HIDE DEF n
<1>2. n >= 20 => n \div 20 \in Nat /\ n \div 20 > 0
  BY <1>1
<1>3. PW!Step = IF n < 20 THEN 1 ELSE n \div 20
  BY DEF PW!Step, n
<1> QED
  BY <1>1, <1>2, <1>3

\* A step up or down ends in the range, above 0 on a panel of XRandR's, and
\* there is none above the end.
LEMMA UpperLower ==
  ASSUME PanelConstants, backlit \in Panels, panelLevel \in PanelLevels
  PROVE  /\ PW!Upper \in PanelLevels /\ PW!Upper > 0
         /\ panelLevel = backlit.max => PW!Upper = backlit.max
         /\ PW!Lower \in PanelLevels /\ (backlit.path = "xrandr" => PW!Lower > 0)
<1>1. /\ backlit.min \in Nat /\ backlit.max \in Nat /\ backlit.min < backlit.max
      /\ backlit.min = 0 \/ (backlit.min = 1 /\ backlit.path = "xrandr")
      /\ PW!Step \in Nat /\ PW!Step > 0 /\ panelLevel \in backlit.min..backlit.max
  BY StepIs DEF PanelConstants, PanelLevels
<1>2. /\ PW!Upper \in backlit.min..backlit.max /\ PW!Upper > 0
      /\ panelLevel = backlit.max => PW!Upper = backlit.max
  BY <1>1 DEF PW!Upper, PW!Lesser
<1> DEFINE down == PW!Greater(panelLevel - PW!Step, 0)
<1>3. down \in Nat /\ down < backlit.max
  BY <1>1 DEF PW!Greater
<1>4. PW!Lower = IF backlit.path = "xrandr" /\ down < backlit.max THEN down + 1 ELSE down
  BY DEF PW!Lower
<1> HIDE DEF down
<1> QED
  BY <1>1, <1>2, <1>3, <1>4 DEF PanelLevels

Asks == [step : {"up", "down"}, stepping : BOOLEAN]
PanelCalls == [ask : Asks, old : Int]
PanelAnswers == [ask : Asks, old : Int, value : Int]

\* No answer is an error, and the last one of a step has the percentage n.
Real(s) == \A i \in 1..Len(s) : s[i].value >= 0
LastShows(s, n) ==
  \A i \in 1..Len(s) :
    s[i].ask.stepping /\ (\A j \in (i + 1)..Len(s) : ~s[j].ask.stepping) => s[i].value = n

LEMMA AnswerAppended ==
  ASSUME NEW s \in Seq(PanelAnswers), NEW a \in PanelAnswers, NEW n
  PROVE  /\ Append(s, a) \in Seq(PanelAnswers) /\ Append(s, a) # <<>>
         /\ Real(s) /\ a.value >= 0 => Real(Append(s, a))
         /\ a.ask.stepping /\ a.value = n => LastShows(Append(s, a), n)
         /\ ~a.ask.stepping /\ LastShows(s, n) => LastShows(Append(s, a), n)
<1> DEFINE t == Append(s, a)
<1>1. /\ t \in Seq(PanelAnswers) /\ t # <<>> /\ Len(s) \in Nat /\ Len(t) = Len(s) + 1
      /\ \A i \in 1..Len(s) : t[i] = s[i]
      /\ t[Len(s) + 1] = a
  BY AppendProperties, LenProperties
<1> HIDE DEF t
<1>2. Real(s) /\ a.value >= 0 => Real(t)
  BY <1>1 DEF Real
<1>3. ASSUME a.ask.stepping, a.value = n
      PROVE  LastShows(t, n)
  <2> SUFFICES ASSUME NEW i \in 1..Len(t), \A j \in (i + 1)..Len(t) : ~t[j].ask.stepping
               PROVE  t[i].value = n
    BY DEF LastShows
  <2>1. i = Len(s) + 1
    <3> SUFFICES ASSUME i # Len(s) + 1 PROVE FALSE
      OBVIOUS
    <3>1. Len(s) + 1 \in (i + 1)..Len(t)
      BY <1>1
    <3> QED
      BY <1>1, <1>3, <3>1
  <2> QED
    BY <1>1, <1>3, <2>1
<1>4. ASSUME ~a.ask.stepping, LastShows(s, n)
      PROVE  LastShows(t, n)
  <2> SUFFICES ASSUME NEW i \in 1..Len(t), t[i].ask.stepping,
                      \A j \in (i + 1)..Len(t) : ~t[j].ask.stepping
               PROVE  t[i].value = n
    BY DEF LastShows
  <2>1. i \in 1..Len(s) /\ t[i] = s[i]
    BY <1>1, <1>4
  <2>2. \A j \in (i + 1)..Len(s) : ~s[j].ask.stepping
    BY <1>1, <2>1
  <2> QED
    BY <1>4, <2>1, <2>2 DEF LastShows
<1> QED
  BY <1>1, <1>2, <1>3, <1>4 DEF t

LEMMA AnswerHeard ==
  ASSUME NEW s \in Seq(PanelAnswers), s # <<>>, NEW n
  PROVE  /\ Head(s) \in PanelAnswers /\ Tail(s) \in Seq(PanelAnswers)
         /\ Real(s) => Head(s).value >= 0 /\ Real(Tail(s))
         /\ LastShows(s, n) => LastShows(Tail(s), n)
         /\ LastShows(s, n) /\ Tail(s) = <<>> /\ Head(s).ask.stepping => Head(s).value = n
         /\ Len(s) <= 1 => Tail(s) = <<>>
<1> DEFINE t == Tail(s)
<1>1. /\ Head(s) \in PanelAnswers /\ t \in Seq(PanelAnswers) /\ Head(s) = s[1]
      /\ Len(t) = Len(s) - 1 /\ \A i \in 1..Len(t) : t[i] = s[i + 1]
  BY HeadTailProperties
<1>2. Len(s) \in Nat /\ Len(s) > 0 /\ (t = <<>> <=> Len(t) = 0)
  <2>1. Len(s) \in Nat /\ Len(s) # 0
    BY LenProperties, EmptySeq
  <2>2. t = <<>> <=> Len(t) = 0
    BY <1>1, EmptySeq
  <2> QED
    BY <2>1, <2>2
<1> HIDE DEF t
<1>3. Real(s) => Head(s).value >= 0 /\ Real(t)
  BY <1>1, <1>2 DEF Real
<1>4. ASSUME LastShows(s, n)
      PROVE  LastShows(t, n)
  <2> SUFFICES ASSUME NEW i \in 1..Len(t), t[i].ask.stepping,
                      \A j \in (i + 1)..Len(t) : ~t[j].ask.stepping
               PROVE  t[i].value = n
    BY DEF LastShows
  <2>1. i + 1 \in 1..Len(s) /\ t[i] = s[i + 1]
    BY <1>1, <1>2
  <2>2. ASSUME NEW j \in ((i + 1) + 1)..Len(s)
        PROVE  ~s[j].ask.stepping
    <3>1. j - 1 \in (i + 1)..Len(t) /\ j - 1 \in 1..Len(t) /\ (j - 1) + 1 = j
      BY <1>1, <1>2
    <3> QED
      BY <1>1, <1>2, <3>1
  <2> QED
    BY <1>4, <2>1, <2>2 DEF LastShows
<1>5. ASSUME LastShows(s, n), t = <<>>, Head(s).ask.stepping
      PROVE  Head(s).value = n
  <2>1. Len(s) = 1 /\ s[1].ask.stepping
    BY <1>1, <1>2, <1>5
  <2> QED
    BY <1>1, <1>5, <2>1 DEF LastShows
<1> QED
  BY <1>1, <1>2, <1>3, <1>4, <1>5 DEF t

InRange ==
  /\ backlit \in Panels /\ panelLevel \in PanelLevels /\ PW!NeverBlack
  /\ powerCalls \in Seq(PanelCalls) /\ answers \in Seq(PanelAnswers)
  /\ brightness \in Int /\ osd \in Int
  /\ osd \in 0..100 => osd = brightness

\* Answers under way, and what was shown when none is, are of the level.
Shows ==
  /\ Real(answers) /\ LastShows(answers, PW!Percentage(panelLevel))
  /\ powerCalls = <<>> /\ answers = <<>> /\ osd # PW!Unshown =>
       brightness = PW!Percentage(panelLevel)

\* One key at a time asks for the percentage, then steps from it.
OneKey ==
  /\ powerCalls = <<>> \/ answers = <<>>
  /\ Len(powerCalls) <= 1 /\ Len(answers) <= 1
  /\ powerCalls # <<>> /\ Head(powerCalls).ask.stepping =>
       Head(powerCalls).old = PW!Percentage(panelLevel)
  /\ answers # <<>> /\ ~Head(answers).ask.stepping =>
       Head(answers).value = PW!Percentage(panelLevel)
  /\ answers # <<>> /\ Head(answers).ask.stepping /\ Head(answers).ask.step = "up"
       /\ Head(answers).old = 100 => panelLevel = backlit.max
  /\ powerCalls = <<>> /\ answers = <<>> /\ osd = 101 => panelLevel = backlit.max

PanelInv == InRange /\ (~apart => Shows) /\ (~apart /\ ~hasty => OneKey)

LEMMA PanelStart ==
  ASSUME PanelConstants, PW!PanelInit
  PROVE  PanelInv
<1>1. /\ backlit \in Panels /\ panelLevel = backlit.max /\ slid = FALSE
      /\ powerCalls = <<>> /\ answers = <<>> /\ osd = PW!Unshown /\ brightness = 100
  BY DEF PW!PanelInit
<1>2. <<>> \in Seq(PanelCalls) /\ <<>> \in Seq(PanelAnswers) /\ Len(<<>>) = 0
  OBVIOUS
<1>3. InRange
  BY <1>1, <1>2 DEF InRange, PanelConstants, PanelLevels, PW!NeverBlack, PW!Unshown
<1>4. Shows /\ OneKey
  BY <1>1, <1>2 DEF Shows, OneKey, Real, LastShows, PW!Unshown
<1> QED
  BY <1>3, <1>4 DEF PanelInv

LEMMA CallTaken ==
  ASSUME NEW s \in Seq(PanelCalls), s # <<>>
  PROVE  Head(s) \in PanelCalls /\ Tail(s) \in Seq(PanelCalls) /\ (Len(s) <= 1 => Tail(s) = <<>>)
<1>1. /\ Head(s) \in PanelCalls /\ Tail(s) \in Seq(PanelCalls)
      /\ Len(s) \in Nat /\ Len(Tail(s)) = Len(s) - 1
      /\ Tail(s) = <<>> <=> Len(Tail(s)) = 0
  BY HeadTailProperties, LenProperties, EmptySeq
<1>2. Len(s) > 0
  BY EmptySeq, LenProperties
<1> QED
  BY <1>1, <1>2

LEMMA ServeStep ==
  ASSUME PanelConstants, PanelInv, PW!Serve
  PROVE  PanelInv'
<1> DEFINE head == Head(powerCalls)
           to == CASE head.ask.step = "up" -> PW!Upper
                   [] head.ask.step = "down" -> PW!Lower
           Answer(v) == [ask |-> head.ask, old |-> head.old, value |-> v]
<1>1. /\ powerCalls # <<>> /\ powerCalls' = Tail(powerCalls)
      /\ UNCHANGED <<backlit, osd, brightness, hasty>>
  BY DEF PW!Serve
<1>2. /\ head \in PanelCalls /\ powerCalls' \in Seq(PanelCalls)
      /\ Len(powerCalls) <= 1 => powerCalls' = <<>>
  BY <1>1, CallTaken DEF PanelInv, InRange
<1>3. head.ask \in Asks /\ head.old \in Int /\ head.ask.step \in {"up", "down"}
  BY <1>2 DEF PanelCalls, Asks
<1>4. /\ to = IF head.ask.step = "up" THEN PW!Upper ELSE PW!Lower
      /\ to \in PanelLevels /\ (backlit.path = "xrandr" => to > 0)
      /\ head.ask.step = "up" /\ panelLevel = backlit.max => to = backlit.max
  BY <1>3, UpperLower DEF PanelInv, InRange
<1>5. /\ PW!Percentage(to) \in 0..100 /\ PW!Percentage(panelLevel) \in 0..100
      /\ PW!Percentage(panelLevel) = 100 => panelLevel = backlit.max
  BY <1>4, PercentageIs DEF PanelInv, InRange
<1>6. \/ \E v \in {-1, PW!Percentage(to)} :
           apart' = TRUE /\ answers' = Append(answers, Answer(v)) /\ UNCHANGED <<panelLevel, slid>>
      \/ /\ ~head.ask.stepping /\ answers' = Append(answers, Answer(PW!Percentage(panelLevel)))
         /\ UNCHANGED <<panelLevel, apart, slid>>
      \/ /\ head.ask.stepping /\ answers' = Append(answers, Answer(PW!Percentage(to)))
         /\ panelLevel' = to /\ slid' = FALSE /\ apart' = apart
  BY DEF PW!Serve, PW!Answer
<1> HIDE DEF to
<1>7. ASSUME NEW v \in Int
      PROVE  Answer(v) \in PanelAnswers
  BY <1>3 DEF PanelAnswers
<1>8. ASSUME NEW v \in {-1, PW!Percentage(to)}, apart' = TRUE,
             answers' = Append(answers, Answer(v)), UNCHANGED <<panelLevel, slid>>
      PROVE  PanelInv'
  <2>1. answers' \in Seq(PanelAnswers)
    BY <1>5, <1>7, <1>8, AnswerAppended DEF PanelInv, InRange
  <2> QED
    BY <1>1, <1>2, <1>8, <2>1 DEF PanelInv, InRange, PanelLevels, PW!NeverBlack
<1>9. ASSUME NEW level \in PanelLevels, panelLevel' = level, apart' = apart,
             answers' = Append(answers, Answer(PW!Percentage(level))),
             PW!Percentage(level) \in 0..100,
             head.ask.stepping \/ level = panelLevel, PW!NeverBlack',
             head.ask.stepping /\ head.ask.step = "up" /\ panelLevel = backlit.max
               => level = backlit.max
      PROVE  PanelInv'
  <2> DEFINE a == Answer(PW!Percentage(level))
  <2>1. a \in PanelAnswers /\ a.ask = head.ask /\ a.old = head.old /\ a.value = PW!Percentage(level)
    BY <1>7, <1>9
  <2>2. PW!Percentage(panelLevel)' = PW!Percentage(level)
    BY <1>1, <1>9 DEF PW!Percentage
  <2>3. answers' \in Seq(PanelAnswers) /\ answers' # <<>>
    BY <1>9, <2>1, AnswerAppended DEF PanelInv, InRange
  <2>4. InRange'
    BY <1>1, <1>2, <1>9, <2>3 DEF PanelInv, InRange, PanelLevels
  <2>5. ASSUME ~apart
        PROVE  Shows'
    <3>1. Real(answers) /\ LastShows(answers, PW!Percentage(panelLevel)) /\ answers \in Seq(PanelAnswers)
      BY <2>5 DEF PanelInv, InRange, Shows
    <3>2. Real(answers')
      <4> HIDE DEF a
      <4>1. PW!Percentage(level) \in 0..100
        BY <1>9
      <4>2. a.value >= 0
        BY <2>1, <4>1
      <4>3. Real(Append(answers, a))
        BY <2>1, <3>1, <4>2, AnswerAppended
      <4> QED
        BY <1>9, <4>3 DEF a
    <3>3. LastShows(answers', PW!Percentage(level))
      <4>1. CASE head.ask.stepping
        BY <1>9, <2>1, <3>1, <4>1, AnswerAppended
      <4>2. CASE ~head.ask.stepping
        BY <1>9, <2>1, <3>1, <4>2, AnswerAppended
      <4> QED
        BY <4>1, <4>2
    <3> QED
      BY <2>2, <2>3, <3>2, <3>3 DEF Shows
  <2>6. ASSUME ~apart, ~hasty
        PROVE  OneKey'
    <3>1. /\ answers = <<>> /\ Len(powerCalls) <= 1
          /\ head.ask.stepping => head.old = PW!Percentage(panelLevel)
      BY <1>1, <2>6 DEF PanelInv, OneKey
    <3>2. powerCalls' = <<>> /\ answers' = <<a>>
      BY <1>2, <1>9, <3>1
    <3>3. Head(answers') = a /\ Len(answers') = 1 /\ Len(powerCalls') = 0
      BY <3>2
    <3>4. backlit' = backlit
      BY <1>1
    <3> QED
      BY <1>5, <1>9, <2>1, <2>2, <2>3, <3>1, <3>2, <3>3, <3>4 DEF OneKey
  <2> QED
    BY <1>1, <1>9, <2>4, <2>5, <2>6 DEF PanelInv
<1>10. CASE /\ ~head.ask.stepping /\ answers' = Append(answers, Answer(PW!Percentage(panelLevel)))
            /\ UNCHANGED <<panelLevel, apart, slid>>
  <2>1. PW!NeverBlack' /\ panelLevel \in PanelLevels
    BY <1>1, <1>10 DEF PanelInv, InRange, PW!NeverBlack
  <2> QED
    BY <1>5, <1>9, <1>10, <2>1
<1>11. CASE /\ head.ask.stepping /\ answers' = Append(answers, Answer(PW!Percentage(to)))
            /\ panelLevel' = to /\ slid' = FALSE /\ apart' = apart
  <2>1. PW!NeverBlack'
    BY <1>1, <1>4, <1>11 DEF PW!NeverBlack
  <2> QED
    BY <1>4, <1>5, <1>9, <1>11, <2>1
<1> QED
  BY <1>6, <1>8, <1>10, <1>11

LEMMA PanelHearStep ==
  ASSUME PanelConstants, PanelInv, PW!PanelHear
  PROVE  PanelInv'
<1> DEFINE a == Head(answers)
<1>1. /\ answers # <<>> /\ answers' = Tail(answers)
      /\ UNCHANGED <<backlit, panelLevel, apart, slid, hasty>>
  BY DEF PW!PanelHear
<1>2. /\ a \in PanelAnswers /\ answers' \in Seq(PanelAnswers)
      /\ Real(answers) => a.value >= 0 /\ Real(answers')
      /\ \A n : /\ LastShows(answers, n) => LastShows(answers', n)
                /\ LastShows(answers, n) /\ answers' = <<>> /\ a.ask.stepping => a.value = n
      /\ Len(answers) <= 1 => answers' = <<>>
  BY <1>1, AnswerHeard DEF PanelInv, InRange
<1>3. a.ask \in Asks /\ a.old \in Int /\ a.value \in Int
  BY <1>2 DEF PanelAnswers
<1>4. PW!Percentage(panelLevel)' = PW!Percentage(panelLevel)
  BY <1>1 DEF PW!Percentage
<1>5. /\ PW!Percentage(panelLevel) \in 0..100
      /\ PW!Percentage(panelLevel) = 100 => panelLevel = backlit.max
  BY PercentageIs DEF PanelInv, InRange
<1>6. CASE a.ask.stepping
  <2>1. /\ IF a.value < 0 THEN UNCHANGED <<osd, brightness>>
           ELSE osd' = PW!Shown(a) /\ brightness' = a.value
        /\ UNCHANGED powerCalls
    BY <1>6 DEF PW!PanelHear, PW!UpdateScreen
  <2>2. /\ PW!Shown(a) \in {-1, 101, a.value}
        /\ PW!Shown(a) = 101 => (a.old = 100 /\ a.ask.step = "up") \/ a.value = 101
    BY <1>3 DEF PW!Shown
  <2>3. InRange'
    <3>1. brightness' \in Int /\ osd' \in Int /\ (osd' \in 0..100 => osd' = brightness')
      <4>1. CASE a.value < 0
        BY <2>1, <4>1 DEF PanelInv, InRange
      <4>2. CASE ~(a.value < 0)
        BY <1>3, <2>1, <2>2, <4>2
      <4> QED
        BY <4>1, <4>2
    <3> QED
      BY <1>1, <1>2, <2>1, <3>1 DEF PanelInv, InRange, PanelLevels, PW!NeverBlack
  <2>4. ASSUME ~apart
        PROVE  Shows' /\ a.value >= 0
    <3>1. Real(answers) /\ LastShows(answers, PW!Percentage(panelLevel))
      BY <2>4 DEF PanelInv, Shows
    <3>2. /\ Real(answers') /\ LastShows(answers', PW!Percentage(panelLevel)) /\ a.value >= 0
          /\ answers' = <<>> => a.value = PW!Percentage(panelLevel)
      BY <1>2, <1>6, <3>1
    <3> QED
      BY <1>3, <1>4, <2>1, <3>2 DEF Shows
  <2>5. ASSUME ~apart, ~hasty
        PROVE  OneKey'
    <3>1. /\ powerCalls = <<>> /\ Len(answers) <= 1
          /\ a.ask.step = "up" /\ a.old = 100 => panelLevel = backlit.max
      BY <1>1, <1>6, <2>5 DEF PanelInv, OneKey
    <3>2. answers' = <<>> /\ powerCalls' = <<>> /\ Len(answers') = 0 /\ Len(powerCalls') = 0
      BY <1>2, <2>1, <3>1
    <3>3. a.value = PW!Percentage(panelLevel)
      BY <1>2, <1>6, <2>5, <3>2 DEF PanelInv, Shows
    <3>4. osd' = 101 => panelLevel = backlit.max
      <4>1. osd' = PW!Shown(a)
        BY <2>1, <2>4, <2>5, <1>3
      <4>2. a.value # 101
        BY <1>5, <3>3
      <4> QED
        BY <2>2, <3>1, <4>1, <4>2
    <3> QED
      BY <1>1, <3>2, <3>4 DEF OneKey
  <2> QED
    BY <1>1, <2>3, <2>4, <2>5 DEF PanelInv
<1>7. CASE ~a.ask.stepping
  <2> DEFINE c == [ask |-> [a.ask EXCEPT !.stepping = TRUE], old |-> a.value]
  <2>1. /\ powerCalls' = IF a.value < 0 THEN powerCalls ELSE Append(powerCalls, c)
        /\ UNCHANGED <<osd, brightness>>
    BY <1>7 DEF PW!PanelHear, PW!GotOld
  <2>2. c \in PanelCalls /\ c.old = a.value
    BY <1>3 DEF PanelCalls, Asks
  <2>3. Append(powerCalls, c) \in Seq(PanelCalls) /\ Append(powerCalls, c) # <<>>
    BY <2>2, LastAppend DEF PanelInv, InRange
  <2>4. InRange'
    BY <1>1, <1>2, <2>1, <2>3 DEF PanelInv, InRange, PanelLevels, PW!NeverBlack
  <2>5. ASSUME ~apart
        PROVE  Shows' /\ powerCalls' = Append(powerCalls, c)
    <3>1. Real(answers) /\ LastShows(answers, PW!Percentage(panelLevel))
      BY <2>5 DEF PanelInv, Shows
    <3>2. Real(answers') /\ LastShows(answers', PW!Percentage(panelLevel)) /\ a.value >= 0
      BY <1>2, <3>1
    <3>3. powerCalls' = Append(powerCalls, c)
      BY <1>3, <2>1, <3>2
    <3> QED
      BY <1>4, <2>3, <3>2, <3>3 DEF Shows
  <2>6. ASSUME ~apart, ~hasty
        PROVE  OneKey'
    <3>1. powerCalls = <<>> /\ Len(answers) <= 1 /\ a.value = PW!Percentage(panelLevel)
      BY <1>1, <1>7, <2>6 DEF PanelInv, OneKey
    <3>2. answers' = <<>> /\ powerCalls' = <<c>>
      BY <1>2, <2>5, <2>6, <3>1
    <3>3. Len(answers') = 0 /\ Len(powerCalls') = 1 /\ Head(powerCalls') = c
      BY <3>2
    <3> QED
      BY <1>4, <2>2, <2>3, <2>5, <2>6, <3>1, <3>2, <3>3 DEF OneKey
  <2> QED
    BY <1>1, <2>4, <2>5, <2>6 DEF PanelInv
<1> QED
  BY <1>6, <1>7

LEMMA KeyStep ==
  ASSUME PanelConstants, PanelInv, NEW step \in {"up", "down"}, PW!Key(step)
  PROVE  PanelInv'
<1> DEFINE c == [ask |-> [step |-> step, stepping |-> FALSE], old |-> 0]
           alone == powerCalls = <<>> /\ answers = <<>>
<1>1. /\ powerCalls' = Append(powerCalls, c) /\ apart' = (apart /\ ~alone) /\ hasty' = ~alone
      /\ UNCHANGED <<backlit, panelLevel, answers, osd, brightness, slid>>
  BY DEF PW!Key
<1>2. c \in PanelCalls /\ ~c.ask.stepping
  BY DEF PanelCalls, Asks
<1>3. powerCalls' \in Seq(PanelCalls) /\ powerCalls' # <<>>
  BY <1>1, <1>2, LastAppend DEF PanelInv, InRange
<1>4. InRange'
  BY <1>1, <1>3 DEF PanelInv, InRange, PanelLevels, PW!NeverBlack
<1>5. PW!Percentage(panelLevel)' = PW!Percentage(panelLevel)
  BY <1>1 DEF PW!Percentage
<1>6. ASSUME ~apart'
      PROVE  Shows'
  <2>1. CASE alone
    <3>1. answers' = <<>> /\ Len(answers') = 0
      BY <1>1, <2>1
    <3> QED
      BY <1>3, <3>1 DEF Shows, Real, LastShows
  <2>2. CASE ~alone
    BY <1>1, <1>3, <1>5, <1>6, <2>2 DEF PanelInv, Shows
  <2> QED
    BY <2>1, <2>2
<1>7. ASSUME ~hasty'
      PROVE  OneKey'
  <2>1. alone
    BY <1>1, <1>7
  <2>2. powerCalls' = <<c>> /\ answers' = <<>>
    <3> HIDE DEF c
    <3> QED
      BY <1>1, <2>1
  <2>3. Len(answers') = 0 /\ Len(powerCalls') = 1 /\ Head(powerCalls') = c
    BY <2>2
  <2> QED
    BY <1>2, <1>3, <2>2, <2>3 DEF OneKey
<1> QED
  BY <1>4, <1>6, <1>7 DEF PanelInv

LEMMA PanelStep ==
  ASSUME PanelConstants, PanelInv, PW!PanelNext \/ UNCHANGED panelVars
  PROVE  PanelInv'
<1>1. CASE PW!Serve
  BY <1>1, ServeStep
<1>2. CASE PW!PowerSwitches \/ UNCHANGED panelVars
  <2>1. UNCHANGED <<backlit, panelLevel, powerCalls, answers, osd, brightness, apart, slid, hasty>>
    BY <1>2 DEF PW!PowerSwitches, panelVars
  <2>2. PW!Percentage(panelLevel)' = PW!Percentage(panelLevel)
    BY <2>1 DEF PW!Percentage
  <2> QED
    BY <2>1, <2>2 DEF PanelInv, InRange, PanelLevels, PW!NeverBlack, Shows, OneKey
<1>3. CASE PW!PanelHear
  BY <1>3, PanelHearStep
<1>4. ASSUME NEW p \in Percents, PW!SetPercentage(p) PROVE PanelInv'
  <2>1. /\ panelLevel' = PW!Absolute(p) /\ apart' = TRUE /\ slid' = TRUE
        /\ UNCHANGED <<backlit, powerCalls, answers, osd, brightness, hasty>>
    BY <1>4 DEF PW!SetPercentage
  <2>2. PW!Absolute(p) \in PanelLevels
    BY AbsoluteIs DEF PanelInv, InRange
  <2> QED
    BY <2>1, <2>2 DEF PanelInv, InRange, PanelLevels, PW!NeverBlack
<1>5. ASSUME NEW step \in {"up", "down"}, PW!Key(step) PROVE PanelInv'
  BY <1>5, KeyStep
<1> QED
  BY <1>1, <1>2, <1>3, <1>4, <1>5 DEF PW!PanelNext

LEMMA PanelShows == PanelInv => PW!NeverBlack /\ PW!ShownIsThere
BY DEF PanelInv, InRange, Shows, OneKey, PW!ShownIsThere

(***************************************************************************)
(* The battery of a phone (PowerParts)                                     *)
(***************************************************************************)

Message == [kind : {"appeared", "vanished", "state", "number"}, n : Nat]

\* Of a manager that has gone the last message under way is that it did, and
\* without a proxy no phone is present.
PhoneInv ==
  /\ bus \in Seq(Message)
  /\ (present => proxy) /\ (early => present)
  /\ ~phonePower => bus = <<>> /\ ~proxy
  /\ ~phoneManaged => IF bus = <<>> THEN ~proxy ELSE Last(bus).kind = "vanished"
  /\ listed = IF present /\ ~early THEN 1 ELSE 0

LEMMA PhoneStart == PW!PhoneInit => PhoneInv
BY DEF PW!PhoneInit, PhoneInv

LEMMA Told ==
  ASSUME PhoneInv, NEW m \in Message, PW!Tell(m)
  PROVE  /\ bus' \in Seq(Message)
         /\ IF phonePower THEN bus' # <<>> /\ Last(bus') = m ELSE bus' = <<>> /\ bus = <<>>
BY LastAppend DEF PhoneInv, PW!Tell

LEMMA PhoneHears ==
  ASSUME PhoneInv, PW!PhoneHear
  PROVE  /\ (present' => proxy') /\ (early' => present')
         /\ Head(bus).kind = "vanished" => ~proxy'
         /\ proxy' => proxy \/ Head(bus).kind = "appeared"
         /\ listed' = IF present' /\ ~early' THEN 1 ELSE 0
<1> DEFINE m == Head(bus)
<1>1. m \in Message
  BY LastTail DEF PhoneInv, PW!PhoneHear
<1>2. \/ m.kind = "appeared" /\ PW!Appeared
      \/ m.kind = "vanished" /\ PW!Vanished
      \/ m.kind \in {"state", "number"} /\ ~proxy /\ UNCHANGED PW!phone
      \/ m.kind = "state" /\ proxy /\ PW!PhoneStateChanged
      \/ m.kind = "number" /\ proxy /\ PW!NumberChanged(m)
  BY DEF PW!PhoneHear
<1>3. CASE m.kind = "appeared" /\ PW!Appeared
  BY <1>3 DEF PhoneInv, PW!Appeared
<1>4. CASE m.kind = "vanished" /\ PW!Vanished
  BY <1>4 DEF PhoneInv, PW!Vanished, PW!Forget, PW!Removed
<1>5. CASE m.kind \in {"state", "number"} /\ ~proxy /\ UNCHANGED PW!phone
  BY <1>5 DEF PhoneInv, PW!phone
<1>6. CASE m.kind = "state" /\ proxy /\ PW!PhoneStateChanged
  BY <1>6 DEF PhoneInv, PW!PhoneStateChanged
<1>7. CASE m.kind = "number" /\ proxy /\ PW!NumberChanged(m)
  <2>1. m.n \in Nat
    BY <1>1 DEF Message
  <2> QED
    BY <1>7, <2>1 DEF PhoneInv, PW!NumberChanged, PW!Forget, PW!Removed
<1> QED
  BY <1>2, <1>3, <1>4, <1>5, <1>6, <1>7

LEMMA PhoneStep ==
  ASSUME PhoneInv, PW!PhoneNext \/ UNCHANGED phoneVars
  PROVE  PhoneInv'
<1>1. CASE PW!PhoneStart
  <2> DEFINE m == PW!Msg(IF phoneManaged THEN "appeared" ELSE "vanished", 0)
  <2>1. /\ ~phonePower /\ phonePower' = TRUE /\ bus' = <<m>>
        /\ UNCHANGED <<phoneManaged, proxy, present, listed, early>>
    BY <1>1 DEF PW!PhoneStart, PW!phone
  <2>2. m \in Message /\ (~phoneManaged => m.kind = "vanished")
    BY DEF PW!Msg, Message
  <2>3. <<m>> \in Seq(Message) /\ <<m>> # <<>> /\ Last(<<m>>) = m
    BY <2>2 DEF Last
  <2> QED
    BY <2>1, <2>2, <2>3 DEF PhoneInv
<1>2. CASE PW!PhoneStop
  BY <1>2 DEF PhoneInv, PW!PhoneStop
<1>3. CASE PW!ManagerStarts
  <2>1. PW!Msg("appeared", 0) \in Message
    BY DEF PW!Msg, Message
  <2>2. /\ phoneManaged' = TRUE /\ PW!Tell(PW!Msg("appeared", 0))
        /\ UNCHANGED <<phonePower, proxy, present, listed, early>>
    BY <1>3 DEF PW!ManagerStarts, PW!phone
  <2> QED
    BY <2>1, <2>2, Told DEF PhoneInv
<1>4. CASE PW!ManagerExits
  <2>1. PW!Msg("vanished", 0) \in Message /\ PW!Msg("vanished", 0).kind = "vanished"
    BY DEF PW!Msg, Message
  <2>2. /\ phoneManaged' = FALSE /\ PW!Tell(PW!Msg("vanished", 0))
        /\ UNCHANGED <<phonePower, proxy, present, listed, early>>
    BY <1>4 DEF PW!ManagerExits, PW!phone
  <2> QED
    BY <2>1, <2>2, Told DEF PhoneInv
<1>5. ASSUME NEW n \in 0..MaxBatteries, PW!ManagerCounts(n)
      PROVE  PhoneInv'
  <2>1. PW!Msg("number", n) \in Message
    BY DEF PW!Msg, Message
  <2>2. /\ phoneManaged /\ PW!Tell(PW!Msg("number", n))
        /\ UNCHANGED <<phoneManaged, phonePower, proxy, present, listed, early>>
    BY <1>5 DEF PW!ManagerCounts, PW!phone
  <2> QED
    BY <2>1, <2>2, Told DEF PhoneInv
<1>6. CASE PW!ManagerTells
  <2>1. PW!Msg("state", 1) \in Message
    BY DEF PW!Msg, Message
  <2>2. /\ phoneManaged /\ PW!Tell(PW!Msg("state", 1))
        /\ UNCHANGED <<phoneManaged, phonePower, proxy, present, listed, early>>
    BY <1>6 DEF PW!ManagerTells, PW!phone
  <2> QED
    BY <2>1, <2>2, Told DEF PhoneInv
<1>7. CASE PW!PhoneHear
  <2>1. bus # <<>> /\ bus' = Tail(bus) /\ UNCHANGED <<phonePower, phoneManaged>>
    BY <1>7 DEF PW!PhoneHear
  <2>2. /\ bus' \in Seq(Message)
        /\ IF bus' = <<>> THEN Head(bus) = Last(bus) ELSE Last(bus') = Last(bus)
    BY <2>1, LastTail DEF PhoneInv
  <2> QED
    BY <1>7, <2>1, <2>2, PhoneHears DEF PhoneInv
<1>8. CASE UNCHANGED phoneVars
  BY <1>8 DEF PhoneInv, phoneVars
<1> QED
  BY <1>1, <1>2, <1>3, <1>4, <1>5, <1>6, <1>7, <1>8 DEF PW!PhoneNext

(***************************************************************************)
(* The parts together: the one that moves keeps its invariant              *)
(***************************************************************************)

ScreensInv ==
  /\ focus = "setups" => SetupsInv
  /\ focus = "orientation" => OrientationInv
  /\ focus = "delay" => DelayInv
  /\ focus = "plan" => PlanInv
  /\ focus = "panel" => PanelInv
  /\ focus = "phone" => PhoneInv

LEMMA PartMoves ==
  ASSUME [UNCHANGED focus /\ ScreensNext]_<<focus, screenVars>>
  PROVE  /\ focus' = focus
         /\ focus = "setups" => XS!Next \/ UNCHANGED setupsVars
         /\ focus = "orientation" => OR!Next \/ UNCHANGED orientationVars
         /\ focus = "delay" => ID!Next \/ UNCHANGED delayVars
         /\ focus = "plan" => PW!PlanNext \/ UNCHANGED planVars
         /\ focus = "panel" => PW!PanelNext \/ UNCHANGED panelVars
         /\ focus = "phone" => PW!PhoneNext \/ UNCHANGED phoneVars
BY Zenon DEF ScreensNext, screenVars

\* What each part's invariant says of what is seen.
LEMMA ScreensAreRight == ScreensInv => ScreensFollow
<1>1. SetupsInv => XS!NeverBlack /\ XS!LidFollowed
  BY DEF SetupsInv, Lit, Follows, PanelOff, XS!NeverBlack, XS!LidFollowed
<1>2. OrientationInv => OR!Upright /\ OR!TouchTurned
  BY DEF OrientationInv, OR!Upright, OR!Quiet, OR!TouchTurned
<1>3. DelayInv => ID!Brightened
  BY DEF DelayInv, ID!Brightened
<1>4. PhoneInv => PW!PhoneListed
  BY DEF PhoneInv, PW!PhoneListed
<1> QED
  BY <1>1, <1>2, <1>3, <1>4, FilmsShown, PanelShows DEF ScreensInv, ScreensFollow

\* Whatever monitors come and go, whatever was stored and for any lid, keys and
\* modes, something is shown if a setup can be made up for the monitors, and the
\* panel of a closed laptop is off while another monitor is on; the panel is
\* turned with the device and bright again when the session is not idle; films
\* have the plan for films and only they; keys never make a panel of XRandR's
\* black and show what there is; and one phone is listed while one is present.
THEOREM ScreensFollowed == ScreensSpec => []ScreensFollow
<1> DEFINE Step == UNCHANGED focus /\ ScreensNext
<1>1. ScreensInit => ScreensInv
  BY ScreensAssumption, SetupsStart, OrientationStart, DelayStart, PlanStarts, PanelStart,
     PhoneStart DEF ScreensInit, ScreensInv
<1>2. ScreensInv /\ [Step]_<<focus, screenVars>> => ScreensInv'
  <2> SUFFICES ASSUME ScreensInv, [Step]_<<focus, screenVars>> PROVE ScreensInv'
    OBVIOUS
  <2>1. /\ focus' = focus
        /\ focus = "setups" => XS!Next \/ UNCHANGED setupsVars
        /\ focus = "orientation" => OR!Next \/ UNCHANGED orientationVars
        /\ focus = "delay" => ID!Next \/ UNCHANGED delayVars
        /\ focus = "plan" => PW!PlanNext \/ UNCHANGED planVars
        /\ focus = "panel" => PW!PanelNext \/ UNCHANGED panelVars
        /\ focus = "phone" => PW!PhoneNext \/ UNCHANGED phoneVars
    BY PartMoves
  <2> QED
    BY <2>1, ScreensAssumption, SetupsStep, OrientationStep, DelayStep, PlanStep, PanelStep,
       PhoneStep DEF ScreensInv
<1> QED
  BY <1>1, <1>2, ScreensAreRight, PTL DEF ScreensSpec
==============================================================================
