----------------------- MODULE SettingsManagerProofs -----------------------
(***************************************************************************)
(* That a plugin follows its key, that the plugins are listed in their     *)
(* order and each module once, and the types, for any directory of plugins.*)
(*                                                                         *)
(* The inductive invariant of the first adds to FollowsKey the types of    *)
(* key and info and that nothing is listed unless the manager is started:  *)
(* a key written at any other time is not remembered as changed.           *)
(*                                                                         *)
(* The second is about what the start computes: the fold of _load_file     *)
(* over the directory and the stable sort of g_slist_sort.  Both arguments *)
(* are by least counterexample (LeastNumber), which takes the place of an  *)
(* induction rule that the provers could not instantiate.                  *)
(***************************************************************************)
EXTENDS SettingsManager, SequenceTheorems, FiniteSetTheorems,
        WellFoundedInduction, TLAPS

-----------------------------------------------------------------------------
(* Numbers                                                                 *)

Less == {p \in Nat \X Nat : p[1] < p[2]}

LEMMA LeastNumber ==
  ASSUME NEW T \in SUBSET Nat, T # {}
  PROVE  \E n \in T : \A m \in T : n <= m
<1>1. Less = OpToRel(<, Nat)
  BY Zenon DEF OpToRel, Less
<1>2. IsWellFoundedOn(Less, Nat)
  BY <1>1, NatLessThanWellFounded, Zenon
<1>3. PICK x \in T : \A y \in T : <<y, x>> \notin Less
  BY <1>2, WFMin
<1>4. \A y \in T : <<y, x>> \in Nat \X Nat /\ <<y, x>>[1] = y /\ <<y, x>>[2] = x
  OBVIOUS
<1>5. \A y \in T : ~(y < x)
  BY <1>3, <1>4 DEF Less
<1> QED
  BY <1>5

\* A set of indices that is not empty has its maximum.
LEMMA MaxIs ==
  ASSUME NEW n \in Nat, NEW u \in SUBSET (1..n), u # {}
  PROVE  Max(u) \in u /\ \A y \in u : Max(u) >= y
<1> DEFINE T == {m \in 0..n : \A y \in u : y <= m}
<1>1. n \in T /\ T \subseteq Nat
  OBVIOUS
<1> HIDE DEF T
<1>2. PICK m \in T : \A k \in T : m <= k
  BY <1>1, LeastNumber
<1>3. m \in 0..n /\ \A y \in u : y <= m
  BY DEF T
<1>4. m \in u
  <2> SUFFICES ASSUME m \notin u PROVE FALSE
    OBVIOUS
  <2>1. \A y \in u : y \in Nat /\ y >= 1 /\ y < m
    BY <1>3
  <2>2. PICK y \in u : TRUE
    OBVIOUS
  <2>3. m \in 1..n
    BY <1>3, <2>1, <2>2
  <2>4. m - 1 \in 0..n /\ \A z \in u : z <= m - 1
    BY <2>1, <2>3
  <2>5. m - 1 \in T
    BY <2>4 DEF T
  <2> QED
    BY <1>2, <2>3, <2>5
<1>5. \E x \in u : \A y \in u : x >= y
  BY <1>3, <1>4
<1> QED
  BY <1>5 DEF Max

-----------------------------------------------------------------------------
(* The plugins of the directory                                            *)

\* A list _load_file may have built: known modules, each once.
Listed(list) ==
  /\ list \in Seq(Files)
  /\ \A n \in DOMAIN list : Location[list[n]] \in Schemas
  /\ \A a, b \in DOMAIN list :
       a # b => Location[list[a]] # Location[list[b]]

LEMMA PrependedIs ==
  ASSUME NEW list, Listed(list), NEW f \in Files
  PROVE  Listed(Prepended(list, f))
<1> DEFINE l == Len(list)
           new == <<f>> \o list
<1>1. /\ list \in Seq(Files) /\ l \in Nat /\ DOMAIN list = 1..l
      /\ \A n \in 1..l : list[n] \in Files
  BY DEF Listed
<1>2. CASE /\ \A n \in DOMAIN list : Location[list[n]] # Location[f]
           /\ Location[f] \in Schemas
  <2>1. /\ <<f>> \in Seq(Files) /\ Len(<<f>>) = 1 /\ <<f>>[1] = f
    OBVIOUS
  <2>2. /\ new \in Seq(Files) /\ Len(new) = 1 + l
        /\ \A n \in 1..(1 + l) :
             new[n] = IF n <= 1 THEN <<f>>[n] ELSE list[n - 1]
    BY <1>1, <2>1, ConcatProperties
  <2> HIDE DEF new, l
  <2>3. DOMAIN new = 1..(1 + l)
    BY <1>1, <2>2
  <2>4. \A n \in 1..(1 + l) : \/ n = 1 /\ new[n] = f
                              \/ n # 1 /\ n - 1 \in 1..l /\ new[n] = list[n - 1]
    BY <1>1, <2>1, <2>2
  <2>5. \A n \in 1..(1 + l) : Location[new[n]] \in Schemas
    BY <1>1, <1>2, <2>4 DEF Listed
  <2>6. ASSUME NEW a \in 1..(1 + l), NEW b \in 1..(1 + l), a # b
        PROVE  Location[new[a]] # Location[new[b]]
    <3>1. CASE a = 1
      BY <1>1, <1>2, <2>4, <2>6, <3>1
    <3>2. CASE b = 1
      BY <1>1, <1>2, <2>4, <2>6, <3>2
    <3>3. CASE a # 1 /\ b # 1
      <4>1. a - 1 \in 1..l /\ b - 1 \in 1..l /\ a - 1 # b - 1
        BY <1>1, <2>6, <3>3
      <4>2. new[a] = list[a - 1] /\ new[b] = list[b - 1]
        BY <2>4, <3>3
      <4> QED
        BY <1>1, <4>1, <4>2 DEF Listed
    <3> QED
      BY <3>1, <3>2, <3>3
  <2>7. Listed(new)
    BY <2>2, <2>3, <2>5, <2>6 DEF Listed
  <2>8. Prepended(list, f) = new \/ Prepended(list, f) = list
    BY DEF Prepended, new
  <2> QED
    BY <2>7, <2>8
<1>3. CASE ~(/\ \A n \in DOMAIN list : Location[list[n]] # Location[f]
             /\ Location[f] \in Schemas)
  BY <1>3 DEF Prepended
<1> QED
  BY <1>2, <1>3

\* Whichever order the directory is read in.
LEMMA ListingsAreListed ==
  ASSUME NEW list \in Listings
  PROVE  Listed(list)
<1>1. PICK order \in SetToSeqs(Files) : list = FoldLeft(Prepended, <<>>, order)
  BY DEF Listings
<1> DEFINE C == Cardinality(Files)
           Step(it, u) == Prepended(it[u \ {Max(u)}], order[Max(u)])
           Eq(it, n) == it = [u \in SUBSET (1..n) |->
                                IF u = {} THEN <<>> ELSE Step(it, u)]
<1>2. C \in Nat
  BY FilesAssumption, FS_CardinalityType
<1>3. order \in [1..C -> Files] /\ DOMAIN order = 1..C
  BY DEF SetToSeqs
<1>4. list = (CHOOSE it : Eq(it, C))[1..C]
  <2>1. list = (CHOOSE it : it = [u \in SUBSET (DOMAIN order) |->
                  IF u = {} THEN <<>>
                  ELSE Prepended(it[u \ {Max(u)}], order[Max(u)])])[DOMAIN order]
    BY <1>1 DEF FoldLeft, MapThenFoldSet
  <2> QED
    BY <1>3, <2>1
<1> HIDE DEF C
<1> DEFINE T == {n \in 0..C : ~\E it : Eq(it, n)}
<1>5. \E it : Eq(it, 0)
  <2> DEFINE it == [u \in SUBSET (1..0) |-> <<>>]
  <2>1. Eq(it, 0)
    OBVIOUS
  <2> QED
    BY <2>1
<1>6. ASSUME NEW n \in 1..C, NEW f, Eq(f, n - 1)
      PROVE  \E it : Eq(it, n)
  <2> DEFINE it == [u \in SUBSET (1..n) |->
                      IF n \in u THEN Prepended(f[u \ {n}], order[n]) ELSE f[u]]
  <2>1. ASSUME NEW u \in SUBSET (1..n)
        PROVE  it[u] = IF u = {} THEN <<>> ELSE Step(it, u)
    <3>1. n \in Nat /\ \A k \in 1..n : k # n => k \in 1..(n - 1)
      BY <1>2
    <3>2. CASE u = {}
      <4>1. f[u] = <<>> /\ n \notin u
        BY <1>6, <3>2
      <4> QED
        BY <3>2, <4>1
    <3>3. CASE u # {} /\ n \in u
      <4>1. Max(u) \in u /\ \A y \in u : Max(u) >= y
        BY <3>1, <3>3, MaxIs
      <4>2. Max(u) = n
        <5> DEFINE m == Max(u)
        <5>1. m \in 1..n /\ m >= n
          BY <3>3, <4>1
        <5> HIDE DEF m
        <5>2. m = n
          BY <3>1, <5>1
        <5> QED
          BY <5>2 DEF m
      <4>3. u \ {n} \in SUBSET (1..n) /\ n \notin u \ {n}
        OBVIOUS
      <4>4. it[u \ {n}] = f[u \ {n}]
        BY <4>3
      <4>5. it[u] = Prepended(f[u \ {n}], order[n])
        BY <3>3
      <4> HIDE DEF it
      <4>6. Step(it, u) = Prepended(f[u \ {n}], order[n])
        BY <4>2, <4>4
      <4> QED
        BY <3>3, <4>5, <4>6
    <3>4. CASE u # {} /\ n \notin u
      <4>1. u \in SUBSET (1..(n - 1))
        BY <3>1, <3>4
      <4>2. f[u] = Step(f, u)
        BY <1>6, <3>4, <4>1
      <4>3. u \ {Max(u)} \in SUBSET (1..n) /\ n \notin u \ {Max(u)}
        BY <3>4
      <4>4. it[u \ {Max(u)}] = f[u \ {Max(u)}] /\ it[u] = f[u]
        BY <3>4, <4>3
      <4> HIDE DEF it
      <4>5. Step(it, u) = Step(f, u)
        BY <4>4
      <4> QED
        BY <3>4, <4>2, <4>4, <4>5
    <3> QED
      BY <3>2, <3>3, <3>4
  <2> DEFINE rhs(u) == IF u = {} THEN <<>> ELSE Step(it, u)
  <2>2. \A u \in SUBSET (1..n) : it[u] = rhs(u)
    BY <2>1
  <2>3. it = [u \in SUBSET (1..n) |-> it[u]]
    OBVIOUS
  <2> HIDE DEF it, rhs
  <2>4. it = [u \in SUBSET (1..n) |-> rhs(u)]
    BY <2>2, <2>3
  <2>5. Eq(it, n)
    BY <2>4 DEF rhs
  <2> HIDE DEF Eq
  <2> QED
    BY <2>5
<1>7. \E it : Eq(it, C)
  <2> SUFFICES ASSUME ~\E it : Eq(it, C) PROVE FALSE
    OBVIOUS
  <2>1. C \in T /\ T \subseteq Nat
    <3> HIDE DEF Eq
    <3>1. C \in 0..C /\ 0..C \subseteq Nat
      BY <1>2
    <3> QED
      BY <3>1
  <2>2. PICK n \in T : \A m \in T : n <= m
    <3> HIDE DEF T
    <3> QED
      BY <2>1, LeastNumber
  <2>3. n \in 0..C /\ ~\E it : Eq(it, n)
    OBVIOUS
  <2> HIDE DEF Eq
  <2>4. n # 0
    BY <1>5, <2>3
  <2>5. n \in 1..C /\ n - 1 \in 0..C /\ ~(n <= n - 1)
    BY <1>2, <2>3, <2>4
  <2>6. n - 1 \notin T
    BY <2>2, <2>5
  <2> QED
    BY <1>6, <2>3, <2>5, <2>6
<1> DEFINE it == CHOOSE it : Eq(it, C)
<1>8. Eq(it, C)
  <2> HIDE DEF Eq
  <2> QED
    BY <1>7
<1> HIDE DEF it
<1> DEFINE Bad == {n \in 0..C : ~\A u \in SUBSET (1..n) : Listed(it[u])}
<1>9. Bad = {}
  <2> SUFFICES ASSUME Bad # {} PROVE FALSE
    OBVIOUS
  <2>1. PICK n \in Bad : \A m \in Bad : n <= m
    <3>1. Bad \subseteq Nat
      BY <1>2
    <3> HIDE DEF Bad
    <3> QED
      BY <3>1, LeastNumber
  <2>2. n \in 0..C
    OBVIOUS
  <2>3. PICK u \in SUBSET (1..n) : ~Listed(it[u])
    OBVIOUS
  <2>4. u \in SUBSET (1..C)
    BY <1>2, <2>2
  <2>5. u # {}
    <3> SUFFICES ASSUME u = {} PROVE FALSE
      OBVIOUS
    <3>1. it[u] = <<>>
      BY <1>8, <2>4
    <3> QED
      BY <2>3, <3>1 DEF Listed
  <2>6. Max(u) \in u /\ \A y \in u : Max(u) >= y
    <3>1. n \in Nat
      BY <1>2, <2>2
    <3> QED
      BY <2>5, <3>1, MaxIs
  <2>7. /\ Max(u) \in 1..C /\ Max(u) - 1 \in 0..C /\ ~(n <= Max(u) - 1)
        /\ u \ {Max(u)} \in SUBSET (1..(Max(u) - 1))
    <3> DEFINE m == Max(u)
    <3>1. m \in u /\ \A y \in u : m >= y
      BY <2>6
    <3> HIDE DEF m
    <3>2. m \in 1..n /\ \A y \in u : y \in 1..n /\ (y # m => y \in 1..(m - 1))
      BY <2>2, <3>1
    <3>3. m \in 1..C /\ m - 1 \in 0..C /\ ~(n <= m - 1)
      BY <1>2, <2>2, <3>2
    <3>4. u \ {m} \in SUBSET (1..(m - 1))
      BY <3>2
    <3> QED
      BY <3>3, <3>4 DEF m
  <2>8. Max(u) - 1 \notin Bad
    BY <2>1, <2>7
  <2>9. Listed(it[u \ {Max(u)}])
    BY <2>7, <2>8
  <2>10. it[u] = Prepended(it[u \ {Max(u)}], order[Max(u)])
    BY <1>8, <2>4, <2>5
  <2> QED
    BY <1>3, <2>3, <2>7, <2>9, <2>10, PrependedIs
<1>10. C \in 0..C /\ 1..C \in SUBSET (1..C)
  BY <1>2
<1> QED
  BY <1>4, <1>9, <1>10 DEF it

-----------------------------------------------------------------------------
(* Sorting them                                                            *)

Before(list, f, g) ==
  \/ Priority[f] < Priority[g]
  \/ /\ Priority[f] = Priority[g]
     /\ \E a, b \in DOMAIN list : a < b /\ list[a] = f /\ list[b] = g

InTurn(list, s) == \A m, n \in DOMAIN s : m < n => Before(list, s[m], s[n])

\* One plugin comes before all others: the first of those of the least
\* priority.
LEMMA FirstIs ==
  ASSUME NEW list \in Seq(Files), NEW S \in SUBSET ToSet(list), S # {}
  PROVE  \E f \in S : \A g \in S : g # f => Before(list, f, g)
<1>0. DOMAIN list \subseteq Nat /\ \A a \in DOMAIN list : list[a] \in Files
  OBVIOUS
<1>1. \A g \in S : g \in Files /\ \E a \in DOMAIN list : list[a] = g
  BY <1>0 DEF ToSet
<1> DEFINE P == {Priority[g] : g \in S}
<1>2. P \subseteq Nat /\ P # {}
  BY <1>1, FilesAssumption
<1>3. PICK p \in P : \A q \in P : p <= q
  <2> HIDE DEF P
  <2> QED
    BY <1>2, LeastNumber
<1> DEFINE A == {a \in DOMAIN list : list[a] \in S /\ Priority[list[a]] = p}
<1>4. A \subseteq Nat /\ A # {}
  <2>1. PICK g \in S : Priority[g] = p
    OBVIOUS
  <2> QED
    BY <1>0, <1>1, <2>1
<1>5. PICK a \in A : \A b \in A : a <= b
  <2> HIDE DEF A
  <2> QED
    BY <1>4, LeastNumber
<1>6. ASSUME NEW g \in S, g # list[a]
      PROVE  Before(list, list[a], g)
  <2>1. p <= Priority[g] /\ Priority[g] \in Nat /\ p \in Nat
    BY <1>2, <1>3
  <2>2. CASE Priority[g] = p
    <3>1. PICK b \in DOMAIN list : list[b] = g
      BY <1>1
    <3>2. b \in A /\ a # b
      BY <1>6, <2>2, <3>1
    <3>3. a < b
      BY <1>4, <1>5, <3>2
    <3> QED
      BY <2>2, <3>1, <3>3 DEF Before
  <2>3. CASE Priority[g] # p
    BY <2>1, <2>3 DEF Before
  <2> QED
    BY <2>2, <2>3
<1> QED
  BY <1>6

\* Some of the plugins in their order, with the one that comes first put
\* in front.
LEMMA Fronted ==
  ASSUME NEW list, NEW S, IsFiniteSet(S), NEW f \in S,
         \A g \in S : g # f => Before(list, f, g),
         NEW r \in SetToSeqs(S \ {f}), InTurn(list, r)
  PROVE  \E s \in SetToSeqs(S) : InTurn(list, s)
<1> DEFINE k == Cardinality(S)
           j == Cardinality(S \ {f})
           s == [n \in 1..k |-> IF n = 1 THEN f ELSE r[n - 1]]
<1>1. k \in Nat /\ j = k - 1 /\ k >= 1
  <2>1. k \in Nat /\ j \in Nat /\ j = k - 1
    BY FS_CardinalityType, FS_RemoveElement
  <2> QED
    BY <2>1
<1>2. /\ r \in [1..j -> S \ {f}]
      /\ \A m, n \in 1..j : m # n => r[m] # r[n]
  BY DEF SetToSeqs
<1> HIDE DEF k, j
<1>3. \A n \in 1..k : \/ n = 1 /\ s[n] = f
                      \/ n # 1 /\ n - 1 \in 1..j /\ s[n] = r[n - 1]
  BY <1>1
<1>4. s \in [1..k -> S] /\ DOMAIN s = 1..k
  BY <1>1, <1>2
<1> HIDE DEF s
<1>5. ASSUME NEW m \in 1..k, NEW n \in 1..k, m < n
      PROVE  s[m] # s[n] /\ Before(list, s[m], s[n])
  <2>1. n # 1 /\ n - 1 \in 1..j /\ s[n] = r[n - 1]
    BY <1>3, <1>5
  <2>2. CASE m = 1
    <3>1. s[m] = f /\ r[n - 1] \in S /\ r[n - 1] # f
      BY <1>2, <1>3, <2>1, <2>2
    <3> QED
      BY <2>1, <3>1
  <2>3. CASE m # 1
    <3>1. m - 1 \in 1..j /\ s[m] = r[m - 1] /\ m - 1 < n - 1
      BY <1>3, <1>5, <2>3
    <3>2. DOMAIN r = 1..j
      BY <1>2
    <3> QED
      BY <1>2, <2>1, <3>1, <3>2 DEF InTurn
  <2> QED
    BY <2>2, <2>3
<1>6. \A m, n \in 1..k : m # n => s[m] # s[n]
  <2> SUFFICES ASSUME NEW m \in 1..k, NEW n \in 1..k, m # n
               PROVE  s[m] # s[n]
    OBVIOUS
  <2>1. m < n \/ n < m
    OBVIOUS
  <2> QED
    BY <1>5, <2>1
<1>7. s \in SetToSeqs(S)
  BY <1>4, <1>6 DEF SetToSeqs, k
<1>8. InTurn(list, s)
  BY <1>4, <1>5 DEF InTurn
<1> QED
  BY <1>7, <1>8

\* So any set of them can be put in order.
LEMMA CanBeSorted ==
  ASSUME NEW list \in Seq(Files)
  PROVE  \E s \in SetToSeqs(ToSet(list)) : InTurn(list, s)
<1> DEFINE All == ToSet(list)
           Can(S) == \E s \in SetToSeqs(S) : InTurn(list, s)
           T == {n \in Nat : \E S \in SUBSET All : Cardinality(S) = n /\ ~Can(S)}
<1>1. All \in SUBSET Files
  BY DEF ToSet
<1>2. \A S \in SUBSET All : IsFiniteSet(S) /\ Cardinality(S) \in Nat
  BY <1>1, FilesAssumption, FS_Subset, FS_CardinalityType
<1>3. Can({})
  <2> DEFINE s == [n \in 1..0 |-> n]
  <2>1. Cardinality({}) = 0 /\ 1..0 = {}
    BY FS_EmptySet
  <2>2. s \in SetToSeqs({})
    BY <2>1 DEF SetToSeqs
  <2>3. InTurn(list, s)
    BY <2>1 DEF InTurn
  <2> HIDE DEF s
  <2> QED
    BY <2>2, <2>3
<1>4. T = {}
  <2> SUFFICES ASSUME T # {} PROVE FALSE
    OBVIOUS
  <2>1. PICK n \in T : \A m \in T : n <= m
    <3>1. T \subseteq Nat
      OBVIOUS
    <3> HIDE DEF T
    <3> QED
      BY <3>1, LeastNumber
  <2> HIDE DEF Can
  <2>2. n \in Nat
    OBVIOUS
  <2>3. PICK S \in SUBSET All : Cardinality(S) = n /\ ~Can(S)
    OBVIOUS
  <2> HIDE DEF T
  <2>4. S # {}
    BY <1>3, <2>3
  <2>5. PICK f \in S : \A g \in S : g # f => Before(list, f, g)
    BY <2>4, FirstIs
  <2>6. Cardinality(S \ {f}) = n - 1 /\ S \ {f} \in SUBSET All
    BY <1>2, <2>3, FS_RemoveElement
  <2>7. n - 1 \in Nat
    BY <1>2, <2>6
  <2>8. n - 1 \notin T
    BY <2>1, <2>2, <2>7
  <2>9. Can(S \ {f})
    BY <2>6, <2>7, <2>8 DEF T
  <2>10. PICK r \in SetToSeqs(S \ {f}) : InTurn(list, r)
    BY <2>9 DEF Can
  <2>11. IsFiniteSet(S)
    BY <1>2
  <2>12. Can(S)
    BY <2>5, <2>10, <2>11, Fronted DEF Can
  <2> QED
    BY <2>3, <2>12
<1>5. Can(All)
  <2> HIDE DEF Can
  <2>1. Cardinality(All) \in Nat /\ All \in SUBSET All
    BY <1>2
  <2> QED
    BY <1>4, <2>1
<1> QED
  BY <1>5

\* Plugins as the manager may list them.
Ordered(s) ==
  /\ s \in Seq(Files)
  /\ \A n \in DOMAIN s : Location[s[n]] \in Schemas
  /\ \A m, n \in DOMAIN s :
       m < n => /\ Priority[s[m]] <= Priority[s[n]]
                /\ Location[s[m]] # Location[s[n]]

LEMMA SortedIsOrdered ==
  ASSUME NEW list, Listed(list)
  PROVE  Ordered(SortedByPriority(list))
<1> DEFINE s == SortedByPriority(list)
           C == Cardinality(ToSet(list))
<1>1. list \in Seq(Files) /\ \A g \in ToSet(list) : g \in Files
  BY DEF Listed, ToSet
<1>2. s = CHOOSE r \in SetToSeqs(ToSet(list)) : InTurn(list, r)
  BY DEF SortedByPriority, InTurn, Before
<1>3. s \in SetToSeqs(ToSet(list)) /\ InTurn(list, s)
  <2> HIDE DEF s
  <2> QED
    BY <1>1, <1>2, CanBeSorted
<1> HIDE DEF s
<1>4. C \in Nat
  <2>1. IsFiniteSet(ToSet(list))
    BY <1>1, FilesAssumption, FS_Subset
  <2> QED
    BY <2>1, FS_CardinalityType
<1>5. /\ s \in [1..C -> ToSet(list)]
      /\ \A m, n \in 1..C : m # n => s[m] # s[n]
  BY <1>3 DEF SetToSeqs
<1> HIDE DEF C
<1>6. s \in Seq(Files) /\ DOMAIN s = 1..C
  BY <1>1, <1>4, <1>5
<1>7. \A n \in 1..C : \E a \in DOMAIN list : list[a] = s[n]
  BY <1>5 DEF ToSet
<1>8. \A n \in 1..C : Location[s[n]] \in Schemas /\ Priority[s[n]] \in Nat
  BY <1>5, <1>7, <1>1, FilesAssumption DEF Listed
<1>9. ASSUME NEW m \in 1..C, NEW n \in 1..C, m < n
      PROVE  /\ Priority[s[m]] <= Priority[s[n]]
             /\ Location[s[m]] # Location[s[n]]
  <2>1. Before(list, s[m], s[n])
    BY <1>3, <1>6, <1>9 DEF InTurn
  <2>2. Priority[s[m]] <= Priority[s[n]]
    BY <1>8, <2>1 DEF Before
  <2>3. s[m] # s[n]
    BY <1>5, <1>9
  <2>4. PICK a \in DOMAIN list, b \in DOMAIN list :
          list[a] = s[m] /\ list[b] = s[n]
    BY <1>7
  <2> QED
    BY <2>2, <2>3, <2>4 DEF Listed
<1> QED
  BY <1>6, <1>8, <1>9 DEF Ordered, s

-----------------------------------------------------------------------------
(* The invariant of the keys                                               *)

KeyOK == key \in [Schemas -> BOOLEAN]
InfoOK == \A f \in Files : Location[f] \in Schemas => info[f] \in Infos
ListedWhileStarted == phase # "started" => plugins = <<>>

KeyInv == KeyOK /\ InfoOK /\ ListedWhileStarted /\ FollowsKey

-----------------------------------------------------------------------------
(* What activating and deactivating do to a plugin                         *)

\* A plugin that was activated is active unless it became unavailable.
LEMMA ActivatedIsActive ==
  ASSUME NEW f, NEW i \in Infos, NEW missing
  PROVE  /\ Activated(f, i, missing) \in Infos
         /\ Activated(f, i, missing).available
              => Activated(f, i, missing).active = TRUE
BY DEF Activated, LoadModule, Infos

\* A plugin that was deactivated is not active unless it is unavailable.
LEMMA DeactivatedIsInactive ==
  ASSUME NEW i \in Infos
  PROVE  /\ Deactivated(i) \in Infos
         /\ Deactivated(i).available => Deactivated(i).active = FALSE
BY DEF Deactivated, Infos

\* A plugin that is found when the manager starts is active as its key says.
LEMMA BegunFollowsKey ==
  ASSUME KeyOK, NEW f \in Files, NEW missing, Location[f] \in Schemas
  PROVE  /\ Begun(f, missing) \in Infos
         /\ Begun(f, missing).available
              => Begun(f, missing).active = key[Location[f]]
<1> DEFINE i == [enabled |-> key[Location[f]], active |-> FALSE,
                 available |-> TRUE, object |-> FALSE]
<1>1. i \in Infos /\ i.enabled = key[Location[f]] /\ i.active = FALSE
      /\ key[Location[f]] \in BOOLEAN
  BY DEF KeyOK, Infos
<1>2. CASE key[Location[f]]
  <2>1. Begun(f, missing) = Activated(f, i, missing)
    BY <1>1, <1>2 DEF Begun
  <2>2. QED BY <1>1, <1>2, <2>1, ActivatedIsActive
<1>3. CASE ~key[Location[f]]
  <2>1. Begun(f, missing) = i
    BY <1>1, <1>3 DEF Begun
  <2>2. QED BY <1>1, <1>3, <2>1
<1>4. QED BY <1>1, <1>2, <1>3

-----------------------------------------------------------------------------
(* The invariant                                                           *)

LEMMA KeyInvInit == Init => KeyInv
<1> SUFFICES ASSUME Init PROVE KeyInv
  OBVIOUS
<1>1. KeyOK /\ InfoOK /\ ListedWhileStarted
  BY DEF Init, KeyOK, InfoOK, Infos, ListedWhileStarted
<1>2. FollowsKey
  BY DEF Init, FollowsKey, ToSet
<1>3. QED BY <1>1, <1>2 DEF KeyInv

LEMMA KeyInvStart == KeyInv /\ Start => KeyInv'
<1> SUFFICES ASSUME KeyInv, Start PROVE KeyInv'
  OBVIOUS
<1>1. KeyOK /\ InfoOK /\ KeyOK' /\ ListedWhileStarted'
  BY DEF KeyInv, KeyOK, Start, ListedWhileStarted
<1>2. PICK missing \in SUBSET Unreadable :
        info' = [f \in Files |-> IF f \in ToSet(plugins') THEN Begun(f, missing)
                                                         ELSE info[f]]
  BY DEF Start
<1>3. InfoOK'
  BY <1>1, <1>2, BegunFollowsKey DEF InfoOK
<1>4. FollowsKey'
  <2>1. key' = key
    BY DEF Start
  <2>2. QED BY <1>1, <1>2, <2>1, BegunFollowsKey DEF FollowsKey
<1>5. QED BY <1>1, <1>3, <1>4 DEF KeyInv

LEMMA KeyInvEnabledChanged ==
  ASSUME NEW l \in Schemas, KeyInv, EnabledChanged(l)
  PROVE  KeyInv'
<1>1. KeyOK /\ InfoOK /\ KeyOK' /\ ListedWhileStarted'
  BY DEF KeyInv, KeyOK, EnabledChanged, ListedWhileStarted
<1>2. PICK missing \in SUBSET Unreadable :
        info' = [f \in Files |->
                   IF f \notin ToSet(plugins) \/ Location[f] # l THEN info[f]
                   ELSE IF key[l] THEN Activated(f, info[f], missing)
                   ELSE Deactivated(info[f])]
  BY DEF EnabledChanged
<1>3. InfoOK'
  BY <1>1, <1>2, ActivatedIsActive, DeactivatedIsInactive DEF InfoOK
<1>4. FollowsKey'
  <2> SUFFICES ASSUME NEW f \in Files, f \in ToSet(plugins'),
                      Location[f] \in Schemas \ changed', info'[f].available
               PROVE  info'[f].active = key'[Location[f]]
    BY DEF FollowsKey
  <2>1. plugins' = plugins /\ key' = key /\ changed' = changed \ {l}
    BY DEF EnabledChanged
  <2>2. info[f] \in Infos /\ key[l] \in BOOLEAN
    BY <1>1 DEF InfoOK, KeyOK
  <2>3. CASE Location[f] # l
    BY <1>2, <2>1, <2>3 DEF KeyInv, FollowsKey
  <2>4. CASE Location[f] = l /\ key[l]
    <3>1. info'[f] = Activated(f, info[f], missing)
      BY <1>2, <2>1, <2>4
    <3>2. Activated(f, info[f], missing).active = TRUE
      BY <2>2, <3>1, ActivatedIsActive
    <3>3. key'[Location[f]] = TRUE
      BY <2>1, <2>2, <2>4
    <3>4. QED BY <3>1, <3>2, <3>3
  <2>5. CASE Location[f] = l /\ ~key[l]
    <3>1. info'[f] = Deactivated(info[f])
      BY <1>2, <2>1, <2>5
    <3>2. QED BY <2>1, <2>2, <2>5, <3>1, DeactivatedIsInactive
  <2>6. QED BY <2>3, <2>4, <2>5
<1>5. QED BY <1>1, <1>3, <1>4 DEF KeyInv

\* A write is remembered as changed while anything is listed.
LEMMA KeyInvWriteKey == KeyInv /\ WriteKey => KeyInv'
<1> SUFFICES ASSUME KeyInv, WriteKey PROVE KeyInv'
  OBVIOUS
<1>1. PICK l \in Schemas :
        /\ key' = [key EXCEPT ![l] = ~@]
        /\ changed' = IF phase = "started" THEN changed \cup {l} ELSE changed
  BY DEF WriteKey
<1>2. UNCHANGED <<phase, plugins, info>>
  BY DEF WriteKey
<1>3. KeyOK' /\ InfoOK' /\ ListedWhileStarted'
  BY <1>1, <1>2 DEF KeyInv, KeyOK, InfoOK, ListedWhileStarted
<1>4. FollowsKey'
  <2>1. CASE phase = "started"
    BY <1>1, <1>2, <2>1 DEF KeyInv, KeyOK, FollowsKey
  <2>2. CASE phase # "started"
    <3>1. plugins' = <<>>
      BY <1>2, <2>2 DEF KeyInv, ListedWhileStarted
    <3>2. QED BY <3>1 DEF FollowsKey, ToSet
  <2>3. QED BY <2>1, <2>2
<1>5. QED BY <1>3, <1>4 DEF KeyInv

LEMMA KeyInvStop == KeyInv /\ Stop => KeyInv'
<1> SUFFICES ASSUME KeyInv, Stop PROVE KeyInv'
  OBVIOUS
<1>1. KeyOK' /\ ListedWhileStarted'
  BY DEF KeyInv, KeyOK, Stop, ListedWhileStarted
<1>2. InfoOK'
  BY DeactivatedIsInactive DEF KeyInv, InfoOK, Stop
<1>3. FollowsKey'
  BY DEF Stop, FollowsKey, ToSet
<1>4. QED BY <1>1, <1>2, <1>3 DEF KeyInv

\* Whatever the plugins in the directory, their schemas and which of their
\* modules load: a plugin runs exactly while its key is set, but for changes
\* GSettings has not notified of.
THEOREM KeyIsFollowed == Spec => []FollowsKey
<1>1. Init => KeyInv
  BY KeyInvInit
<1>2. KeyInv /\ [Next]_vars => KeyInv'
  <2> SUFFICES ASSUME KeyInv, [Next]_vars PROVE KeyInv'
    OBVIOUS
  <2>1. CASE Start
    BY <2>1, KeyInvStart
  <2>2. CASE BusGotten
    BY <2>2 DEF BusGotten, KeyInv, KeyOK, InfoOK, ListedWhileStarted, FollowsKey
  <2>3. CASE Stop
    BY <2>3, KeyInvStop
  <2>4. CASE WriteKey
    BY <2>4, KeyInvWriteKey
  <2>5. ASSUME NEW l \in Schemas, EnabledChanged(l) PROVE KeyInv'
    BY <2>5, KeyInvEnabledChanged
  <2>6. CASE UNCHANGED vars
    BY <2>6 DEF vars, KeyInv, KeyOK, InfoOK, ListedWhileStarted, FollowsKey
  <2>7. QED BY <2>1, <2>2, <2>3, <2>4, <2>5, <2>6 DEF Next
<1>3. KeyInv => FollowsKey
  BY DEF KeyInv
<1>4. QED BY <1>1, <1>2, <1>3, PTL DEF Spec

-----------------------------------------------------------------------------
(* Order and types                                                         *)

LEMMA EmptyIsOrdered == Ordered(<<>>)
BY DEF Ordered

LEMMA OrderedStep == Ordered(plugins) /\ [Next]_vars => Ordered(plugins')
<1> SUFFICES ASSUME Ordered(plugins), [Next]_vars PROVE Ordered(plugins')
  OBVIOUS
<1>1. CASE Start
  BY <1>1, ListingsAreListed, SortedIsOrdered DEF Start
<1>2. CASE Stop
  BY <1>2, EmptyIsOrdered DEF Stop
<1>3. CASE \/ BusGotten \/ WriteKey \/ UNCHANGED vars
           \/ \E l \in Schemas : EnabledChanged(l)
  <2>1. plugins' = plugins
    BY <1>3 DEF BusGotten, WriteKey, EnabledChanged, vars
  <2> QED
    BY <2>1
<1> QED
  BY <1>1, <1>2, <1>3 DEF Next

\* Whichever order the directory is read in and whatever the priorities,
\* the plugins are listed by priority and each module is listed once
\* (_load_file, compare_priority).
THEOREM PluginsInOrder == Spec => []InOrder
<1>1. Init => Ordered(plugins)
  BY EmptyIsOrdered DEF Init
<1>2. Ordered(plugins) /\ [Next]_vars => Ordered(plugins)'
  BY OrderedStep DEF Ordered
<1>3. Ordered(plugins) => InOrder
  BY DEF Ordered, InOrder
<1> QED
  BY <1>1, <1>2, <1>3, PTL DEF Spec

\* A plugin runs only with its module loaded.
Loaded(i) == i \in Infos /\ (i.active => i.object /\ i.available)

LEMMA LoadedIs ==
  ASSUME NEW f, NEW i, Loaded(i), NEW missing
  PROVE  Loaded(Activated(f, i, missing)) /\ Loaded(Deactivated(i))
BY DEF Loaded, Activated, Deactivated, LoadModule, Infos

LEMMA LoadedBegun ==
  ASSUME KeyOK, NEW f, Location[f] \in Schemas, NEW missing
  PROVE  Loaded(Begun(f, missing))
<1> DEFINE i == [enabled |-> key[Location[f]], active |-> FALSE,
                 available |-> TRUE, object |-> FALSE]
<1>1. Loaded(i)
  BY DEF KeyOK, Loaded, Infos
<1> HIDE DEF i
<1>2. Begun(f, missing) = Activated(f, i, missing) \/ Begun(f, missing) = i
  BY DEF Begun, i
<1> QED
  BY <1>1, <1>2, LoadedIs

AllLoaded == info \in [Files -> Infos] /\ \A f \in Files : Loaded(info[f])

Types == TypeOK /\ AllLoaded /\ Ordered(plugins)

\* The parts of a step that the handlers share.
LEMMA TypesNext ==
  ASSUME Types, Ordered(plugins'), phase' \in {"new", "started", "stopped"},
         key' \in [Schemas -> BOOLEAN], changed' \subseteq Schemas,
         connection' \in BOOLEAN, Emitted \/ heard' = heard,
         DOMAIN info' = Files, info' = [f \in Files |-> info'[f]],
         \A f \in Files : Loaded(info'[f])
  PROVE  Types'
<1>1. heard' \in [Files -> Signals]
  BY DEF Types, TypeOK, Emitted, Signals
<1>2. info' \in [Files -> Infos]
  BY DEF Loaded
<1>3. AllLoaded'
  BY <1>2 DEF AllLoaded, Loaded, Infos
<1>4. \A f \in Files : info'[f].active => info'[f].object /\ info'[f].available
  BY DEF Loaded
<1>5. TypeOK'
  BY <1>1, <1>2, <1>4 DEF TypeOK, Ordered, Infos, Signals
<1> QED
  BY <1>3, <1>5 DEF Types, Ordered

LEMMA TypesInit == Init => Types
<1> SUFFICES ASSUME Init PROVE Types
  OBVIOUS
<1>1. AllLoaded
  BY DEF Init, AllLoaded, Loaded, Infos
<1>2. Ordered(plugins)
  BY EmptyIsOrdered DEF Init
<1>3. TypeOK
  BY <1>1, <1>2 DEF Init, TypeOK, AllLoaded, Loaded, Ordered, Signals
<1> QED
  BY <1>1, <1>2, <1>3 DEF Types

LEMMA TypesStep == Types /\ [Next]_vars => Types'
<1> SUFFICES ASSUME Types, [Next]_vars PROVE Types'
  OBVIOUS
<1>0. /\ Ordered(plugins') /\ KeyOK /\ phase \in {"new", "started", "stopped"}
      /\ key \in [Schemas -> BOOLEAN] /\ changed \subseteq Schemas
      /\ connection \in BOOLEAN /\ info \in [Files -> Infos]
      /\ \A f \in Files : Loaded(info[f])
  BY OrderedStep DEF Types, TypeOK, AllLoaded, KeyOK
<1>1. CASE Start
  <2>1. PICK missing \in SUBSET Unreadable :
          info' = [f \in Files |-> IF f \in ToSet(plugins')
                                     THEN Begun(f, missing) ELSE info[f]]
    BY <1>1 DEF Start
  <2>2. \A f \in ToSet(plugins') : Location[f] \in Schemas
    BY <1>0 DEF Ordered, ToSet
  <2>3. \A f \in Files : Loaded(info'[f])
    BY <1>0, <2>1, <2>2, LoadedBegun
  <2> QED
    BY <1>0, <1>1, <2>1, <2>3, TypesNext DEF Start
<1>2. CASE BusGotten
  BY <1>0, <1>2, TypesNext DEF BusGotten
<1>3. CASE Stop
  <2>1. info' = [f \in Files |->
                   IF f \in ToSet(plugins) /\ info[f].enabled
                     THEN Deactivated(info[f]) ELSE info[f]]
    BY <1>3 DEF Stop
  <2>2. \A f \in Files : Loaded(info'[f])
    BY <1>0, <2>1, LoadedIs
  <2> QED
    BY <1>0, <1>3, <2>1, <2>2, TypesNext DEF Stop
<1>4. CASE WriteKey
  <2>1. key' \in [Schemas -> BOOLEAN] /\ changed' \subseteq Schemas
    BY <1>0, <1>4 DEF WriteKey
  <2> QED
    BY <1>0, <1>4, <2>1, TypesNext DEF WriteKey
<1>5. ASSUME NEW l \in Schemas, EnabledChanged(l) PROVE Types'
  <2>1. PICK missing \in SUBSET Unreadable :
          info' = [f \in Files |->
                     IF f \notin ToSet(plugins) \/ Location[f] # l THEN info[f]
                     ELSE IF key[l] THEN Activated(f, info[f], missing)
                     ELSE Deactivated(info[f])]
    BY <1>5 DEF EnabledChanged
  <2>2. \A f \in Files : Loaded(info'[f])
    BY <1>0, <2>1, LoadedIs
  <2> QED
    BY <1>0, <1>5, <2>1, <2>2, TypesNext DEF EnabledChanged
<1>6. CASE UNCHANGED vars
  BY <1>0, <1>6, TypesNext DEF vars
<1> QED
  BY <1>1, <1>2, <1>3, <1>4, <1>5, <1>6 DEF Next

\* For any directory and any failing modules, the manager's state keeps its
\* types, and a plugin runs only with its module loaded and available.
THEOREM TypeCorrect == Spec => []TypeOK
<1>1. Types => TypeOK
  BY DEF Types
<1> QED
  BY <1>1, TypesInit, TypesStep, PTL DEF Spec
=============================================================================
