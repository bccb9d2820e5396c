------------------------ MODULE SettingsDaemonProofs ------------------------
(***************************************************************************)
(* That no process runs plugins without the name and that the name is not  *)
(* held idly, for any number of processes, any of them replacing, crashing *)
(* or being told to end in any order.                                      *)
(***************************************************************************)
EXTENDS SettingsDaemon, SequenceTheorems, TLAPS

In(s, x) == \E n \in DOMAIN s : s[n] = x

\* Each NameAcquired that waits is taken back by a NameLost after it.
LostAfter(s) ==
  \A n \in DOMAIN s : s[n] = "NameAcquired" =>
    \E m \in DOMAIN s : n < m /\ s[m] = "NameLost"

-----------------------------------------------------------------------------
(* The operators on sequences                                              *)

\* What a process finds in its inbox after a message was sent to it.
LEMMA InAppend ==
  ASSUME NEW s \in Seq(Messages), NEW m \in Messages, NEW x
  PROVE  In(Append(s, m), x) <=> In(s, x) \/ x = m
<1>1. /\ Len(Append(s, m)) = Len(s) + 1 /\ DOMAIN s = 1..Len(s)
      /\ DOMAIN Append(s, m) = 1..(Len(s) + 1) /\ Len(s) \in Nat
      /\ \A i \in 1..Len(s) : Append(s, m)[i] = s[i]
      /\ Append(s, m)[Len(s) + 1] = m
  BY AppendProperties, LenProperties
<1>2. ASSUME NEW n \in DOMAIN Append(s, m), Append(s, m)[n] = x
      PROVE  In(s, x) \/ x = m
  BY <1>1, <1>2 DEF In
<1>3. ASSUME NEW n \in DOMAIN s, s[n] = x PROVE In(Append(s, m), x)
  BY <1>1, <1>3 DEF In
<1>4. In(Append(s, m), m)
  BY <1>1 DEF In
<1> QED
  BY <1>2, <1>3, <1>4 DEF In

\* What it finds after it has taken one.
LEMMA InTail ==
  ASSUME NEW s \in Seq(Messages), s # <<>>, NEW x
  PROVE  In(s, x) <=> In(Tail(s), x) \/ x = Head(s)
<1>1. /\ DOMAIN s = 1..Len(s) /\ DOMAIN Tail(s) = 1..(Len(s) - 1)
      /\ Len(s) \in Nat \ {0} /\ Head(s) = s[1]
      /\ \A i \in 1..(Len(s) - 1) : Tail(s)[i] = s[i + 1]
  BY HeadTailProperties, LenProperties, EmptySeq
<1>2. ASSUME NEW n \in DOMAIN s, s[n] = x PROVE In(Tail(s), x) \/ x = Head(s)
  <2>1. CASE n = 1
    BY <1>1, <1>2, <2>1
  <2>2. CASE n # 1
    <3>1. n - 1 \in DOMAIN Tail(s) /\ Tail(s)[n - 1] = x
      BY <1>1, <1>2, <2>2
    <3> QED
      BY <3>1 DEF In
  <2> QED
    BY <2>1, <2>2
<1>3. ASSUME NEW n \in DOMAIN Tail(s), Tail(s)[n] = x PROVE In(s, x)
  <2>1. n + 1 \in DOMAIN s /\ s[n + 1] = x
    BY <1>1, <1>3
  <2> QED
    BY <2>1 DEF In
<1>4. In(s, Head(s))
  BY <1>1 DEF In
<1> QED
  BY <1>2, <1>3, <1>4 DEF In

\* Sending NameLost takes back all that was acquired; sending anything but
\* NameAcquired takes nothing of that away.
LEMMA LostAfterAppend ==
  ASSUME NEW s \in Seq(Messages), NEW m \in Messages,
         m = "NameLost" \/ (LostAfter(s) /\ m # "NameAcquired")
  PROVE  LostAfter(Append(s, m))
<1>1. /\ Len(Append(s, m)) = Len(s) + 1 /\ DOMAIN s = 1..Len(s)
      /\ DOMAIN Append(s, m) = 1..(Len(s) + 1) /\ Len(s) \in Nat
      /\ \A i \in 1..Len(s) : Append(s, m)[i] = s[i]
      /\ Append(s, m)[Len(s) + 1] = m
  BY AppendProperties, LenProperties
<1> SUFFICES ASSUME NEW n \in 1..(Len(s) + 1), Append(s, m)[n] = "NameAcquired"
             PROVE  \E k \in 1..(Len(s) + 1) :
                      n < k /\ Append(s, m)[k] = "NameLost"
  BY <1>1 DEF LostAfter
<1>2. n \in 1..Len(s) /\ s[n] = "NameAcquired"
  BY <1>1
<1>3. CASE m = "NameLost"
  BY <1>1, <1>2, <1>3
<1>4. CASE LostAfter(s)
  BY <1>1, <1>2, <1>4 DEF LostAfter
<1> QED
  BY <1>3, <1>4

\* Taking a message keeps that, and a NameAcquired that is taken leaves the
\* NameLost that takes it back.
LEMMA LostAfterTail ==
  ASSUME NEW s \in Seq(Messages), s # <<>>, LostAfter(s)
  PROVE  /\ LostAfter(Tail(s))
         /\ Head(s) = "NameAcquired" => In(Tail(s), "NameLost")
<1>1. /\ DOMAIN s = 1..Len(s) /\ DOMAIN Tail(s) = 1..(Len(s) - 1)
      /\ Len(s) \in Nat \ {0} /\ Head(s) = s[1]
      /\ \A i \in 1..(Len(s) - 1) : Tail(s)[i] = s[i + 1]
  BY HeadTailProperties, LenProperties, EmptySeq
<1>2. ASSUME NEW n \in 1..Len(s), s[n] = "NameAcquired"
      PROVE  \E k \in 1..(Len(s) - 1) : n - 1 < k /\ Tail(s)[k] = "NameLost"
  <2>1. PICK m \in 1..Len(s) : n < m /\ s[m] = "NameLost"
    BY <1>1, <1>2 DEF LostAfter
  <2>2. m - 1 \in 1..(Len(s) - 1) /\ n - 1 < m - 1 /\ Tail(s)[m - 1] = "NameLost"
    BY <1>1, <2>1
  <2> QED
    BY <2>2
<1>3. LostAfter(Tail(s))
  <2> SUFFICES ASSUME NEW n \in 1..(Len(s) - 1), Tail(s)[n] = "NameAcquired"
               PROVE  \E k \in 1..(Len(s) - 1) : n < k /\ Tail(s)[k] = "NameLost"
    BY <1>1 DEF LostAfter
  <2>1. n + 1 \in 1..Len(s) /\ s[n + 1] = "NameAcquired" /\ (n + 1) - 1 = n
    BY <1>1
  <2> QED
    BY <2>1, <1>2
<1>4. ASSUME Head(s) = "NameAcquired" PROVE In(Tail(s), "NameLost")
  <2>1. 1 \in 1..Len(s) /\ s[1] = "NameAcquired"
    BY <1>1, <1>4
  <2> QED
    BY <1>1, <1>2, <2>1 DEF In
<1> QED
  BY <1>3, <1>4

\* Nobody is in a queue twice.
Distinct(s) == \A m, n \in DOMAIN s : s[m] = s[n] => m = n

LEMMA FirstIsIn ==
  ASSUME NEW S, NEW s \in Seq(S), s # <<>>
  PROVE  s[1] \in ToSet(s)
<1>1. 1 \in DOMAIN s
  BY EmptySeq, LenProperties
<1> QED
  BY <1>1 DEF ToSet

\* A process that joins the queue at its end, where BusRegister puts it, or
\* at its head, where --replace does.
LEMMA AppendDistinct ==
  ASSUME NEW S, NEW s \in Seq(S), NEW x \in S, x \notin ToSet(s), Distinct(s)
  PROVE  /\ Append(s, x) \in Seq(S) /\ Distinct(Append(s, x))
         /\ ToSet(Append(s, x)) = ToSet(s) \cup {x}
         /\ Append(s, x) # <<>> /\ (s # <<>> => Append(s, x)[1] = s[1])
<1> DEFINE l == Len(s)
           t == Append(s, x)
<1>1. l \in Nat /\ DOMAIN s = 1..l /\ (s # <<>> => 1 \in 1..l)
  BY LenProperties, EmptySeq
<1>2. /\ t \in Seq(S) /\ Len(t) = l + 1 /\ t # <<>>
      /\ \A i \in 1..l : t[i] = s[i]
      /\ t[l + 1] = x
  BY AppendProperties
<1>3. DOMAIN t = 1..(l + 1)
  BY <1>2, LenProperties
<1>4. \A i \in 1..l : s[i] # x
  BY <1>1 DEF ToSet
<1> HIDE DEF l, t
<1>5. Distinct(t)
  BY <1>1, <1>2, <1>3, <1>4 DEF Distinct
<1>6. \A i \in 1..(l + 1) : t[i] \in ToSet(s) \cup {x}
  BY <1>1, <1>2 DEF ToSet
<1>7. (\A i \in 1..l : s[i] \in ToSet(t)) /\ x \in ToSet(t)
  BY <1>1, <1>2, <1>3 DEF ToSet
<1>8. ToSet(t) = ToSet(s) \cup {x}
  BY <1>1, <1>3, <1>6, <1>7 DEF ToSet
<1> QED
  BY <1>1, <1>2, <1>5, <1>8 DEF t

LEMMA ConsDistinct ==
  ASSUME NEW S, NEW s \in Seq(S), NEW x \in S, x \notin ToSet(s), Distinct(s)
  PROVE  /\ <<x>> \o s \in Seq(S) /\ Distinct(<<x>> \o s)
         /\ ToSet(<<x>> \o s) = ToSet(s) \cup {x}
         /\ <<x>> \o s # <<>> /\ (<<x>> \o s)[1] = x
<1> DEFINE l == Len(s)
           t == <<x>> \o s
<1>1. l \in Nat /\ DOMAIN s = 1..l
  BY LenProperties
<1>2. /\ t \in Seq(S) /\ Len(t) = 1 + l
      /\ \A i \in 1..(1 + l) : t[i] = IF i <= 1 THEN <<x>>[i] ELSE s[i - 1]
  <2>1. <<x>> \in Seq(S) /\ Len(<<x>>) = 1
    OBVIOUS
  <2> QED
    BY <2>1, ConcatProperties
<1>3. DOMAIN t = 1..(1 + l) /\ <<x>>[1] = x
  BY <1>2, LenProperties
<1>4. \A i \in 1..l : s[i] # x
  BY <1>1 DEF ToSet
<1> HIDE DEF l, t
<1>5. t[1] = x /\ \A i \in 1..(1 + l) : i # 1 => i - 1 \in 1..l /\ t[i] = s[i - 1]
  BY <1>1, <1>2, <1>3
<1>6. \A i \in 1..l : i + 1 \in 1..(1 + l) /\ t[i + 1] = s[i]
  <2> TAKE i \in 1..l
  <2>1. i + 1 \in 1..(1 + l) /\ i + 1 # 1 /\ (i + 1) - 1 = i
    BY <1>1
  <2> QED
    BY <1>5, <2>1
<1>7. Distinct(t)
  <2> SUFFICES ASSUME NEW m \in 1..(1 + l), NEW n \in 1..(1 + l), t[m] = t[n]
               PROVE  m = n
    BY <1>3 DEF Distinct
  <2>1. CASE m = 1
    BY <1>4, <1>5, <2>1
  <2>2. CASE n = 1
    BY <1>4, <1>5, <2>2
  <2>3. CASE m # 1 /\ n # 1
    <3>1. m - 1 = n - 1
      BY <1>1, <1>5, <2>3 DEF Distinct
    <3> QED
      BY <1>1, <3>1
  <2> QED
    BY <2>1, <2>2, <2>3
<1>8. \A i \in 1..(1 + l) : t[i] \in ToSet(s) \cup {x}
  BY <1>1, <1>5 DEF ToSet
<1>9. (\A i \in 1..l : s[i] \in ToSet(t)) /\ x \in ToSet(t) /\ t # <<>>
  <2>1. 1 \in DOMAIN t
    BY <1>1, <1>3
  <2>2. t # <<>>
    <3>1. Len(t) # 0
      BY <1>1, <1>2
    <3> QED
      BY <3>1, EmptySeq
  <2>3. \A i \in DOMAIN t : t[i] \in ToSet(t)
    BY DEF ToSet
  <2> QED
    BY <1>3, <1>5, <1>6, <2>1, <2>2, <2>3
<1>10. ToSet(t) = ToSet(s) \cup {x}
  BY <1>1, <1>3, <1>8, <1>9 DEF ToSet
<1> QED
  BY <1>2, <1>5, <1>7, <1>9, <1>10 DEF t

\* The library's RemoveAt closes the gap.
LEMMA RemoveAtIs ==
  ASSUME NEW S, NEW s \in Seq(S), NEW i \in 1..Len(s)
  PROVE  /\ RemoveAt(s, i) \in Seq(S) /\ Len(RemoveAt(s, i)) = Len(s) - 1
         /\ \A j \in 1..(Len(s) - 1) :
              RemoveAt(s, i)[j] = IF j < i THEN s[j] ELSE s[j + 1]
<1> DEFINE l == Len(s)
<1>0. l \in Nat /\ i \in 1..l /\ \A j \in 1..l : s[j] \in S
  BY LenProperties, ElementOfSeq
<1> DEFINE a == SubSeq(s, 1, i - 1)
           b == SubSeq(s, i + 1, l)
<1>1. RemoveAt(s, i) = a \o b
  BY DEF RemoveAt
<1> HIDE DEF l
<1>2. /\ a \in Seq(S) /\ Len(a) = i - 1
      /\ \A j \in 1..(i - 1) : a[j] = s[j]
  <2>1. /\ 1 \in Int /\ i - 1 \in Int
        /\ \A j \in 1..(i - 1) : s[j] \in S
    BY <1>0
  <2>2. /\ a \in Seq(S)
        /\ Len(a) = IF 1 <= i - 1 THEN (i - 1) - 1 + 1 ELSE 0
        /\ \A j \in 1..((i - 1) - 1 + 1) : a[j] = s[1 + j - 1]
    BY <2>1, SubSeqProperties
  <2> QED
    BY <1>0, <2>2
<1>3. /\ b \in Seq(S) /\ Len(b) = l - i
      /\ \A j \in 1..(l - i) : b[j] = s[i + j]
  <2>1. /\ i + 1 \in Int /\ l \in Int
        /\ \A j \in (i + 1)..l : s[j] \in S
    BY <1>0
  <2>2. /\ b \in Seq(S)
        /\ Len(b) = IF i + 1 <= l THEN l - (i + 1) + 1 ELSE 0
        /\ \A j \in 1..(l - (i + 1) + 1) : b[j] = s[(i + 1) + j - 1]
    BY <2>1, SubSeqProperties
  <2> HIDE DEF b
  <2>3. Len(b) = l - i
    BY <1>0, <2>2
  <2>4. ASSUME NEW j \in 1..(l - i) PROVE b[j] = s[i + j]
    <3>1. j \in 1..(l - (i + 1) + 1) /\ (i + 1) + j - 1 = i + j
      BY <1>0
    <3> QED
      BY <2>2, <3>1
  <2> QED
    BY <2>2, <2>3, <2>4
<1> HIDE DEF a, b
<1>4. /\ a \o b \in Seq(S) /\ Len(a \o b) = Len(a) + Len(b)
      /\ \A j \in 1..(Len(a) + Len(b)) :
           (a \o b)[j] = IF j <= Len(a) THEN a[j] ELSE b[j - Len(a)]
  BY <1>2, <1>3, ConcatProperties
<1> QED
  BY <1>0, <1>1, <1>2, <1>3, <1>4 DEF l

\* The queue of the bus name without a process: the others stay, in their
\* order, and who owned the name still does.
LEMMA WithoutQueue ==
  ASSUME NEW d \in Daemons, queue \in Seq(Daemons), Distinct(queue)
  PROVE  /\ Without(d) \in Seq(Daemons) /\ Distinct(Without(d))
         /\ ToSet(Without(d)) = ToSet(queue) \ {d}
         /\ \A e \in Daemons \ {d} :
              Owns(e) => Without(d) # <<>> /\ Without(d)[1] = e
<1>1. DOMAIN queue = 1..Len(queue) /\ Len(queue) \in Nat
  BY LenProperties
<1>2. CASE ~\E i \in 1..Len(queue) : queue[i] = d
  <2>1. Without(d) = queue
    BY <1>2 DEF Without, RemoveFirst
  <2>2. d \notin ToSet(queue)
    BY <1>1, <1>2 DEF ToSet
  <2> QED
    BY <1>1, <2>1, <2>2 DEF Owns
<1>3. CASE \E i \in 1..Len(queue) : queue[i] = d
  <2>1. PICK i \in 1..Len(queue) : queue[i] = d
    BY <1>3
  <2>2. {j \in 1..Len(queue) : queue[j] = d} = {i}
    BY <1>1, <2>1 DEF Distinct
  <2>3. SelectInSeq(queue, LAMBDA v : v = d) = Min({i})
    BY <2>2 DEF SelectInSeq
  <2>4. Min({i}) = i
    BY <1>1 DEF Min
  <2>5. Without(d) = RemoveAt(queue, i)
    BY <1>3, <2>3, <2>4 DEF Without, RemoveFirst
  <2>6. /\ Without(d) \in Seq(Daemons) /\ Len(Without(d)) = Len(queue) - 1
        /\ \A j \in 1..(Len(queue) - 1) :
             Without(d)[j] = IF j < i THEN queue[j] ELSE queue[j + 1]
    <3>1. /\ RemoveAt(queue, i) \in Seq(Daemons)
          /\ Len(RemoveAt(queue, i)) = Len(queue) - 1
          /\ \A j \in 1..(Len(queue) - 1) :
               RemoveAt(queue, i)[j] = IF j < i THEN queue[j] ELSE queue[j + 1]
      BY RemoveAtIs, Zenon
    <3> QED
      BY <2>5, <3>1
  <2>7. DOMAIN Without(d) = 1..(Len(queue) - 1)
    BY <2>6, LenProperties
  <2> HIDE DEF Without
  <2>8. Distinct(Without(d))
    <3> SUFFICES ASSUME NEW m \in 1..(Len(queue) - 1), NEW n \in 1..(Len(queue) - 1),
                        Without(d)[m] = Without(d)[n]
                 PROVE  m = n
      BY <2>7 DEF Distinct
    <3> DEFINE p == IF m < i THEN m ELSE m + 1
               q == IF n < i THEN n ELSE n + 1
    <3>1. p \in 1..Len(queue) /\ q \in 1..Len(queue) /\ queue[p] = queue[q]
      BY <1>1, <2>6
    <3>2. p = q
      BY <1>1, <3>1 DEF Distinct
    <3> QED
      BY <1>1, <3>2
  <2>9. ToSet(Without(d)) \subseteq ToSet(queue) \ {d}
    <3> SUFFICES ASSUME NEW m \in 1..(Len(queue) - 1)
                 PROVE  Without(d)[m] \in ToSet(queue) \ {d}
      BY <2>7 DEF ToSet
    <3> DEFINE p == IF m < i THEN m ELSE m + 1
    <3>1. p \in 1..Len(queue) /\ p # i /\ Without(d)[m] = queue[p]
      BY <1>1, <2>6
    <3> QED
      BY <1>1, <2>1, <3>1 DEF ToSet, Distinct
  <2>10. ToSet(queue) \ {d} \subseteq ToSet(Without(d))
    <3> SUFFICES ASSUME NEW p \in 1..Len(queue), queue[p] # d
                 PROVE  queue[p] \in ToSet(Without(d))
      BY <1>1 DEF ToSet
    <3> DEFINE m == IF p < i THEN p ELSE p - 1
    <3>1. m \in 1..(Len(queue) - 1) /\ Without(d)[m] = queue[p]
      BY <1>1, <2>1, <2>6
    <3> QED
      BY <2>7, <3>1 DEF ToSet
  <2>11. ASSUME NEW e \in Daemons \ {d}, Owns(e)
         PROVE  Without(d) # <<>> /\ Without(d)[1] = e
    <3>1. i # 1 /\ Len(queue) - 1 >= 1
      BY <1>1, <2>1, <2>11 DEF Owns
    <3>2. Without(d)[1] = e
      BY <1>1, <2>6, <2>11, <3>1 DEF Owns
    <3> QED
      BY <2>6, <3>1, <3>2, EmptySeq
  <2> QED
    BY <2>6, <2>8, <2>9, <2>10, <2>11
<1> QED
  BY <1>2, <1>3

-----------------------------------------------------------------------------
(* The inductive invariant                                                 *)

\* A process that has not started or is gone waits for nothing.
Absent(d) ==
  phase[d] \in {"off", "exited"} =>
    ~managing[d] /\ inbox[d] = <<>> /\ d \notin ToSet(queue) /\ client[d] = "none"

\* One that runs without owning the name will hear that it lost it, after
\* every NameAcquired it has yet to take.
Told(d) == Running(d) /\ ~Owns(d) => LostAfter(inbox[d])

NotSquatting(d) ==
  managing[d] /\ ~Owns(d) => In(inbox[d], "NameLost") \/ phase[d] = "quit"

Serving(d) ==
  Owns(d) => managing[d] \/ In(inbox[d], "NameAcquired") \/ phase[d] = "quit"

Process(d) == Absent(d) /\ Told(d) /\ NotSquatting(d) /\ Serving(d)

Types ==
  /\ phase \in [Daemons -> Phases] /\ managing \in [Daemons -> BOOLEAN]
  /\ inbox \in [Daemons -> Seq(Messages)]
  /\ client \in [Daemons -> Clients] /\ asked \in [Daemons -> BOOLEAN]

Queue == queue \in Seq(Daemons) /\ Distinct(queue)

IInv == Types /\ Queue /\ \A d \in Daemons : Process(d)

\* A step that only one process takes part in is looked at there.
LEMMA OneProcess ==
  ASSUME IInv, NEW d \in Daemons, UNCHANGED queue, Types', Process(d)',
         \A e \in Daemons \ {d} : /\ phase'[e] = phase[e]
                                  /\ managing'[e] = managing[e]
                                  /\ inbox'[e] = inbox[e]
                                  /\ client'[e] = client[e]
  PROVE  IInv'
<1>1. Queue'
  BY DEF IInv, Queue
<1>2. ASSUME NEW e \in Daemons \ {d} PROVE Process(e)'
  BY <1>2 DEF IInv, Process, Absent, Told, NotSquatting, Serving,
              Running, Owns
<1> QED
  BY <1>1, <1>2 DEF IInv

LEMMA TakesKeeps ==
  ASSUME IInv, NEW d \in Daemons, NEW message \in Messages, Takes(d, message)
  PROVE  /\ inbox' \in [Daemons -> Seq(Messages)]
         /\ inbox'[d] = Tail(inbox[d])
         /\ \A e \in Daemons \ {d} : inbox'[e] = inbox[e]
         /\ UNCHANGED queue /\ Running(d)
         /\ \A x : In(inbox[d], x) => In(inbox'[d], x) \/ x = message
         /\ ~Owns(d) => LostAfter(inbox'[d])
         /\ ~Owns(d) /\ message = "NameAcquired" => In(inbox'[d], "NameLost")
<1>1. inbox[d] \in Seq(Messages) /\ inbox[d] # <<>> /\ Head(inbox[d]) = message
      /\ inbox \in [Daemons -> Seq(Messages)]
  BY DEF IInv, Types, Takes
<1>2. Tail(inbox[d]) \in Seq(Messages)
  BY <1>1, HeadTailProperties
<1>3. /\ inbox' = [inbox EXCEPT ![d] = Tail(@)]
      /\ UNCHANGED queue /\ Running(d)
  BY DEF Takes
<1>4. ~Owns(d) => LostAfter(inbox[d])
  BY <1>3 DEF IInv, Process, Told
<1>5. inbox'[d] = Tail(inbox[d])
  BY <1>1, <1>3
<1> QED
  BY <1>1, <1>2, <1>3, <1>4, <1>5, InTail, LostAfterTail

LEMMA TakeSteps ==
  ASSUME IInv, NEW d \in Daemons,
         \/ NameAcquired(d) \/ NameLost(d) \/ SessionOver(d)
         \/ ClientRegistered(d) \/ GotClientProxy(d)
         \/ QueryEndSession(d) \/ StopUnheard(d)
  PROVE  IInv'
<1>0. /\ phase \in [Daemons -> Phases] /\ managing \in [Daemons -> BOOLEAN]
      /\ client \in [Daemons -> Clients] /\ asked \in [Daemons -> BOOLEAN]
  BY DEF IInv, Types
<1>p. Process(d)
  BY DEF IInv
<1>1. CASE NameAcquired(d)
  <2>0. "NameAcquired" \in Messages /\ Takes(d, "NameAcquired")
    BY <1>1 DEF NameAcquired, Messages
  <2>1. /\ phase' = [phase EXCEPT ![d] = "running"]
        /\ managing' = [managing EXCEPT ![d] = TRUE]
        /\ client' = [client EXCEPT ![d] = "calling"] /\ UNCHANGED asked
    BY <1>1 DEF NameAcquired
  <2>2. Types'
    BY <1>0, <2>0, <2>1, TakesKeeps DEF Types, Phases, Clients
  <2>3. Process(d)'
    BY <1>0, <2>0, <2>1, TakesKeeps
       DEF Process, Absent, Told, NotSquatting, Serving, Owns
  <2> QED
    BY <1>0, <2>0, <2>1, <2>2, <2>3, TakesKeeps, OneProcess
<1>2. CASE NameLost(d) \/ SessionOver(d)
  <2>0. PICK m \in Messages : Takes(d, m)
    BY <1>2 DEF NameLost, SessionOver, Messages
  <2>1. /\ phase' = [phase EXCEPT ![d] = "quit"]
        /\ managing' = [managing EXCEPT ![d] = FALSE]
        /\ UNCHANGED <<client, asked>>
    BY <1>2 DEF NameLost, SessionOver, StopManager
  <2>2. Types'
    BY <1>0, <2>0, <2>1, TakesKeeps DEF Types, Phases
  <2>3. Process(d)'
    BY <1>0, <2>0, <2>1, TakesKeeps
       DEF Process, Absent, Told, NotSquatting, Serving, Owns, Running
  <2> QED
    BY <1>0, <2>0, <2>1, <2>2, <2>3, TakesKeeps, OneProcess
<1>3. CASE \/ ClientRegistered(d) \/ GotClientProxy(d)
           \/ QueryEndSession(d) \/ StopUnheard(d)
  <2>0. PICK m \in Messages : Takes(d, m) /\ m # "NameLost" /\ m # "NameAcquired"
    BY <1>3 DEF ClientRegistered, GotClientProxy, QueryEndSession, StopUnheard,
                Messages
  <2>1. /\ UNCHANGED <<phase, managing>>
        /\ asked' \in [Daemons -> BOOLEAN] /\ client' \in [Daemons -> Clients]
        /\ \A e \in Daemons \ {d} : client'[e] = client[e]
    BY <1>0, <1>3 DEF ClientRegistered, GotClientProxy, QueryEndSession,
                      StopUnheard, Clients
  <2>2. Types'
    BY <1>0, <2>0, <2>1, TakesKeeps DEF Types
  <2>3. Process(d)'
    BY <1>0, <1>p, <2>0, <2>1, TakesKeeps
       DEF Process, Absent, Told, NotSquatting, Serving, Owns, Running
  <2> QED
    BY <1>0, <2>0, <2>1, <2>2, <2>3, TakesKeeps, OneProcess
<1> QED
  BY <1>1, <1>2, <1>3

\* gnome-session sends nothing that is about the name.
LEMMA SendSteps ==
  ASSUME IInv, NEW d \in Daemons,
         Register(d) \/ CreateProxy(d) \/ Ask(d) \/ EndSession(d)
  PROVE  IInv'
<1>0. /\ phase \in [Daemons -> Phases] /\ managing \in [Daemons -> BOOLEAN]
      /\ client \in [Daemons -> Clients] /\ asked \in [Daemons -> BOOLEAN]
      /\ inbox \in [Daemons -> Seq(Messages)] /\ inbox[d] \in Seq(Messages)
  BY DEF IInv, Types
<1>1. Process(d)
  BY DEF IInv
<1>2. /\ UNCHANGED <<phase, managing, queue>>
      /\ asked' \in [Daemons -> BOOLEAN] /\ client' \in [Daemons -> Clients]
      /\ \A e \in Daemons \ {d} : client'[e] = client[e]
      /\ phase[d] \in {"off", "exited"} => FALSE
  BY <1>0, <1>1 DEF Register, CreateProxy, Ask, EndSession, Clients, Process,
                    Absent, Running, Knows
<1>3. \/ UNCHANGED inbox
      \/ \E m \in Messages \ {"NameAcquired", "NameLost"} : Send(d, m)
  BY DEF Register, CreateProxy, Ask, EndSession, Messages
<1> DEFINE Kept ==
      /\ inbox' \in [Daemons -> Seq(Messages)]
      /\ \A e \in Daemons \ {d} : inbox'[e] = inbox[e]
      /\ \A x : In(inbox[d], x) => In(inbox'[d], x)
      /\ LostAfter(inbox[d]) => LostAfter(inbox'[d])
<1>4. Kept
  <2>1. CASE UNCHANGED inbox
    BY <1>0, <2>1
  <2>2. ASSUME NEW m \in Messages \ {"NameAcquired", "NameLost"}, Send(d, m)
        PROVE  Kept
    <3>1. inbox' = [inbox EXCEPT ![d] = Append(inbox[d], m)]
          /\ Append(inbox[d], m) \in Seq(Messages)
      BY <1>0, <2>2, AppendProperties DEF Send
    <3>2. inbox'[d] = Append(inbox[d], m)
      BY <1>0, <3>1
    <3> QED
      BY <1>0, <3>1, <3>2, InAppend, LostAfterAppend
  <2> QED
    BY <1>3, <2>1, <2>2
<1>5. Types'
  BY <1>0, <1>2, <1>4 DEF Types
<1>6. Process(d)'
  BY <1>1, <1>2, <1>4
     DEF Process, Absent, Told, NotSquatting, Serving, Owns, Running
<1> QED
  BY <1>2, <1>4, <1>5, <1>6, OneProcess

\* What the bus tells whom when the name passes on: the one that gets it, and
\* the one that loses it and waits.
LEMMA PassTells ==
  ASSUME NEW boxes \in [Daemons -> Seq(Messages)], NEW newQueue \in Seq(Daemons),
         Pass(boxes, newQueue), NEW e \in Daemons
  PROVE  /\ inbox' \in [Daemons -> Seq(Messages)] /\ queue' = newQueue
         /\ Owns(e)' /\ ~Owns(e) =>
              In(inbox'[e], "NameAcquired")
              /\ \A x : In(boxes[e], x) => In(inbox'[e], x)
         /\ ~Owns(e)' /\ Owns(e) /\ e \in ToSet(newQueue) =>
              LostAfter(inbox'[e]) /\ In(inbox'[e], "NameLost")
         /\ (Owns(e)' <=> Owns(e)) \/ (~Owns(e)' /\ e \notin ToSet(newQueue)) =>
              inbox'[e] = boxes[e]
<1>1. /\ queue' = newQueue
      /\ inbox' = [f \in Daemons |->
                 IF newQueue # <<>> /\ newQueue[1] = f /\ ~Owns(f)
                   THEN Append(boxes[f], "NameAcquired")
                 ELSE IF Owns(f) /\ f \in ToSet(newQueue) /\ newQueue[1] # f
                   THEN Append(boxes[f], "NameLost")
                 ELSE boxes[f]]
  BY DEF Pass
<1>2. "NameAcquired" \in Messages /\ "NameLost" \in Messages
  BY DEF Messages
<1>3. \A f \in Daemons : /\ boxes[f] \in Seq(Messages)
                         /\ Append(boxes[f], "NameAcquired") \in Seq(Messages)
                         /\ Append(boxes[f], "NameLost") \in Seq(Messages)
  BY <1>2, AppendProperties
<1>4. inbox' \in [Daemons -> Seq(Messages)]
  BY <1>1, <1>3
<1>5. Owns(e)' <=> newQueue # <<>> /\ newQueue[1] = e
  BY <1>1 DEF Owns
<1>6. e \in ToSet(newQueue) => newQueue # <<>>
  BY EmptySeq, LenProperties DEF ToSet
<1>7. CASE Owns(e)' /\ ~Owns(e)
  <2>1. inbox'[e] = Append(boxes[e], "NameAcquired")
    BY <1>1, <1>5, <1>7
  <2> QED
    BY <1>1, <1>2, <1>3, <1>4, <1>7, <2>1, InAppend
<1>8. CASE ~Owns(e)' /\ Owns(e) /\ e \in ToSet(newQueue)
  <2>1. inbox'[e] = Append(boxes[e], "NameLost")
    BY <1>1, <1>5, <1>6, <1>8
  <2> QED
    BY <1>1, <1>2, <1>3, <1>4, <1>8, <2>1, InAppend, LostAfterAppend
<1>9. CASE (Owns(e)' <=> Owns(e)) \/ (~Owns(e)' /\ e \notin ToSet(newQueue))
  <2>1. inbox'[e] = boxes[e]
    BY <1>1, <1>5, <1>6, <1>9
  <2> QED
    BY <1>1, <1>4, <1>9, <2>1
<1> QED
  BY <1>7, <1>8, <1>9

LEMMA Registering ==
  ASSUME IInv, NEW d \in Daemons, BusRegister(d)
  PROVE  IInv'
<1>1. /\ phase \in [Daemons -> Phases] /\ managing \in [Daemons -> BOOLEAN]
      /\ client \in [Daemons -> Clients] /\ asked \in [Daemons -> BOOLEAN]
      /\ inbox \in [Daemons -> Seq(Messages)] /\ inbox[d] = <<>>
      /\ ~managing[d] /\ d \notin ToSet(queue)
      /\ queue \in Seq(Daemons) /\ Distinct(queue)
      /\ \A e \in Daemons : Process(e)
  BY DEF IInv, Types, Queue, BusRegister, Process, Absent
<1>2. /\ phase' = [phase EXCEPT ![d] = "waiting"]
      /\ UNCHANGED <<managing, client, asked>>
  BY DEF BusRegister
<1>3. \A e \in Daemons : Owns(e) => e \in ToSet(queue) /\ e # d
  BY <1>1, FirstIsIn DEF Owns
<1>4. CASE queue = <<>> \/ d \in MayReplace
  <2> DEFINE q == <<d>> \o queue
  <2>1. Pass(inbox, q)
    BY <1>4 DEF BusRegister
  <2>2. /\ q \in Seq(Daemons) /\ Distinct(q) /\ ToSet(q) = ToSet(queue) \cup {d}
        /\ q # <<>> /\ q[1] = d
    BY <1>1, ConsDistinct
  <2> HIDE DEF q
  <2>3. queue' = q /\ inbox' \in [Daemons -> Seq(Messages)]
    BY <1>1, <2>1, <2>2, PassTells
  <2>4. Types' /\ Queue'
    BY <1>1, <1>2, <2>2, <2>3 DEF Types, Queue, Phases
  <2>5. ASSUME NEW e \in Daemons PROVE Process(e)'
    <3>1. CASE e = d
      <4>1. Owns(d)' /\ ~Owns(d)
        BY <1>3, <2>2, <2>3 DEF Owns
      <4>2. In(inbox'[d], "NameAcquired")
        BY <1>1, <2>1, <2>2, <4>1, PassTells
      <4> QED
        BY <1>1, <1>2, <3>1, <4>1, <4>2
           DEF Process, Absent, Told, NotSquatting, Serving
    <3>2. CASE e # d
      <4>1. ~Owns(e)' /\ phase'[e] = phase[e] /\ managing'[e] = managing[e]
            /\ client'[e] = client[e] /\ (e \in ToSet(q) <=> e \in ToSet(queue))
        BY <1>1, <1>2, <2>2, <2>3, <3>2 DEF Owns
      <4>2. CASE Owns(e)
        <5>1. e \in ToSet(queue) /\ e \in ToSet(q)
          BY <1>3, <2>2, <4>2
        <5>2. LostAfter(inbox'[e]) /\ In(inbox'[e], "NameLost")
          BY <1>1, <2>1, <2>2, <4>1, <4>2, <5>1, PassTells
        <5> QED
          BY <1>1, <4>1, <5>1, <5>2
             DEF Process, Absent, Told, NotSquatting, Serving
      <4>3. CASE ~Owns(e)
        <5>1. inbox'[e] = inbox[e]
          BY <1>1, <2>1, <2>2, <4>1, <4>3, PassTells
        <5> QED
          BY <1>1, <2>3, <4>1, <4>3, <5>1
             DEF Process, Absent, Told, NotSquatting, Serving, Running
      <4> QED
        BY <4>2, <4>3
    <3> QED
      BY <3>1, <3>2
  <2> QED
    BY <2>4, <2>5 DEF IInv
<1>5. CASE ~(queue = <<>> \/ d \in MayReplace)
  <2>1. /\ queue' = Append(queue, d)
        /\ inbox' = [inbox EXCEPT ![d] = Append(@, "NameLost")]
    BY <1>5 DEF BusRegister
  <2>2. /\ queue' \in Seq(Daemons) /\ Distinct(queue')
        /\ ToSet(queue') = ToSet(queue) \cup {d}
        /\ queue' # <<>> /\ queue'[1] = queue[1]
    <3>1. queue \in Seq(Daemons) /\ Distinct(queue) /\ d \notin ToSet(queue) /\ queue # <<>>
      BY <1>1, <1>5
    <3> QED
      BY <2>1, <3>1, AppendDistinct, SMTT(30)
  <2>3. \A e \in Daemons : Owns(e)' <=> Owns(e)
    BY <1>5, <2>2 DEF Owns
  <2>4. "NameLost" \in Messages /\ inbox[d] \in Seq(Messages)
    BY <1>1 DEF Messages
  <2>5. /\ inbox'[d] = Append(inbox[d], "NameLost")
        /\ inbox' \in [Daemons -> Seq(Messages)]
        /\ \A e \in Daemons \ {d} : inbox'[e] = inbox[e]
    BY <1>1, <2>1, <2>4, AppendProperties
  <2>6. Types' /\ Queue'
    BY <1>1, <1>2, <2>2, <2>5 DEF Types, Queue, Phases
  <2>7. ASSUME NEW e \in Daemons PROVE Process(e)'
    <3>1. CASE e = d
      <4>1. LostAfter(inbox'[d])
        BY <2>4, <2>5, LostAfterAppend
      <4>2. ~Owns(d)'
        BY <1>3, <2>3
      <4> QED
        BY <1>1, <1>2, <3>1, <4>1, <4>2
           DEF Process, Absent, Told, NotSquatting, Serving
    <3>2. CASE e # d
      BY <1>1, <1>2, <2>2, <2>3, <2>5, <3>2
         DEF Process, Absent, Told, NotSquatting, Serving, Running
    <3> QED
      BY <3>1, <3>2
  <2> QED
    BY <2>6, <2>7 DEF IInv
<1> QED
  BY <1>4, <1>5

\* The bus takes a process off its queue.
LEMMA Leaving ==
  ASSUME IInv, NEW d \in Daemons, NEW boxes \in [Daemons -> Seq(Messages)],
         Pass(boxes, Without(d)), Process(d)',
         phase' \in [Daemons -> Phases], managing' \in [Daemons -> BOOLEAN],
         client' \in [Daemons -> Clients], asked' \in [Daemons -> BOOLEAN],
         \A e \in Daemons \ {d} : /\ phase'[e] = phase[e]
                                  /\ managing'[e] = managing[e]
                                  /\ boxes[e] = inbox[e]
                                  /\ client'[e] = client[e]
  PROVE  IInv'
<1>1. /\ Without(d) \in Seq(Daemons) /\ Distinct(Without(d))
      /\ ToSet(Without(d)) = ToSet(queue) \ {d}
      /\ \A e \in Daemons \ {d} :
           Owns(e) => Without(d) # <<>> /\ Without(d)[1] = e
  BY WithoutQueue DEF IInv, Queue
<1>2. queue' = Without(d) /\ inbox' \in [Daemons -> Seq(Messages)]
  BY <1>1, PassTells
<1>3. Types' /\ Queue'
  BY <1>1, <1>2 DEF Types, Queue
<1>4. ASSUME NEW e \in Daemons \ {d} PROVE Process(e)'
  <2>1. Owns(e) => Owns(e)'
    BY <1>1, <1>2 DEF Owns
  <2>2. Process(e) /\ (e \in ToSet(queue') <=> e \in ToSet(queue))
    BY <1>1, <1>2 DEF IInv
  <2>3. CASE Owns(e)' /\ ~Owns(e)
    <3>1. /\ In(inbox'[e], "NameAcquired")
          /\ \A x : In(inbox[e], x) => In(inbox'[e], x)
      BY <1>1, <2>3, PassTells
    <3>2. e \in ToSet(queue')
      <4>1. queue' \in Seq(Daemons) /\ queue' # <<>> /\ queue'[1] = e
        BY <1>1, <1>2, <2>3 DEF Owns
      <4> QED
        BY <4>1, FirstIsIn
    <3> QED
      BY <2>2, <2>3, <3>1, <3>2
         DEF Process, Absent, Told, NotSquatting, Serving
  <2>4. CASE Owns(e)' <=> Owns(e)
    <3>1. inbox'[e] = inbox[e]
      BY <1>1, <2>4, PassTells
    <3> QED
      BY <2>2, <2>4, <3>1
         DEF Process, Absent, Told, NotSquatting, Serving, Running
  <2> QED
    BY <2>1, <2>3, <2>4
<1> QED
  BY <1>3, <1>4 DEF IInv

LEMMA LeaveSteps ==
  ASSUME IInv, NEW d \in Daemons,
         UnownName(d) \/ Exit(d) \/ Term(d) \/ Crash(d)
  PROVE  IInv'
<1>1. /\ phase \in [Daemons -> Phases] /\ managing \in [Daemons -> BOOLEAN]
      /\ client \in [Daemons -> Clients] /\ asked \in [Daemons -> BOOLEAN]
      /\ inbox \in [Daemons -> Seq(Messages)] /\ Process(d)
      /\ queue \in Seq(Daemons) /\ Distinct(queue)
  BY DEF IInv, Types, Queue
<1>2. /\ Without(d) \in Seq(Daemons)
      /\ ToSet(Without(d)) = ToSet(queue) \ {d}
  BY <1>1, WithoutQueue
<1>3. ASSUME queue' = Without(d) PROVE ~Owns(d)'
  BY <1>2, <1>3, FirstIsIn DEF Owns
<1>4. CASE Gone(d)
  <2> DEFINE boxes == [inbox EXCEPT ![d] = <<>>]
  <2>1. /\ phase' = [phase EXCEPT ![d] = "exited"]
        /\ managing' = [managing EXCEPT ![d] = FALSE]
        /\ asked' = [asked EXCEPT ![d] = FALSE]
        /\ client' = [client EXCEPT ![d] = "none"]
        /\ Pass(boxes, Without(d))
    BY <1>4 DEF Gone
  <2>2. /\ boxes \in [Daemons -> Seq(Messages)] /\ boxes[d] = <<>>
        /\ \A e \in Daemons \ {d} : boxes[e] = inbox[e]
    BY <1>1, EmptySeq
  <2> HIDE DEF boxes
  <2>3. queue' = Without(d) /\ ~Owns(d)' /\ d \notin ToSet(queue')
    BY <1>2, <1>3, <2>1, <2>2, PassTells
  <2>4. inbox'[d] = <<>>
    BY <1>2, <2>1, <2>2, <2>3, PassTells
  <2>5. Process(d)'
    BY <1>1, <2>1, <2>3, <2>4
       DEF Process, Absent, Told, NotSquatting, Serving, Running
  <2>6. /\ phase' \in [Daemons -> Phases] /\ managing' \in [Daemons -> BOOLEAN]
        /\ client' \in [Daemons -> Clients] /\ asked' \in [Daemons -> BOOLEAN]
    BY <1>1, <2>1 DEF Phases, Clients
  <2> QED
    BY <1>1, <2>1, <2>2, <2>5, <2>6, Leaving
<1>5. CASE UnownName(d)
  <2>1. /\ phase[d] = "quit" /\ Pass(inbox, Without(d))
        /\ UNCHANGED <<phase, managing, client, asked>>
    BY <1>5 DEF UnownName
  <2>2. queue' = Without(d) /\ ~Owns(d)'
    BY <1>1, <1>2, <1>3, <2>1, PassTells
  <2>3. Process(d)'
    BY <2>1, <2>2
       DEF Process, Absent, Told, NotSquatting, Serving, Running
  <2> QED
    BY <1>1, <2>1, <2>3, Leaving
<1>6. CASE /\ Running(d) /\ phase' = [phase EXCEPT ![d] = "quit"]
           /\ UNCHANGED <<managing, queue, inbox, client, asked>>
  <2>1. Types'
    BY <1>1, <1>6 DEF Types, Phases
  <2>2. Process(d)'
    BY <1>1, <1>6 DEF Process, Absent, Told, NotSquatting, Serving,
                      Running
  <2> QED
    BY <1>1, <1>6, <2>1, <2>2, OneProcess
<1> QED
  BY <1>4, <1>5, <1>6 DEF Exit, Term, Crash

LEMMA InvInit == Init => IInv
<1> SUFFICES ASSUME Init PROVE IInv
  OBVIOUS
<1>1. Types
  BY EmptySeq DEF Init, Types, Phases, Clients
<1>2. Queue /\ ToSet(queue) = {}
  <2>1. queue = <<>> /\ DOMAIN queue = {}
    BY DEF Init
  <2> QED
    BY <2>1, EmptySeq DEF Queue, Distinct, ToSet
<1>3. ASSUME NEW d \in Daemons PROVE Process(d)
  BY <1>2 DEF Init, Process, Absent, Told, NotSquatting, Serving,
              Running, Owns
<1> QED
  BY <1>1, <1>2, <1>3 DEF IInv

LEMMA InvNext == IInv /\ [Next]_vars => IInv'
<1> SUFFICES ASSUME IInv, [Next]_vars PROVE IInv'
  OBVIOUS
<1>1. ASSUME NEW d \in Daemons, Handle(d) PROVE IInv'
  BY <1>1, TakeSteps, LeaveSteps DEF Handle
<1>2. CASE UNCHANGED vars
  BY <1>2 DEF vars, IInv, Types, Queue, Process, Absent, Told, NotSquatting,
              Serving, Owns, Running
<1> QED
  BY <1>1, <1>2, Registering, LeaveSteps, SendSteps DEF Next

LEMMA InvHolds == Spec => []IInv
BY InvInit, InvNext, PTL DEF Spec

-----------------------------------------------------------------------------
(* The theorems                                                            *)

\* The types, and that a process which has not started or is gone runs no
\* plugins, waits for no message and is not in the queue for the name
\* (g_bus_unown_name and the exit of main).
THEOREM TypeCorrect == Spec => []TypeOK
<1>1. IInv => TypeOK
  BY DEF IInv, Types, Queue, Distinct, Process, Absent, TypeOK
<1> QED
  BY <1>1, InvHolds, PTL

\* name_lost_handler reaches every process that goes on without the name: in
\* every reachable state, one that runs plugins and does not own the name
\* has NameLost in its inbox or has left its main loop.
THEOREM NobodySquats == Spec => []NoSquatter
<1>1. IInv => NoSquatter
  BY DEF IInv, Process, NotSquatting, NoSquatter, Has, In
<1> QED
  BY <1>1, InvHolds, PTL

\* name_acquired_handler is called for every owner: one that owns the name
\* runs the plugins, has NameAcquired in its inbox or has left its main loop.
THEOREM OwnersServe == Spec => []OwnerServes
<1>1. IInv => OwnerServes
  BY DEF IInv, Process, Serving, OwnerServes, Has, In
<1> QED
  BY <1>1, InvHolds, PTL
=============================================================================
