-------------------------- MODULE SmartcardProofs --------------------------
(***************************************************************************)
(* Proofs about Smartcard: type correctness, that removals are paired, and *)
(* that the plugin implements CardWatch.  The inductive invariant adds to  *)
(* RemovalsArePaired that a card the thread tracks has been told inserted, *)
(* or will have been once the messages on their way are handled, until the *)
(* thread is about to crash.                                               *)
(***************************************************************************)
EXTENDS Smartcard, TLAPS

TrackedIsTold ==
  pc # "unkeyed" =>
    \A s \in Slots :
      tracked[s] # Nothing => InBefore(pipe, told, s, Len(pipe) + 1)

\* There is no thread before the plugin is activated.
OffIsIdle == phase = "off" => pc = "none"

IInv == TypeOK /\ RemovalsArePaired /\ TrackedIsTold /\ OffIsIdle

-----------------------------------------------------------------------------
(* Queues of messages                                                      *)

\* A message at the end of a queue changes nothing about those before it.
LEMMA AppendBefore ==
  ASSUME NEW q \in Seq(Messages), NEW m \in Messages, NEW last,
         NEW s \in Slots, NEW n \in 1 .. Len(q) + 1
  PROVE  InBefore(Append(q, m), last, s, n) <=> InBefore(q, last, s, n)
<1>1. \A k \in 1 .. n - 1 : Append(q, m)[k] = q[k]
  OBVIOUS
<1>2. QED BY <1>1 DEF InBefore

\* After an insertion of its slot the slot is in; a message about another
\* slot does not matter.
LEMMA AppendAfter ==
  ASSUME NEW q \in Seq(Messages), NEW m \in Messages, NEW last,
         NEW s \in Slots
  PROVE  /\ m.slot = s /\ m.type = "I"
              => InBefore(Append(q, m), last, s, Len(q) + 2)
         /\ m.slot # s /\ InBefore(q, last, s, Len(q) + 1)
              => InBefore(Append(q, m), last, s, Len(q) + 2)
<1> DEFINE r == Append(q, m)
<1>1. /\ Len(q) \in Nat /\ Len(r) = Len(q) + 1 /\ r[Len(q) + 1] = m
      /\ \A k \in 1 .. Len(q) : r[k] = q[k]
  OBVIOUS
<1> HIDE DEF r
<1>2. ASSUME m.slot = s, m.type = "I"
      PROVE  InBefore(r, last, s, Len(q) + 2)
  BY <1>1, <1>2 DEF InBefore
<1>3. ASSUME m.slot # s, InBefore(q, last, s, Len(q) + 1)
      PROVE  InBefore(r, last, s, Len(q) + 2)
  <2>1. CASE \A k \in 1 .. Len(q) : q[k].slot # s
    <3>1. last[s] # NoCard
      BY <1>1, <1>3, <2>1 DEF InBefore
    <3>2. \A k \in 1 .. Len(q) + 1 : r[k].slot # s
      BY <1>1, <1>3, <2>1
    <3>3. QED BY <1>1, <3>1, <3>2 DEF InBefore
  <2>2. CASE \E i \in 1 .. Len(q) :
               /\ q[i].slot = s /\ q[i].type = "I"
               /\ \A k \in i + 1 .. Len(q) : q[k].slot # s
    <3>1. PICK i \in 1 .. Len(q) :
                 /\ q[i].slot = s /\ q[i].type = "I"
                 /\ \A k \in i + 1 .. Len(q) : q[k].slot # s
      BY <2>2
    <3>2. \A k \in i + 1 .. Len(q) + 1 : r[k].slot # s
      BY <1>1, <1>3, <3>1
    <3>3. QED BY <1>1, <3>1, <3>2 DEF InBefore
  <2>3. QED BY <1>1, <1>3, <2>1, <2>2 DEF InBefore
<1>4. QED BY <1>2, <1>3 DEF r

\* Handling the first message keeps what is so before each of the others.
LEMMA TailBefore ==
  ASSUME NEW q \in Seq(Messages), q # <<>>, NEW s \in Slots,
         NEW last, NEW next, NEW n \in 1 .. Len(q),
         InBefore(q, last, s, n + 1),
         Head(q).slot = s /\ Head(q).type = "I" => next[s] # NoCard,
         Head(q).slot # s => next[s] = last[s]
  PROVE  InBefore(Tail(q), next, s, n)
<1> DEFINE r == Tail(q)
<1>1. /\ Len(q) \in Nat /\ Head(q) = q[1] /\ Len(r) = Len(q) - 1
      /\ \A k \in 1 .. Len(q) - 1 : r[k] = q[k + 1]
  OBVIOUS
<1> HIDE DEF r
<1>2. CASE \A k \in 1 .. n : q[k].slot # s
  <2>1. next[s] # NoCard
    BY <1>1, <1>2 DEF InBefore
  <2>2. \A k \in 1 .. n - 1 : r[k].slot # s
    BY <1>1, <1>2
  <2>3. QED BY <2>1, <2>2 DEF InBefore, r
<1>3. CASE \E i \in 1 .. n : /\ q[i].slot = s /\ q[i].type = "I"
                             /\ \A k \in i + 1 .. n : q[k].slot # s
  <2>1. PICK i \in 1 .. n : /\ q[i].slot = s /\ q[i].type = "I"
                            /\ \A k \in i + 1 .. n : q[k].slot # s
    BY <1>3
  <2>2. CASE i = 1
    <3>1. \A k \in 1 .. n - 1 : r[k].slot # s
      BY <1>1, <2>1, <2>2
    <3>2. QED BY <1>1, <2>1, <2>2, <3>1 DEF InBefore, r
  <2>3. CASE i # 1
    <3>1. /\ i - 1 \in 1 .. n - 1
          /\ r[i - 1].slot = s /\ r[i - 1].type = "I"
      BY <1>1, <2>1, <2>3
    <3>2. ASSUME NEW k \in (i - 1) + 1 .. n - 1
          PROVE  r[k].slot # s
      <4>1. k \in 1 .. Len(q) - 1 /\ k + 1 \in i + 1 .. n
        BY <1>1, <2>3
      <4>2. QED BY <1>1, <2>1, <4>1
    <3>3. QED BY <3>1, <3>2 DEF InBefore, r
  <2>4. QED BY <2>2, <2>3
<1>4. QED BY <1>2, <1>3 DEF InBefore

\* Every removal in a queue is paired, where last was told before.
Paired(queue, last) ==
  \A n \in DOMAIN queue :
    queue[n].type = "R" => InBefore(queue, last, queue[n].slot, n)

LEMMA AppendPaired ==
  ASSUME NEW q \in Seq(Messages), NEW m \in Messages, NEW last,
         Paired(q, last),
         m.type = "R" => InBefore(q, last, m.slot, Len(q) + 1)
  PROVE  Paired(Append(q, m), last)
<1>0. DOMAIN Append(q, m) = 1 .. Len(q) + 1
  OBVIOUS
<1> SUFFICES ASSUME NEW n \in 1 .. Len(q) + 1, Append(q, m)[n].type = "R"
             PROVE  InBefore(Append(q, m), last, Append(q, m)[n].slot, n)
  BY <1>0 DEF Paired
<1>1. \A e \in Messages : e.slot \in Slots
  BY DEF Messages
<1>2. /\ Append(q, m)[n] \in Messages
      /\ n \in 1 .. Len(q) => Append(q, m)[n] = q[n]
      /\ n \notin 1 .. Len(q) => n = Len(q) + 1 /\ Append(q, m)[n] = m
  OBVIOUS
<1>3. DOMAIN q = 1 .. Len(q)
  OBVIOUS
<1>4. InBefore(q, last, Append(q, m)[n].slot, n)
  BY <1>2, <1>3 DEF Paired
<1>5. QED BY <1>1, <1>2, <1>4, AppendBefore

\* Handling the first message, which changes what was told of its slot.
LEMMA TailPaired ==
  ASSUME NEW q \in Seq(Messages), q # <<>>, NEW last, NEW next,
         Paired(q, last),
         Head(q).type = "I" => next[Head(q).slot] # NoCard,
         \A s \in Slots : Head(q).slot # s => next[s] = last[s]
  PROVE  Paired(Tail(q), next)
<1>0. DOMAIN Tail(q) = 1 .. Len(q) - 1
  OBVIOUS
<1> SUFFICES ASSUME NEW n \in 1 .. Len(q) - 1, Tail(q)[n].type = "R"
             PROVE  InBefore(Tail(q), next, Tail(q)[n].slot, n)
  BY <1>0 DEF Paired
<1>1. /\ n \in 1 .. Len(q) /\ n + 1 \in DOMAIN q
      /\ Tail(q)[n] = q[n + 1] /\ q[n + 1] \in Messages
      /\ Head(q) \in Messages
  OBVIOUS
<1>2. q[n + 1].slot \in Slots
  BY <1>1 DEF Messages
<1>3. InBefore(q, last, q[n + 1].slot, n + 1)
  BY <1>1 DEF Paired
<1>4. QED BY <1>1, <1>2, <1>3, TailBefore

-----------------------------------------------------------------------------
(* Type correctness                                                        *)

LEMMA InitTypeOK == Init => TypeOK
<1> USE CardsAssumption, SizeAssumption
<1> SUFFICES ASSUME Init PROVE TypeOK
  OBVIOUS
<1>1. pipe = <<>> /\ pipe \in Seq(Messages) /\ Len(pipe) <= PipeSize
  BY DEF Init
<1>2. /\ series \in [Slots -> AllSeries] /\ seen \in AllSeries
      /\ reported \in [Slots -> [series : AllSeries, present : BOOLEAN]]
  BY DEF Init, AllSeries
<1>3. tracked \in [Slots -> Tracked]
  BY DEF Init, Tracked
<1>4. /\ inSlot \in [Slots -> MaybeCards] /\ name = inSlot
      /\ told \in [Slots -> MaybeCards] /\ table \subseteq MaybeCards
  BY DEF Init, MaybeCards
<1>5. QED BY <1>1, <1>2, <1>3, <1>4 DEF Init, TypeOK

\* What Look writes is made of messages, and its slot is tracked by a record
\* of the right kind.
LEMMA LookTyped ==
  ASSUME TypeOK, Look
  PROVE  pipe' \in Seq(Messages) /\ tracked' \in [Slots -> Tracked]
<1>1. /\ pipe \in Seq(Messages) /\ slot \in Slots /\ seen \in AllSeries
      /\ tracked \in [Slots -> Tracked]
  BY DEF TypeOK
<1>2. tracked[slot] # Nothing => Removed(tracked[slot].card, slot) \in Messages
  BY <1>1 DEF Tracked, Removed, Messages
<1>3. CASE LookPresent
  <2>1. name[slot] \in Cards
    BY <1>1, <1>3 DEF LookPresent, Present, TypeOK, MaybeCards
  <2>2. Inserted(name[slot], slot) \in Messages
    BY <1>1, <2>1 DEF Inserted, Messages
  <2>3. pipe' \in Seq(Messages)
    BY <1>1, <1>2, <1>3, <2>2 DEF LookPresent
  <2>4. [series |-> seen, card |-> name[slot]] \in Tracked
    BY <1>1, <2>1 DEF Tracked
  <2>5. QED BY <1>1, <1>3, <2>3, <2>4 DEF LookPresent
<1>4. CASE LookRemoved
  BY <1>1, <1>2, <1>4 DEF LookRemoved, Tracked
<1>5. CASE LookMissed
  <2>1. tracked[slot] # Nothing /\ name[slot] \in Cards
    BY <1>1, <1>5 DEF LookMissed, TypeOK, MaybeCards
  <2>2. /\ Inserted(name[slot], slot) \in Messages
        /\ Removed(name[slot], slot) \in Messages
    BY <1>1, <2>1 DEF Inserted, Removed, Messages
  <2>3. pipe' \in Seq(Messages)
    BY <1>1, <1>2, <1>5, <2>1, <2>2 DEF LookMissed
  <2>4. [series |-> seen, card |-> name[slot]] \in Tracked
    BY <1>1, <2>1 DEF Tracked
  <2>5. QED BY <1>1, <1>5, <2>3, <2>4 DEF LookMissed
<1>6. CASE LookSpurious
  BY <1>1, <1>6 DEF LookSpurious
<1>7. QED BY <1>3, <1>4, <1>5, <1>6 DEF Look

LEMMA NextTypeOK == TypeOK /\ [Next]_vars => TypeOK'
<1> SUFFICES ASSUME TypeOK, [Next]_vars PROVE TypeOK'
  OBVIOUS
<1>1. ASSUME NEW s \in Slots, NEW card \in Cards, Insert(s, card)
      PROVE  TypeOK'
  <2>1. inSlot' \in [Slots -> MaybeCards] /\ name' \in [Slots -> MaybeCards]
    BY <1>1 DEF TypeOK, Insert, MaybeCards
  <2>2. series' \in [Slots -> AllSeries]
    BY <1>1, SizeAssumption DEF TypeOK, Insert, AllSeries
  <2>3. \A t \in Slots : /\ inSlot'[t] # NoCard => name'[t] = inSlot'[t]
                         /\ tracked'[t] # Nothing => name'[t] # NoCard
    BY <1>1, CardsAssumption DEF TypeOK, Insert, worker
  <2>4. QED
    BY <1>1, <2>1, <2>2, <2>3 DEF TypeOK, Insert, worker, plugin
<1>2. ASSUME NEW s \in Slots, Pull(s) PROVE TypeOK'
  BY <1>2 DEF TypeOK, Pull, MaybeCards, worker, plugin
<1>3. CASE ChangeSetting
  BY <1>3 DEF TypeOK, ChangeSetting, nss, worker, plugin
<1>4. CASE Wait
  <2>1. reported' \in [Slots -> [series : AllSeries, present : BOOLEAN]]
    <3>1. PICK s \in Slots :
            reported' = [reported EXCEPT ![s] = [series |-> series[s],
                                                 present |-> Present(s)]]
      BY <1>4 DEF Wait
    <3>2. series[s] \in AllSeries /\ Present(s) \in BOOLEAN
      BY DEF TypeOK, Present
    <3>3. QED BY <3>1, <3>2 DEF TypeOK
  <2>2. slot' \in Slots /\ pc' = "series"
    BY <1>4 DEF Wait
  <2>3. QED BY <1>4, <2>1, <2>2 DEF TypeOK, Wait, nss, plugin
<1>5. CASE WaitFails
  BY <1>5 DEF TypeOK, WaitFails, nss, plugin
<1>6. CASE ReadSeries
  BY <1>6 DEF TypeOK, ReadSeries, nss, plugin
<1>7. CASE Look
  <2>1. \A s \in Slots : tracked'[s] # Nothing => name[s] # NoCard
    <3>1. \A s \in Slots : tracked[s] # Nothing => name[s] # NoCard
      BY DEF TypeOK
    <3>2. tracked \in [Slots -> Tracked] /\ slot \in Slots
          /\ (Present(slot) => name[slot] # NoCard)
      BY DEF TypeOK, Present
    <3>3. QED
      BY <1>7, <3>1, <3>2
      DEF Look, LookPresent, LookSpurious, LookRemoved, LookMissed
  <2>2. QED BY <1>7, <2>1, LookTyped DEF TypeOK, Look, nss, plugin
<1>8. CASE StartWorkers
  BY <1>8 DEF TypeOK, StartWorkers, nss
<1>9. acted \in {"none", "lock_screen", "force_logout"}
      /\ (ProcessRemoval => acted' \in {"none", "lock_screen", "force_logout"})
  BY DEF TypeOK, ProcessRemoval, ConfiguredAction
<1>10. CASE StartFails
  BY <1>9, <1>10 DEF TypeOK, StartFails, nss, worker
<1>11. CASE Activate
  <2>1. table' \subseteq MaybeCards
    BY <1>11 DEF TypeOK, Activate
  <2>2. acted' \in {"none", "lock_screen", "force_logout"}
    BY <1>9, <1>11 DEF Activate
  <2>3. QED BY <1>11, <2>1, <2>2 DEF TypeOK, Activate, nss, worker
<1>12. ASSUME phase = "active", pipe # <<>>
       PROVE  /\ Head(pipe) \in Messages /\ Tail(pipe) \in Seq(Messages)
              /\ Len(Tail(pipe)) <= PipeSize
              /\ Head(pipe).card \in Cards /\ Head(pipe).slot \in Slots
  <2>1. pipe \in Seq(Messages) /\ Len(pipe) <= PipeSize
    BY DEF TypeOK
  <2>2. \A m \in Messages : m.card \in Cards /\ m.slot \in Slots
    BY DEF Messages
  <2>3. QED BY <1>12, <2>1, <2>2, SizeAssumption
<1>13. CASE HandleInserted
  <2>1. table' \subseteq MaybeCards /\ told' \in [Slots -> MaybeCards]
    BY <1>12, <1>13 DEF TypeOK, HandleInserted, MaybeCards
  <2>2. pipe' \in Seq(Messages) /\ Len(pipe') <= PipeSize
    BY <1>12, <1>13 DEF HandleInserted
  <2>3. flip' \in BOOLEAN
    BY <1>13 DEF TypeOK, HandleInserted
  <2>4. QED
    BY <1>13, <2>1, <2>2, <2>3 DEF TypeOK, HandleInserted, nss, worker
<1>14. CASE HandleRemoved
  <2>1. table' \subseteq MaybeCards /\ told' \in [Slots -> MaybeCards]
    BY <1>12, <1>14 DEF TypeOK, HandleRemoved, MaybeCards
  <2>2. pipe' \in Seq(Messages) /\ Len(pipe') <= PipeSize
    BY <1>12, <1>14 DEF HandleRemoved
  <2>3. flip' \in BOOLEAN
    BY <1>14 DEF TypeOK, HandleRemoved
  <2>4. acted' \in {"none", "lock_screen", "force_logout"}
    BY <1>9, <1>14 DEF HandleRemoved
  <2>5. QED
    BY <1>14, <2>1, <2>2, <2>3, <2>4 DEF TypeOK, HandleRemoved, nss, worker
<1>15. CASE HandleFreed
  BY <1>15 DEF TypeOK, HandleFreed, nss, worker
<1>16. CASE Deactivate
  BY <1>16 DEF TypeOK, Deactivate, nss, worker
<1>17. CASE UNCHANGED vars
  BY <1>17 DEF TypeOK, vars, nss, worker, plugin
<1>18. CASE RemoveNoKey
  BY <1>18 DEF TypeOK, RemoveNoKey, nss, worker
<1>19. QED
  BY <1>1, <1>2, <1>3, <1>4, <1>5, <1>6, <1>7, <1>8, <1>11, <1>13, <1>14,
     <1>10, <1>15, <1>16, <1>17, <1>18 DEF Next

\* The state of the thread, of its pipe and of the manager stays well typed,
\* for every number of slots and cards and every size of the pipe; in
\* particular a card that is in a slot is the one NSS names there.
THEOREM TypeCorrect == Spec => []TypeOK
<1>1. QED BY InitTypeOK, NextTypeOK, PTL DEF Spec

-----------------------------------------------------------------------------
(* Removals are paired                                                     *)

LEMMA InitIInv == Init => IInv
<1> SUFFICES ASSUME Init PROVE IInv
  OBVIOUS
<1>1. RemovalsArePaired /\ TrackedIsTold /\ OffIsIdle
  BY DEF Init, RemovalsArePaired, TrackedIsTold, OffIsIdle
<1>2. QED BY <1>1, InitTypeOK DEF IInv

\* A removal written of a tracked card finds it told, and an insertion of the
\* card makes it told again.
LEMMA LookIInv ==
  ASSUME IInv, TypeOK', Look
  PROVE  RemovalsArePaired' /\ TrackedIsTold'
<1>1. /\ pipe \in Seq(Messages) /\ slot \in Slots /\ Paired(pipe, told)
      /\ told' = told /\ tracked \in [Slots -> Tracked]
      /\ \A s \in Slots :
           tracked[s] # Nothing => InBefore(pipe, told, s, Len(pipe) + 1)
  BY DEF IInv, TypeOK, RemovalsArePaired, TrackedIsTold, Paired, Look, plugin
<1>2. SUFFICES Paired(pipe', told) /\ TrackedIsTold'
  BY <1>1 DEF RemovalsArePaired, Paired, InBefore
<1>3. ASSUME tracked[slot] # Nothing
      PROVE  /\ Removed(tracked[slot].card, slot) \in Messages
             /\ Paired(Append(pipe, Removed(tracked[slot].card, slot)), told)
             /\ \A s \in Slots \ {slot} :
                  tracked[s] # Nothing =>
                    InBefore(Append(pipe, Removed(tracked[slot].card, slot)),
                             told, s, Len(pipe) + 2)
  <2> DEFINE m == Removed(tracked[slot].card, slot)
  <2>1. m \in Messages /\ m.slot = slot /\ m.type = "R"
    BY <1>1, <1>3 DEF Tracked, Removed, Messages
  <2>2. InBefore(pipe, told, slot, Len(pipe) + 1)
    BY <1>1, <1>3
  <2>3. \A s \in Slots \ {slot} :
          tracked[s] # Nothing => InBefore(pipe, told, s, Len(pipe) + 1)
    BY <1>1
  <2> HIDE DEF m
  <2>4. Paired(Append(pipe, m), told)
    BY <1>1, <2>1, <2>2, AppendPaired
  <2>5. \A s \in Slots \ {slot} : tracked[s] # Nothing =>
          InBefore(Append(pipe, m), told, s, Len(pipe) + 2)
    BY <1>1, <2>1, <2>3, AppendAfter
  <2>6. QED BY <2>1, <2>4, <2>5 DEF m
<1>4. CASE LookPresent
  <2>1. PICK q \in Seq(Messages) :
          /\ Paired(q, told)
          /\ pipe' = Append(q, Inserted(name[slot], slot))
          /\ \A s \in Slots \ {slot} :
               tracked[s] # Nothing => InBefore(q, told, s, Len(q) + 1)
    <3> DEFINE m == Removed(tracked[slot].card, slot)
    <3>1. CASE tracked[slot] # Nothing /\ tracked[slot].series # seen
      <4>1. pipe' = Append(Append(pipe, m), Inserted(name[slot], slot))
        BY <1>4, <3>1 DEF LookPresent
      <4>2. m \in Messages
        BY <1>3, <3>1
      <4> HIDE DEF m
      <4>3. /\ Append(pipe, m) \in Seq(Messages)
            /\ Len(Append(pipe, m)) + 1 = Len(pipe) + 2
        BY <1>1, <4>2
      <4>4. /\ Paired(Append(pipe, m), told)
            /\ \A s \in Slots \ {slot} : tracked[s] # Nothing =>
                 InBefore(Append(pipe, m), told, s, Len(pipe) + 2)
        BY <1>3, <3>1 DEF m
      <4>5. QED BY <4>1, <4>3, <4>4
    <3>2. CASE ~(tracked[slot] # Nothing /\ tracked[slot].series # seen)
      <4>1. pipe' = Append(pipe, Inserted(name[slot], slot))
        BY <1>4, <3>2 DEF LookPresent
      <4>2. QED BY <1>1, <4>1
    <3>3. QED BY <3>1, <3>2
  <2> DEFINE i == Inserted(name[slot], slot)
  <2>2. i \in Messages /\ i.type = "I" /\ i.slot = slot
    <3>1. name[slot] \in Cards
      BY <1>1, <1>4 DEF LookPresent, Present, IInv, TypeOK, MaybeCards
    <3>2. QED BY <1>1, <3>1 DEF Inserted, Messages
  <2>3. \A s \in Slots \ {slot} : tracked'[s] = tracked[s]
    BY <1>1, <1>4 DEF LookPresent
  <2>4. pipe' = Append(q, i)
    BY <2>1
  <2> HIDE DEF i
  <2>5. Paired(pipe', told)
    BY <2>1, <2>2, <2>4, AppendPaired
  <2>6. Len(pipe') + 1 = Len(q) + 2
    BY <2>1, <2>2, <2>4
  <2>7. \A s \in Slots :
          tracked'[s] # Nothing => InBefore(pipe', told, s, Len(pipe') + 1)
    <3>1. InBefore(Append(q, i), told, slot, Len(q) + 2)
      BY <1>1, <2>2, AppendAfter
    <3>2. \A s \in Slots \ {slot} : tracked[s] # Nothing =>
            InBefore(Append(q, i), told, s, Len(q) + 2)
      BY <2>1, <2>2, AppendAfter
    <3>3. QED BY <2>3, <2>4, <2>6, <3>1, <3>2
  <2>8. QED BY <1>1, <2>5, <2>7 DEF TrackedIsTold, InBefore
<1>5. CASE LookRemoved
  <2> DEFINE m == Removed(tracked[slot].card, slot)
  <2>1. /\ tracked[slot] # Nothing /\ pipe' = Append(pipe, m)
        /\ \A s \in Slots : tracked'[s] = IF s = slot THEN Nothing
                                          ELSE tracked[s]
    BY <1>1, <1>5 DEF LookRemoved
  <2>2. m \in Messages /\ Paired(pipe', told)
    BY <1>3, <2>1
  <2>3. \A s \in Slots \ {slot} : tracked[s] # Nothing =>
          InBefore(pipe', told, s, Len(pipe) + 2)
    BY <1>3, <2>1
  <2> HIDE DEF m
  <2>4. Len(pipe') + 1 = Len(pipe) + 2
    BY <1>1, <2>1, <2>2
  <2>5. \A s \in Slots :
          tracked'[s] # Nothing => InBefore(pipe', told, s, Len(pipe') + 1)
    BY <2>1, <2>3, <2>4
  <2>6. QED BY <1>1, <2>2, <2>5 DEF TrackedIsTold, InBefore
<1>6. CASE LookMissed /\ pc' = "unkeyed"
  <2> DEFINE m == Removed(tracked[slot].card, slot)
             i == Inserted(name[slot], slot)
             r == Removed(name[slot], slot)
  <2>1. /\ tracked[slot] # Nothing
        /\ pipe' = Append(Append(Append(pipe, m), i), r)
    BY <1>6 DEF LookMissed
  <2>2. m \in Messages /\ Paired(Append(pipe, m), told)
    BY <1>3, <2>1
  <2>3. /\ i \in Messages /\ i.type = "I" /\ i.slot = slot
        /\ r \in Messages /\ r.slot = slot
    <3>1. name[slot] \in Cards
      BY <1>1, <2>1 DEF IInv, TypeOK, MaybeCards
    <3>2. QED BY <1>1, <3>1 DEF Inserted, Removed, Messages
  <2> HIDE DEF m, i, r
  <2> DEFINE q == Append(pipe, m)
  <2>4. q \in Seq(Messages) /\ Paired(q, told)
    BY <1>1, <2>2
  <2> HIDE DEF q
  <2>5. /\ Append(q, i) \in Seq(Messages) /\ Paired(Append(q, i), told)
        /\ Len(Append(q, i)) + 1 = Len(q) + 2
    BY <2>3, <2>4, AppendPaired
  <2>6. InBefore(Append(q, i), told, r.slot, Len(Append(q, i)) + 1)
    BY <1>1, <2>3, <2>4, <2>5, AppendAfter
  <2>7. Paired(pipe', told)
    BY <2>1, <2>3, <2>5, <2>6, AppendPaired DEF q
  <2>8. QED BY <1>6, <2>7 DEF TrackedIsTold
<1>7. CASE LookSpurious
  BY <1>1, <1>7 DEF LookSpurious, TrackedIsTold, InBefore
<1>8. QED BY <1>4, <1>5, <1>6, <1>7 DEF Look

\* The main loop takes the first message and tells it.
LEMMA HandleIInv ==
  ASSUME IInv, HandleInserted \/ HandleRemoved
  PROVE  RemovalsArePaired' /\ TrackedIsTold'
<1>1. /\ pipe \in Seq(Messages) /\ pipe # <<>> /\ pipe' = Tail(pipe)
      /\ tracked' = tracked /\ pc' = pc /\ Paired(pipe, told)
  BY DEF IInv, TypeOK, RemovalsArePaired, Paired, HandleInserted,
         HandleRemoved, worker
<1>2. Head(pipe) \in Messages /\ Len(pipe) \in Nat \ {0}
      /\ Len(pipe') + 1 = Len(pipe)
  BY <1>1
<1>3. /\ Head(pipe).type = "I" => told'[Head(pipe).slot] # NoCard
      /\ \A s \in Slots : Head(pipe).slot # s => told'[s] = told[s]
  <2>1. Head(pipe).card \in Cards /\ Head(pipe).slot \in Slots
    BY <1>2 DEF Messages
  <2>2. told \in [Slots -> MaybeCards]
    BY DEF IInv, TypeOK
  <2>3. QED
    BY <2>1, <2>2, CardsAssumption DEF HandleInserted, HandleRemoved
<1>4. Paired(pipe', told')
  BY <1>1, <1>3, TailPaired
<1>5. ASSUME pc # "unkeyed", NEW s \in Slots, tracked[s] # Nothing
      PROVE  InBefore(pipe', told', s, Len(pipe') + 1)
  <2>1. InBefore(pipe, told, s, Len(pipe) + 1)
    BY <1>5 DEF IInv, TrackedIsTold
  <2>2. /\ Head(pipe).slot = s /\ Head(pipe).type = "I"
             => told'[s] # NoCard
        /\ Head(pipe).slot # s => told'[s] = told[s]
    BY <1>3
  <2>3. Len(pipe) \in 1 .. Len(pipe)
    BY <1>2
  <2>4. InBefore(Tail(pipe), told', s, Len(pipe))
    BY <1>1, <2>1, <2>2, <2>3, TailBefore
  <2>5. QED BY <1>1, <1>2, <2>4
<1>6. QED
  BY <1>1, <1>4, <1>5 DEF RemovalsArePaired, TrackedIsTold, Paired, InBefore

LEMMA NextOffIsIdle == OffIsIdle /\ [Next]_vars => OffIsIdle'
<1> SUFFICES ASSUME OffIsIdle, [Next]_vars PROVE OffIsIdle'
  OBVIOUS
<1>1. CASE (\E s \in Slots, card \in Cards : Insert(s, card))
           \/ (\E s \in Slots : Pull(s)) \/ ChangeSetting
  BY <1>1 DEF Insert, Pull, ChangeSetting, worker, plugin, OffIsIdle
<1>2. CASE Wait \/ WaitFails \/ ReadSeries \/ Look \/ RemoveNoKey
  BY <1>2
  DEF Wait, WaitFails, ReadSeries, Look, RemoveNoKey, plugin, OffIsIdle
<1>3. CASE StartWorkers \/ StartFails \/ Activate \/ HandleFreed \/ Deactivate
           \/ HandleInserted \/ HandleRemoved
  BY <1>3
  DEF StartWorkers, StartFails, Activate, HandleFreed, Deactivate,
      HandleInserted, HandleRemoved, worker, OffIsIdle
<1>4. CASE UNCHANGED vars
  BY <1>4 DEF vars, worker, plugin, OffIsIdle
<1>5. QED BY <1>1, <1>2, <1>3, <1>4 DEF Next

LEMMA NextIInv == IInv /\ [Next]_vars => IInv'
<1> SUFFICES ASSUME IInv, [Next]_vars PROVE IInv'
  OBVIOUS
<1>1. TypeOK' /\ OffIsIdle'
  BY NextTypeOK, NextOffIsIdle DEF IInv
<1>2. CASE Look
  BY <1>1, <1>2, LookIInv DEF IInv
<1>3. CASE HandleInserted \/ HandleRemoved
  BY <1>1, <1>3, HandleIInv DEF IInv
<1>4. CASE /\ pipe' = pipe /\ told' = told /\ tracked' = tracked
           /\ pc' # "unkeyed" => pc # "unkeyed"
  BY <1>1, <1>4 DEF IInv, RemovalsArePaired, TrackedIsTold, InBefore
<1>5. \/ Look \/ HandleInserted \/ HandleRemoved
      \/ /\ pipe' = pipe /\ told' = told /\ tracked' = tracked
         /\ pc' # "unkeyed" => pc # "unkeyed"
  <2>1. CASE (\E s \in Slots, card \in Cards : Insert(s, card))
             \/ (\E s \in Slots : Pull(s)) \/ ChangeSetting
    BY <2>1 DEF Insert, Pull, ChangeSetting, worker, plugin
  <2>2. CASE Wait \/ WaitFails \/ ReadSeries \/ StartWorkers
    BY <2>2 DEF Wait, WaitFails, ReadSeries, StartWorkers, plugin,
               IInv, OffIsIdle
  <2>3. CASE StartFails \/ Activate \/ HandleFreed \/ Deactivate
             \/ RemoveNoKey
    BY <2>3 DEF StartFails, Activate, HandleFreed, Deactivate,
               RemoveNoKey, worker
  <2>4. CASE UNCHANGED vars
    BY <2>4 DEF vars, worker, plugin
  <2>5. QED BY <2>1, <2>2, <2>3, <2>4 DEF Next
<1>6. QED BY <1>2, <1>3, <1>4, <1>5

\* No removal without an insertion of the same slot before it, whatever
\* happens to the slots between the calls of the thread.
THEOREM RemovalsPaired == Spec => []RemovalsArePaired
<1>1. IInv => RemovalsArePaired
  BY DEF IInv
<1>2. QED BY <1>1, InitIInv, NextIInv, PTL DEF Spec

-----------------------------------------------------------------------------
(* The plugin implements CardWatch                                         *)

LEMMA WatchInit == Init => Watch!Init
BY DEF Init, Watch!Init, Watching, MaybeCards

\* The removal at the head of the pipe is of a slot that was told inserted.
LEMMA HandledIsTold ==
  ASSUME IInv, HandleRemoved
  PROVE  Head(pipe).slot \in Slots /\ told[Head(pipe).slot] # NoCard
<1>1. pipe \in Seq(Messages) /\ pipe # <<>> /\ Head(pipe).type = "R"
  BY DEF IInv, TypeOK, HandleRemoved
<1>2. 1 \in DOMAIN pipe /\ pipe[1] = Head(pipe) /\ Head(pipe) \in Messages
  BY <1>1
<1>3. InBefore(pipe, told, Head(pipe).slot, 1)
  BY <1>1, <1>2 DEF IInv, RemovalsArePaired
<1>4. Head(pipe).slot \in Slots
  BY <1>2 DEF Messages
<1>5. QED BY <1>3, <1>4 DEF InBefore

LEMMA WatchNext ==
  ASSUME IInv, IInv', [Next]_vars
  PROVE  [Watch!Next]_(Watch!vars)
<1>1. CASE HandleInserted
  <2>1. Head(pipe).slot \in Slots /\ Head(pipe).card \in Cards
    <3>1. Head(pipe) \in Messages
      BY <1>1 DEF IInv, TypeOK, HandleInserted
    <3>2. QED BY <3>1 DEF Messages
  <2>2. Watch!TellInserted(Head(pipe).slot)
    BY <1>1, <2>1
    DEF HandleInserted, Watch!TellInserted, Watching, nss, worker
  <2>3. QED BY <2>1, <2>2 DEF Watch!Next
<1>2. CASE HandleRemoved
  <2>1. Watch!TellRemoved(Head(pipe).slot)
    BY <1>2, HandledIsTold
    DEF HandleRemoved, Watch!TellRemoved, Watching, nss, worker
  <2>2. QED BY <1>2, <2>1, HandledIsTold DEF Watch!Next
<1>3. CASE told' = told /\ flip' = flip
  <2>1. inSlot' \in [Slots -> Cards \cup {NoCard}]
    BY DEF IInv, TypeOK, MaybeCards
  <2>2. Watching' \in BOOLEAN
    BY DEF Watching
  <2>3. Watch!WorldChanges
    BY <1>3, <2>1, <2>2 DEF Watch!WorldChanges
  <2>4. QED BY <2>3 DEF Watch!Next
<1>4. \/ HandleInserted \/ HandleRemoved
      \/ told' = told /\ flip' = flip
  <2>1. CASE (\E s \in Slots, card \in Cards : Insert(s, card))
             \/ (\E s \in Slots : Pull(s)) \/ ChangeSetting
    BY <2>1 DEF Insert, Pull, ChangeSetting, plugin
  <2>2. CASE Wait \/ WaitFails \/ ReadSeries \/ StartWorkers \/ Look
    BY <2>2 DEF Wait, WaitFails, ReadSeries, StartWorkers, Look, plugin
  <2>3. CASE StartFails \/ Activate \/ HandleFreed \/ Deactivate
             \/ RemoveNoKey
    BY <2>3 DEF StartFails, Activate, HandleFreed, Deactivate, RemoveNoKey
  <2>4. CASE UNCHANGED vars
    BY <2>4 DEF vars, plugin
  <2>5. QED BY <2>1, <2>2, <2>3, <2>4 DEF Next
<1>5. QED BY <1>1, <1>2, <1>3, <1>4

\* The thread, its pipe and the manager implement CardWatch: whatever a step
\* tells, CardWatch allows, and every other step is one of the world.
THEOREM ImplementsWatch == Spec => Watched
<1>1. IInv /\ IInv' /\ [Next]_vars => [Watch!Next]_(Watch!vars)
  BY WatchNext
<1>2. QED
  BY <1>1, WatchInit, InitIInv, NextIInv, PTL DEF Spec, Watched, Watch!Spec
=============================================================================
