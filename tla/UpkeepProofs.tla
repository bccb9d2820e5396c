----------------------------- MODULE UpkeepProofs -----------------------------
(***************************************************************************)
(* Proofs about the parts that Upkeep puts together: that nothing is lost  *)
(* which users want, for any volumes, files, thumbnails and printers.      *)
(***************************************************************************)
EXTENDS Upkeep, SequenceTheorems, FiniteSetTheorems, NaturalsInduction,
        WellFoundedInduction, TLAPS

-----------------------------------------------------------------------------
(* Numbers and iteration                                                   *)

\* Numbers below a number are well-founded, so that a set of them has a least
\* one.
Less == {p \in Nat \X Nat : p[1] < p[2]}

LEMMA LeastNumber ==
  ASSUME NEW T \in SUBSET Nat, T # {}
  PROVE  \E n \in T : \A m \in T : n <= m
<1>1. Less = OpToRel(<, Nat)
  BY Zenon DEF OpToRel, Less
<1>2. IsWellFoundedOn(Less, Nat)
  BY <1>1, NatLessThanWellFounded, Zenon
<1>3. PICK x \in T : \A y \in T : <<y, x>> \notin Less
  BY <1>2, WFMin
<1>4. \A y \in T : <<y, x>> \in Nat \X Nat /\ <<y, x>>[1] = y /\ <<y, x>>[2] = x
  OBVIOUS
<1>5. \A y \in T : ~(y < x)
  BY <1>3, <1>4 DEF Less
<1> QED
  BY <1>5

\* A step function can be iterated from any start.
Iteration(f, n, X, start, next) ==
  /\ f \in [0..n -> X] /\ f[0] = start
  /\ \A k \in 1..n : f[k] = next[<<f[k - 1], k>>]

LEMMA Iterated ==
  ASSUME NEW N \in Nat, NEW X, NEW start \in X, NEW next \in [X \X (1..N) -> X]
  PROVE  \E f : Iteration(f, N, X, start, next)
<1> DEFINE Is(f, n) == /\ f \in [0..n -> X] /\ f[0] = start
                       /\ \A k \in 1..n : f[k] = next[<<f[k - 1], k>>]
           T == {n \in 0..N : ~\E f : Is(f, n)}
<1>1. \E f : Is(f, 0)
  <2>1. Is([k \in 0..0 |-> start], 0)
    OBVIOUS
  <2> QED
    BY <2>1
<1>2. ASSUME NEW n \in 1..N, NEW f, Is(f, n - 1)
      PROVE  \E g : Is(g, n)
  <2> DEFINE g == [k \in 0..n |-> IF k = n THEN next[<<f[n - 1], n>>] ELSE f[k]]
  <2>1. /\ n - 1 \in 0..(n - 1) /\ n \in 0..n
        /\ \A k \in 0..n : k # n => k \in 0..(n - 1)
        /\ \A k \in 1..n : k - 1 \in 0..n /\ k - 1 # n /\ (k # n => k \in 1..(n - 1))
    OBVIOUS
  <2>2. next[<<f[n - 1], n>>] \in X
    BY <1>2, <2>1
  <2>3. g \in [0..n -> X]
    BY <1>2, <2>1, <2>2
  <2>4. g[0] = start
    BY <1>2, <2>1
  <2>5. ASSUME NEW k \in 1..n PROVE g[k] = next[<<g[k - 1], k>>]
    <3>1. g[k - 1] = f[k - 1]
      BY <2>1
    <3>2. CASE k = n
      BY <2>1, <3>1, <3>2
    <3>3. CASE k # n
      BY <1>2, <2>1, <3>1, <3>3
    <3> QED
      BY <3>2, <3>3
  <2> HIDE DEF g
  <2> QED
    BY <2>3, <2>4, <2>5
<1>3. T = {}
  <2> SUFFICES ASSUME T # {} PROVE FALSE
    OBVIOUS
  <2>1. PICK n \in T : \A m \in T : n <= m
    <3>1. T \subseteq Nat
      OBVIOUS
    <3> HIDE DEF T
    <3> QED
      BY <3>1, LeastNumber
  <2>2. n \in 0..N /\ ~\E f : Is(f, n)
    OBVIOUS
  <2> HIDE DEF Is
  <2>3. n # 0
    BY <1>1, <2>2
  <2>4. n \in 1..N /\ n - 1 \in 0..N /\ ~(n <= n - 1)
    BY <2>2, <2>3
  <2>5. n - 1 \notin T
    BY <2>1, <2>4
  <2> QED
    BY <1>2, <2>2, <2>4, <2>5
<1>4. \E f : Is(f, N)
  <2>1. N \in 0..N
    OBVIOUS
  <2> HIDE DEF Is
  <2> QED
    BY <1>3, <2>1
<1> QED
  BY <1>4 DEF Iteration

-----------------------------------------------------------------------------
(* The subscription with CUPS                                              *)

LEMMA SmallIs ==
  ASSUME NEW x, NEW S \in SUBSET {x}
  PROVE  PN!Cardinality(S) <= 1 /\ (S = {} => PN!Cardinality(S) = 0)
<1>1. PN!Cardinality(S) = Cardinality(S)
  BY DEF PN!Cardinality, Cardinality
<1>2. S = {} \/ S = {x}
  OBVIOUS
<1> QED
  BY <1>1, <1>2, FS_EmptySet, FS_Singleton

\* While no stop came too early: what CUPS and the process for new printers have
\* is what the plugin knows of, and a plugin that is stopped has nothing there,
\* and a number that keeps its old timers from subscribing anew.
CupsTypes ==
  /\ cupsClean \in BOOLEAN /\ starts \in Nat /\ (cupsActive => starts > 0)
  /\ startIdles \in Nat /\ lastId \in Nat /\ subscriptionId \in 0..lastId
  /\ server \subseteq 1..lastId
  /\ tests \in Nat /\ connecting \in Nat /\ renewals \in Nat /\ renewing \in Nat
CupsKnown == server \subseteq {subscriptionId} /\ handlers \subseteq {handlerPid} \ {0}
CupsGone ==
  /\ server = {} /\ handlers = {} /\ startIdles = 0
  /\ \/ subscriptionId # 0
     \/ tests = 0 /\ connecting = 0 /\ renewals = 0 /\ renewing = 0
CupsInv ==
  CupsTypes /\ (cupsClean => CupsKnown /\ (~cupsActive => CupsGone))

LEMMA CupsHolds == CupsInv => PN!OneSubscription
<1> SUFFICES ASSUME CupsInv, cupsClean PROVE PN!OneSubscription
  BY DEF PN!OneSubscription
<1>1. /\ server \in SUBSET {subscriptionId} /\ handlers \in SUBSET {handlerPid}
      /\ ~cupsActive => server = {} /\ handlers = {}
  BY DEF CupsInv, CupsKnown, CupsGone
<1> QED
  BY <1>1, SmallIs DEF PN!OneSubscription

LEMMA CupsStart == PN!CupsInit => CupsInv
BY DEF PN!CupsInit, CupsInv, CupsTypes, CupsKnown, CupsGone, PN!Never

\* Whoever renews: there is a subscription of the plugin's number or none.
LEMMA RenewIs ==
  ASSUME CupsInv, PN!RenewSubscription
  PROVE  /\ lastId' \in Nat /\ subscriptionId' \in 0..lastId'
         /\ server' \subseteq 1..lastId'
         /\ cupsClean /\ server \subseteq {subscriptionId} =>
              server' \subseteq {subscriptionId'}
         /\ subscriptionId # 0 =>
              subscriptionId' = subscriptionId /\ server' = server
<1>1. CASE UNCHANGED <<subscriptionId, server, lastId>>
  BY <1>1 DEF CupsInv, CupsTypes, CupsKnown, CupsGone
<1>2. CASE /\ subscriptionId = 0 /\ lastId' = lastId + 1
           /\ subscriptionId' = lastId' /\ server' = server \cup {lastId'}
  <2>1. server \subseteq {0} => server = {}
    BY DEF CupsInv, CupsTypes, CupsKnown, CupsGone
  <2> QED
    BY <1>2, <2>1 DEF CupsInv, CupsTypes, CupsKnown, CupsGone
<1> QED
  BY <1>1, <1>2 DEF PN!RenewSubscription, PN!Never

LEMMA ConnectionTestIs ==
  ASSUME CupsInv, PN!ConnectionTest, startIdles # 0 \/ tests # 0 \/ connecting # 0
  PROVE  /\ lastId' \in Nat /\ subscriptionId' \in 0..lastId'
         /\ server' \subseteq 1..lastId'
         /\ connecting' \in Nat /\ renewals' \in Nat
         /\ cupsClean =>
              /\ server' \subseteq {subscriptionId'}
              /\ ~cupsActive => server' = {} /\ subscriptionId' # 0
<1>1. CASE UNCHANGED <<subscriptionId, server, lastId>>
  BY <1>1 DEF CupsInv, CupsTypes, CupsKnown, CupsGone, PN!ConnectionTest, PN!GetDestsAndRenew
<1>2. CASE PN!GetDestsAndRenew /\ UNCHANGED connecting
  BY <1>2, RenewIs DEF CupsInv, CupsTypes, CupsKnown, CupsGone, PN!GetDestsAndRenew
<1> QED
  BY <1>1, <1>2 DEF PN!ConnectionTest

LEMMA CupsStep == CupsInv /\ (PN!CupsNext \/ UNCHANGED cupsVars) => CupsInv'
<1> SUFFICES ASSUME CupsInv, PN!CupsNext \/ UNCHANGED cupsVars PROVE CupsInv'
  OBVIOUS
<1> USE DEF PN!plugin, PN!cups
<1>0. CupsTypes /\ (cupsClean => CupsKnown) /\ (cupsClean /\ ~cupsActive => CupsGone)
  BY DEF CupsInv
<1> SUFFICES /\ CupsTypes' /\ (cupsClean' => CupsKnown')
             /\ cupsClean' /\ ~cupsActive' => CupsGone'
  BY DEF CupsInv
<1> USE DEF CupsTypes, CupsKnown, CupsGone
<1>1. CASE PN!Start
  BY <1>0, <1>1 DEF PN!Start, PN!Never
<1>2. CASE PN!StartIdle
  <2>1. /\ startIdles > 0 /\ startIdles' = startIdles - 1 /\ PN!ConnectionTest
        /\ UNCHANGED <<cupsActive, starts, tests, renewing, cupsClean>>
        /\ \/ UNCHANGED <<handlers, handlerPid>>
           \/ /\ handlerPid = 0
              /\ handlerPid' = starts /\ handlers' = handlers \cup {starts}
    BY <1>2 DEF PN!StartIdle, PN!ScpHandler
  <2>2. startIdles # 0 /\ startIdles' \in Nat /\ (cupsClean => cupsActive)
    BY <1>0, <2>1
  <2>3. cupsClean => handlers' \subseteq {handlerPid'} \ {0}
    BY <1>0, <2>1, <2>2
  <2> QED
    BY <1>0, <2>1, <2>2, <2>3, ConnectionTestIs
<1>3. CASE PN!Stop
  <2>1. /\ cupsActive /\ ~cupsActive'
        /\ cupsClean' = (cupsClean /\ up /\ subscriptionId # 0 /\ startIdles = 0)
        /\ server' = IF up THEN server \ {subscriptionId} ELSE server
        /\ handlers' = handlers \ {handlerPid} /\ handlerPid' = 0
        /\ UNCHANGED <<lastId, starts, startIdles, tests, connecting, renewals,
                       renewing, subscriptionId>>
    BY <1>3 DEF PN!Stop, PN!CancelSubscription, PN!Never
  <2>2. CupsTypes'
    BY <1>0, <2>1
  <2>3. cupsClean' => cupsClean /\ up /\ subscriptionId # 0 /\ startIdles = 0
    BY <2>1
  <2>4. cupsClean' => server' = {} /\ handlers' = {}
    BY <1>0, <2>1, <2>3
  <2>5. cupsClean' => CupsKnown'
    BY <2>4
  <2>7. cupsClean' => startIdles' = 0
    BY <2>1, <2>3
  <2>8. cupsClean' => subscriptionId' # 0
    BY <2>1, <2>3
  <2>6. cupsClean' => CupsGone'
    BY <2>4, <2>7, <2>8
  <2> QED
    BY <2>2, <2>5, <2>6
<1>4. CASE PN!CupsChanges
  BY <1>0, <1>4 DEF PN!CupsChanges
<1>5. CASE PN!TestTimer
  <2>1. /\ tests > 0 /\ PN!ConnectionTest /\ tests' \in {tests, tests - 1}
        /\ UNCHANGED <<renewing, cupsActive, starts, startIdles, handlers, handlerPid,
                       cupsClean>>
    BY <1>5 DEF PN!TestTimer
  <2>2. tests # 0 /\ tests' \in Nat
    BY <1>0, <2>1
  <2>3. CupsTypes'
    BY <1>0, <2>1, <2>2, ConnectionTestIs
  <2>4. cupsClean' => CupsKnown'
    BY <1>0, <2>1, <2>2, ConnectionTestIs
  <2>5. cupsClean' /\ ~cupsActive' => CupsGone'
    <3>1. cupsClean' /\ ~cupsActive' => cupsClean /\ ~cupsActive /\ CupsGone
      BY <1>0, <2>1
    <3>2. cupsClean' /\ ~cupsActive' => server' = {} /\ subscriptionId' # 0
      BY <2>1, <2>2, <3>1, ConnectionTestIs
    <3> QED
      BY <2>1, <2>3, <3>1, <3>2
  <2> QED
    BY <2>3, <2>4, <2>5
<1>6. CASE PN!ConnectionTested
  <2>1. /\ connecting # 0 /\ connecting' \in Nat
        /\ UNCHANGED <<renewing, cupsActive, starts, startIdles, handlers, handlerPid,
                       cupsClean>>
        /\ \/ PN!GetDestsAndRenew /\ tests' = tests
           \/ /\ tests' \in {tests, tests + 1}
              /\ UNCHANGED <<renewals, subscriptionId, server, lastId>>
    BY <1>0, <1>6 DEF PN!ConnectionTested
  <2>2. PN!GetDestsAndRenew => PN!RenewSubscription /\ renewals' = renewals + 1
    BY DEF PN!GetDestsAndRenew
  <2>3. cupsClean /\ ~cupsActive => subscriptionId # 0
    BY <1>0, <2>1
  <2>4. CupsTypes'
    <3>1. /\ lastId' \in Nat /\ subscriptionId' \in 0..lastId'
          /\ server' \subseteq 1..lastId'
      BY <1>0, <2>1, <2>2, RenewIs
    <3>2. renewals' \in Nat /\ tests' \in Nat
      BY <1>0, <2>1, <2>2
    <3> QED
      BY <1>0, <2>1, <3>1, <3>2
  <2>5. cupsClean' => CupsKnown'
    BY <1>0, <2>1, <2>2, RenewIs
  <2>6. cupsClean' /\ ~cupsActive' => CupsGone'
    BY <1>0, <2>1, <2>2, <2>3, RenewIs
  <2> QED
    BY <2>4, <2>5, <2>6
<1>7. CASE PN!RenewTimer
  <2>1. /\ renewals # 0
        /\ renewing' \in Nat /\ PN!RenewSubscription
        /\ UNCHANGED <<tests, connecting, renewals, cupsActive, starts, startIdles,
                       handlers, handlerPid, cupsClean>>
    BY <1>0, <1>7 DEF PN!RenewTimer, PN!RenewSubscription
  <2>2. cupsClean /\ ~cupsActive => subscriptionId # 0
    BY <1>0, <2>1
  <2>3. CupsTypes'
    BY <1>0, <2>1, <2>2, RenewIs
  <2>4. cupsClean' => CupsKnown'
    BY <1>0, <2>1, <2>2, RenewIs
  <2>5. cupsClean' /\ ~cupsActive' => CupsGone'
    BY <1>0, <2>1, <2>2, RenewIs
  <2> QED
    BY <2>3, <2>4, <2>5
<1>8. CASE PN!RenewalTested
  <2>1. /\ renewing # 0 /\ renewing' \in Nat
        /\ PN!RenewSubscription
        /\ UNCHANGED <<tests, connecting, renewals, cupsActive, starts, startIdles,
                       handlers, handlerPid, cupsClean>>
    BY <1>0, <1>8 DEF PN!RenewalTested, PN!RenewSubscription
  <2>2. cupsClean /\ ~cupsActive => subscriptionId # 0
    BY <1>0, <2>1
  <2>3. CupsTypes'
    BY <1>0, <2>1, <2>2, RenewIs
  <2>4. cupsClean' => CupsKnown'
    BY <1>0, <2>1, <2>2, RenewIs
  <2>5. cupsClean' /\ ~cupsActive' => CupsGone'
    BY <1>0, <2>1, <2>2, RenewIs
  <2> QED
    BY <2>3, <2>4, <2>5
<1>9. CASE UNCHANGED cupsVars
  BY <1>0, <1>9 DEF cupsVars
<1> QED
  BY <1>1, <1>2, <1>3, <1>4, <1>5, <1>6, <1>7, <1>8, <1>9 DEF PN!CupsNext

-----------------------------------------------------------------------------
(* Queues for new printers                                                 *)

Methods == {"GetReady", "NewPrinter", "NewQueue", "InstallDrivers"}
Announcements == [id : Nat, method : Methods, device : NewDevices]

\* Announcements are numbered as they come; nothing is known yet of those to come.
InTurn ==
  /\ calls \in Seq(Announcements) /\ announced \in Nat /\ printerCall.id \in 0..announced
  /\ \A i \in 1..Len(calls) :
       calls[i].id > printerCall.id /\ calls[i].id <= announced
  /\ \A i, j \in 1..Len(calls) : i < j => calls[i].id < calls[j].id
  /\ \A k \in replied \cup setupTold \cup served \cup raced :
       k \in Nat /\ k <= printerCall.id

\* A queue of the chosen name is one that another made after the choice, until
\* CUPS has made the printer's.
Unserved == printerCall.id \notin setupTold /\ printerCall.id \notin served
Got == /\ printerCall.id \notin setupTold
       /\ printerCall.id \in served \/ printerCall.id \in raced
Stages ==
  /\ pc # "idle" => printerCall.id \notin replied
  /\ pc \in {"ppd", "name", "add", "check"} => Unserved
  /\ pc = "add" /\ name \in DOMAIN setupQueues => printerCall.id \in raced
  /\ pc = "check" /\ name \in DOMAIN setupQueues =>
       setupQueues[name] = printerCall.device \/ printerCall.id \in raced
  /\ pc \in {"accept", "enable", "auto", "ppdfile", "paper"} => Got
  /\ pc \in {"missing", "install"} /\ printerCall.method = "NewPrinter" => Got
  /\ pc \in {"driver", "drivers"} => printerCall.method # "NewPrinter"

QueuesInv == InTurn /\ Stages /\ NP!QueueOrTold

LEMMA QueuesStart == NP!SetupInit => QueuesInv
<1> SUFFICES ASSUME NP!SetupInit PROVE QueuesInv
  OBVIOUS
<1>1. /\ calls = <<>> /\ announced = 0 /\ printerCall.id = 0 /\ pc = "idle"
      /\ printerCall.method = "none" /\ overwritten = FALSE
      /\ replied = {} /\ setupTold = {} /\ served = {} /\ raced = {}
  BY DEF NP!SetupInit, NP!NoCall, NP!None
<1>2. InTurn
  BY <1>1 DEF InTurn
<1> QED
  BY <1>1, <1>2 DEF QueuesInv, Stages, NP!QueueOrTold

\* What leaves the call, its queue and its numbers alone.
LEMMA TurnSame ==
  ASSUME InTurn, UNCHANGED <<calls, announced, printerCall>>,
         /\ replied' \subseteq replied \cup {printerCall.id}
         /\ setupTold' \subseteq setupTold \cup {printerCall.id}
         /\ served' \subseteq served \cup {printerCall.id}
         /\ raced' \subseteq raced \cup {printerCall.id}
  PROVE  InTurn'
BY DEF InTurn

LEMMA AnnounceStep ==
  ASSUME QueuesInv, NEW m \in Methods, NEW d \in NewDevices, NP!Announce(m, d)
  PROVE  QueuesInv'
<1> DEFINE new == [id |-> announced', method |-> m, device |-> d]
<1>1. /\ announced' = announced + 1 /\ calls' = Append(calls, new)
      /\ UNCHANGED <<pc, printerCall, name, setupQueues, replied, setupTold, served,
                     raced, overwritten>>
  BY DEF NP!Announce, NP!cupsVars, NP!history
<1>2. InTurn
  BY DEF QueuesInv
<1>3. new \in Announcements /\ new.id = announced + 1
  BY <1>1, <1>2 DEF InTurn, Announcements
<1> HIDE DEF new
<1>4. /\ calls' \in Seq(Announcements) /\ Len(calls') = Len(calls) + 1
      /\ \A i \in 1..Len(calls') :
           calls'[i] = IF i = Len(calls) + 1 THEN new ELSE calls[i]
  BY <1>1, <1>2, <1>3 DEF InTurn
<1>5. /\ announced \in Nat /\ printerCall.id \in 0..announced /\ Len(calls) \in Nat
      /\ \A i \in 1..Len(calls) : /\ calls[i].id \in Nat
                                  /\ calls[i].id > printerCall.id
                                  /\ calls[i].id <= announced
  <2>1. \A i \in 1..Len(calls) : calls[i] \in Announcements
    BY <1>2 DEF InTurn
  <2> QED
    BY <1>2, <2>1 DEF InTurn, Announcements
<1>6. \A i \in 1..Len(calls') : /\ calls'[i].id > printerCall.id
                                /\ calls'[i].id <= announced'
  <2> SUFFICES ASSUME NEW i \in 1..Len(calls')
               PROVE  calls'[i].id > printerCall.id /\ calls'[i].id <= announced'
    OBVIOUS
  <2>1. CASE i = Len(calls) + 1
    BY <1>1, <1>3, <1>4, <1>5, <2>1
  <2>2. CASE i \in 1..Len(calls)
    BY <1>1, <1>4, <1>5, <2>2
  <2> QED
    BY <1>4, <1>5, <2>1, <2>2
<1>7. \A i, j \in 1..Len(calls') : i < j => calls'[i].id < calls'[j].id
  <2> SUFFICES ASSUME NEW i \in 1..Len(calls'), NEW j \in 1..Len(calls'), i < j
               PROVE  calls'[i].id < calls'[j].id
    OBVIOUS
  <2>1. i \in 1..Len(calls) /\ calls'[i] = calls[i]
    BY <1>4, <1>5
  <2>2. CASE j = Len(calls) + 1
    <3>1. calls[i].id <= announced /\ calls[i].id \in Nat /\ calls'[j] = new
      BY <1>4, <1>5, <2>1, <2>2
    <3> QED
      BY <1>3, <1>5, <2>1, <3>1
  <2>3. CASE j \in 1..Len(calls)
    BY <1>2, <1>4, <2>1, <2>3 DEF InTurn
  <2> QED
    BY <1>4, <1>5, <2>2, <2>3
<1>8. announced' \in Nat /\ printerCall'.id \in 0..announced'
  BY <1>1, <1>5
<1>9. InTurn'
  BY <1>1, <1>2, <1>4, <1>6, <1>7, <1>8 DEF InTurn
<1> QED
  BY <1>1, <1>9 DEF QueuesInv, Stages, Unserved, Got, NP!QueueOrTold

LEMMA TakeStep ==
  ASSUME QueuesInv, NP!HandleMethodCall
  PROVE  QueuesInv'
<1>1. /\ pc = "idle" /\ calls # <<>> /\ printerCall' = Head(calls)
      /\ calls' = Tail(calls) /\ announced' = announced
      /\ UNCHANGED <<setupTold, served, raced, overwritten>>
      /\ \/ /\ printerCall'.method = "GetReady" /\ pc' = "idle"
            /\ replied' = replied \cup {printerCall'.id}
         \/ printerCall'.method = "NewPrinter" /\ pc' = "ppd" /\ replied' = replied
         \/ printerCall'.method = "NewQueue" /\ pc' = "driver" /\ replied' = replied
         \/ /\ printerCall'.method = "InstallDrivers" /\ pc' = "drivers"
            /\ replied' = replied
  BY DEF NP!HandleMethodCall, NP!Goto, NP!Same
<1>2. InTurn /\ ~overwritten
  BY DEF QueuesInv, NP!QueueOrTold
<1>3. /\ Len(calls) > 0 /\ printerCall' = calls[1] /\ printerCall' \in Announcements
      /\ calls' \in Seq(Announcements) /\ Len(calls') = Len(calls) - 1
      /\ \A i \in 1..Len(calls') : calls'[i] = calls[i + 1]
  BY <1>1, <1>2 DEF InTurn
<1>0. /\ Len(calls) \in Nat /\ Len(calls') \in Nat
      /\ \A i \in 1..Len(calls') : i + 1 \in 1..Len(calls)
      /\ \A i, j \in 1..Len(calls') : i < j => i + 1 < j + 1
      /\ 1 \in 1..Len(calls) /\ \A i \in 1..Len(calls') : 1 < i + 1
  BY <1>2, <1>3 DEF InTurn
<1>4. printerCall'.id > printerCall.id /\ printerCall'.id \in 0..announced
  <2>1. printerCall'.id \in Nat
    BY <1>3 DEF Announcements
  <2>2. /\ printerCall'.id > printerCall.id /\ printerCall'.id <= announced
        /\ announced \in Nat
    BY <1>0, <1>2, <1>3 DEF InTurn
  <2> QED
    BY <2>1, <2>2
<1>5. \A i \in 1..Len(calls') : /\ calls'[i].id > printerCall'.id
                                /\ calls'[i].id <= announced
  BY <1>0, <1>2, <1>3 DEF InTurn
<1>6. \A i, j \in 1..Len(calls') : i < j => calls'[i].id < calls'[j].id
  BY <1>0, <1>2, <1>3 DEF InTurn
<1>7. printerCall'.id \notin replied \cup setupTold \cup served \cup raced
  BY <1>2, <1>4 DEF InTurn
<1>8. InTurn'
  <2>1. \A k \in (replied \cup setupTold \cup served \cup raced)' :
          k \in Nat /\ k <= printerCall'.id
    BY <1>1, <1>2, <1>4 DEF InTurn
  <2>2. announced' \in Nat /\ printerCall'.id \in 0..announced'
    BY <1>1, <1>2, <1>4 DEF InTurn
  <2>3. \A i \in 1..Len(calls') : /\ calls'[i].id > printerCall'.id
                                  /\ calls'[i].id <= announced'
    BY <1>1, <1>5
  <2> QED
    BY <1>3, <1>6, <2>1, <2>2, <2>3 DEF InTurn
<1>9. Stages'
  BY <1>1, <1>7 DEF Stages, Unserved
<1>10. NP!QueueOrTold'
  BY <1>1, <1>2, <1>7 DEF NP!QueueOrTold
<1> QED
  BY <1>8, <1>9, <1>10 DEF QueuesInv

\* The first number that is free makes a name that no queue has.
LEMMA FreeNameIs ==
  ASSUME NEW m, {i \in 1..MaxNumber : <<m, i>> \notin NP!QueueNames} # {},
         MaxNumber \in Nat
  PROVE  NP!FreeName(m) \notin NP!QueueNames
<1> DEFINE T == {i \in 1..MaxNumber : <<m, i>> \notin NP!QueueNames}
<1>1. PICK n \in T : \A k \in T : n <= k
  <2>1. T \subseteq Nat /\ T # {}
    OBVIOUS
  <2> HIDE DEF T
  <2> QED
    BY <2>1, LeastNumber
<1>2. NP!Min(T) \in T
  <2> HIDE DEF T
  <2> QED
    BY <1>1 DEF NP!Min
<1> QED
  BY <1>2 DEF NP!FreeName

LEMMA QueuesStep ==
  ASSUME MaxNumber \in Nat, QueuesInv, NP!SetupNext \/ UNCHANGED setupVars
  PROVE  QueuesInv'
<1>0. InTurn /\ Stages /\ NP!QueueOrTold
  BY DEF QueuesInv
<1> USE DEF NP!Goto, NP!Same, NP!cupsVars, NP!history, NP!Steady, NP!QueueNames,
            Unserved, Got
<1> DEFINE Rest == Stages' /\ NP!QueueOrTold'
           Still == UNCHANGED <<calls, announced, printerCall>>
<1>1. ASSUME Still, Rest,
             /\ replied' \subseteq replied \cup {printerCall.id}
             /\ setupTold' \subseteq setupTold \cup {printerCall.id}
             /\ served' \subseteq served \cup {printerCall.id}
             /\ raced' \subseteq raced \cup {printerCall.id}
      PROVE  QueuesInv'
  BY <1>0, <1>1, TurnSame DEF QueuesInv
<1>2. CASE \E d \in NewDevices, m \in Methods : NP!Announce(m, d)
  BY <1>2, AnnounceStep
<1>3. ASSUME NEW n, NEW d, NP!AddQueue(n, d) PROVE QueuesInv'
  <2>1. /\ n \notin DOMAIN setupQueues
        /\ setupQueues' = [m \in DOMAIN setupQueues \cup {n} |->
                             IF m = n THEN d ELSE setupQueues[m]]
        /\ raced' = IF n = name /\ pc \in {"add", "check"}
                    THEN raced \cup {printerCall.id} ELSE raced
        /\ Still
        /\ UNCHANGED <<pc, name, replied, setupTold, served, overwritten>>
    BY <1>3 DEF NP!AddQueue, NP!With
  <2>2. Stages'
    BY <1>0, <2>1 DEF Stages
  <2>3. NP!QueueOrTold'
    BY <1>0, <2>1 DEF NP!QueueOrTold
  <2> QED
    BY <1>1, <2>1, <2>2, <2>3
<1>4. ASSUME NEW n, NP!DeleteQueue(n) PROVE QueuesInv'
  <2>1. /\ setupQueues' = [m \in DOMAIN setupQueues \ {n} |-> setupQueues[m]]
        /\ Still
        /\ UNCHANGED <<pc, name, replied, setupTold, served, raced, overwritten>>
    BY <1>4 DEF NP!DeleteQueue, NP!Restrict
  <2>2. Stages'
    BY <1>0, <2>1 DEF Stages
  <2>3. NP!QueueOrTold'
    BY <1>0, <2>1 DEF NP!QueueOrTold
  <2> QED
    BY <1>1, <2>1, <2>2, <2>3
<1>5. CASE NP!HandleMethodCall
  BY <1>5, TakeStep
<1>6. CASE NP!GetBestPpd
  BY <1>0, <1>1, <1>6 DEF NP!GetBestPpd, Stages, NP!QueueOrTold
<1>7. CASE NP!CreateName
  <2>1. Still /\ pc = "name"
        /\ UNCHANGED <<setupQueues, served, raced, overwritten>>
    BY <1>7 DEF NP!CreateName
  <2>2. CASE NP!TellMissing
    BY <1>0, <1>1, <2>1, <2>2 DEF NP!TellMissing, NP!Reply, Stages, NP!QueueOrTold
  <2>3. CASE ~NP!TellMissing
    <3>1. /\ name' \notin DOMAIN setupQueues /\ pc' = "add"
          /\ UNCHANGED <<setupTold, replied>>
      BY <1>7, <2>3, FreeNameIs DEF NP!CreateName
    <3> QED
      BY <1>0, <1>1, <2>1, <3>1 DEF Stages, NP!QueueOrTold
  <2> QED
    BY <2>2, <2>3
<1>8. CASE NP!AddPrinter
  <2>1. /\ Still /\ pc = "add" /\ pc' = "check"
        /\ UNCHANGED <<name, replied, setupTold, served, raced>>
        /\ \/ UNCHANGED <<setupQueues, overwritten>>
           \/ /\ name \in DOMAIN setupQueues' /\ setupQueues'[name] = printerCall.device
              /\ overwritten' = (overwritten \/ (name \in DOMAIN setupQueues
                                                 /\ printerCall.id \notin raced))
    BY <1>8 DEF NP!AddPrinter, NP!With
  <2>2. Stages'
    BY <1>0, <2>1 DEF Stages
  <2>3. NP!QueueOrTold'
    <3>1. ~overwritten /\ (name \in DOMAIN setupQueues => printerCall.id \in raced)
          /\ printerCall.id \notin replied
      BY <1>0, <2>1 DEF NP!QueueOrTold, Stages
    <3>2. ~overwritten'
      BY <2>1, <3>1
    <3> QED
      BY <2>1, <3>1, <3>2 DEF NP!QueueOrTold
  <2> QED
    BY <1>1, <2>1, <2>2, <2>3
<1>9. CASE NP!PrinterAdded
  <2>1. Still /\ pc = "check" /\ UNCHANGED <<name, setupQueues, raced, overwritten>>
    BY <1>9 DEF NP!PrinterAdded
  <2>2. CASE name \in DOMAIN setupQueues
    <3>1. /\ pc' = "accept" /\ UNCHANGED <<setupTold, replied>>
          /\ served' = IF setupQueues[name] = printerCall.device
                       THEN served \cup {printerCall.id} ELSE served
      BY <1>9, <2>2 DEF NP!PrinterAdded
    <3>2. Rest
      BY <1>0, <2>1, <2>2, <3>1 DEF Stages, NP!QueueOrTold
    <3> QED
      BY <1>1, <2>1, <3>1, <3>2
  <2>3. CASE name \notin DOMAIN setupQueues
    <3>1. NP!TellMissing /\ served' = served
      BY <1>9, <2>3 DEF NP!PrinterAdded
    <3> QED
      BY <1>0, <1>1, <2>1, <3>1 DEF NP!TellMissing, NP!Reply, Stages, NP!QueueOrTold
  <2> QED
    BY <2>2, <2>3
<1>10. ASSUME NEW from1 \in {"accept", "enable", "auto", "paper"},
              NEW to \in {"enable", "auto", "ppdfile", "missing"},
              NEW option, NP!SetOption(from1, option, to)
       PROVE  QueuesInv'
  BY <1>0, <1>1, <1>10 DEF NP!SetOption, Stages, NP!QueueOrTold
<1>11. CASE NP!GetPpd
  <2>1. Still /\ pc \in {"driver", "ppdfile"}
        /\ UNCHANGED <<name, setupQueues, setupTold, served, raced, overwritten>>
        /\ \/ /\ pc' = IF pc = "driver" THEN "missing" ELSE "paper"
              /\ replied' = replied
           \/ pc' = "idle" /\ replied' = replied \cup {printerCall.id}
    BY <1>11 DEF NP!GetPpd, NP!Reply
  <2>2. Rest
    BY <1>0, <2>1 DEF Stages, NP!QueueOrTold
  <2> QED
    BY <1>1, <2>1, <2>2
<1>12. CASE NP!FindPackages
  BY <1>0, <1>1, <1>12 DEF NP!FindPackages, Stages, NP!QueueOrTold
<1>13. CASE NP!InstallPackages
  BY <1>0, <1>1, <1>13 DEF NP!InstallPackages, NP!Reply, Stages, NP!QueueOrTold
<1>14. CASE NP!InstallDrivers
  BY <1>0, <1>1, <1>14 DEF NP!InstallDrivers, NP!Reply, Stages, NP!QueueOrTold
<1>15. CASE UNCHANGED setupVars
  BY <1>0, <1>1, <1>15 DEF setupVars, Stages, NP!QueueOrTold
<1>16. CASE \/ NP!SetAcceptingJobs \/ NP!SetEnabled \/ NP!Autoconfigure
            \/ NP!SetPaperSize
  BY <1>10, <1>16 DEF NP!SetAcceptingJobs, NP!SetEnabled, NP!Autoconfigure,
                      NP!SetPaperSize
<1> QED
  BY <1>2, <1>3, <1>4, <1>5, <1>6, <1>7, <1>8, <1>9, <1>11, <1>12, <1>13, <1>14,
     <1>15, <1>16 DEF NP!SetupNext, Methods

-----------------------------------------------------------------------------
(* Who announces new printers                                              *)

\* The library's RemoveAt closes the gap.
LEMMA RemoveAtIs ==
  ASSUME NEW S, NEW s \in Seq(S), NEW i \in 1..Len(s)
  PROVE  /\ NP!RemoveAt(s, i) \in Seq(S) /\ Len(NP!RemoveAt(s, i)) = Len(s) - 1
         /\ \A j \in 1..(Len(s) - 1) :
              NP!RemoveAt(s, i)[j] = IF j < i THEN s[j] ELSE s[j + 1]
<1> DEFINE l == Len(s)
           a == SubSeq(s, 1, i - 1)
           b == SubSeq(s, i + 1, l)
<1>1. l \in Nat /\ i \in 1..l /\ \A j \in 1..l : s[j] \in S
  BY LenProperties, ElementOfSeq
<1>2. NP!RemoveAt(s, i) = a \o b
  BY DEF NP!RemoveAt
<1> HIDE DEF l
<1>3. a \in Seq(S) /\ Len(a) = i - 1 /\ \A j \in 1..(i - 1) : a[j] = s[j]
  <2>1. 1 \in Int /\ i - 1 \in Int /\ \A j \in 1..(i - 1) : s[j] \in S
    BY <1>1
  <2>2. /\ a \in Seq(S) /\ Len(a) = IF 1 <= i - 1 THEN (i - 1) - 1 + 1 ELSE 0
        /\ \A j \in 1..((i - 1) - 1 + 1) : a[j] = s[1 + j - 1]
    BY <2>1, SubSeqProperties, SMTT(20)
  <2> QED
    BY <1>1, <2>2
<1>4. b \in Seq(S) /\ Len(b) = l - i /\ \A j \in 1..(l - i) : b[j] = s[i + j]
  <2>1. i + 1 \in Int /\ l \in Int /\ \A j \in (i + 1)..l : s[j] \in S
    BY <1>1
  <2>2. /\ b \in Seq(S) /\ Len(b) = IF i + 1 <= l THEN l - (i + 1) + 1 ELSE 0
        /\ \A j \in 1..(l - (i + 1) + 1) : b[j] = s[(i + 1) + j - 1]
    BY <2>1, SubSeqProperties, SMTT(20)
  <2> HIDE DEF b
  <2>3. Len(b) = l - i
    BY <1>1, <2>2
  <2>4. \A j \in 1..(l - i) : j \in 1..(l - (i + 1) + 1) /\ (i + 1) + j - 1 = i + j
    BY <1>1
  <2> QED
    BY <2>2, <2>3, <2>4
<1> HIDE DEF a, b
<1>5. /\ a \o b \in Seq(S) /\ Len(a \o b) = Len(a) + Len(b)
      /\ \A j \in 1..(Len(a) + Len(b)) :
           (a \o b)[j] = IF j <= Len(a) THEN a[j] ELSE b[j - Len(a)]
  BY <1>3, <1>4, ConcatProperties
<1>6. Len(a \o b) = l - 1 /\ Len(a) + Len(b) = l - 1
  BY <1>1, <1>3, <1>4, <1>5
<1>7. ASSUME NEW j \in 1..(l - 1)
      PROVE  (a \o b)[j] = IF j < i THEN s[j] ELSE s[j + 1]
  <2>1. CASE j < i
    <3>1. j \in 1..(i - 1) /\ j <= Len(a)
      BY <1>1, <1>3, <2>1
    <3> QED
      BY <1>3, <1>5, <1>6, <2>1, <3>1
  <2>2. CASE ~(j < i)
    <3>1. /\ ~(j <= Len(a)) /\ j - Len(a) \in 1..(l - i)
          /\ i + (j - Len(a)) = j + 1
      BY <1>1, <1>3, <2>2
    <3> QED
      BY <1>4, <1>5, <1>6, <2>2, <3>1
  <2> QED
    BY <2>1, <2>2
<1> QED
  BY <1>2, <1>5, <1>6, <1>7 DEF l

Distinct(q) == \A i, j \in 1..Len(q) : q[i] = q[j] => i = j

\* Who leaves is gone, and the others stay in their order.
LEMMA LeaveIs ==
  ASSUME NEW h \in Handlers, NEW o \in NP!Objects,
         busQueue[o] \in Seq(Handlers), Distinct(busQueue[o])
  PROVE  /\ NP!Leave(h, o) \in Seq(Handlers) /\ Distinct(NP!Leave(h, o))
         /\ \A j \in 1..Len(NP!Leave(h, o)) :
              /\ NP!Leave(h, o)[j] # h
              /\ \E i \in 1..Len(busQueue[o]) :
                   i \in {j, j + 1} /\ NP!Leave(h, o)[j] = busQueue[o][i]
<1> DEFINE q == busQueue[o]
           r == NP!Leave(h, o)
<1>1. q \in Seq(Handlers) /\ Len(q) \in Nat /\ Distinct(q)
  BY LenProperties
<1>2. r = NP!RemoveFirst(q, h)
  BY DEF NP!Leave
<1> HIDE DEF q, r
<1>3. CASE ~\E i \in 1..Len(q) : q[i] = h
  <2>1. r = q
    BY <1>2, <1>3 DEF NP!RemoveFirst
  <2> QED
    BY <1>1, <1>3, <2>1 DEF q, r
<1>4. CASE \E i \in 1..Len(q) : q[i] = h
  <2>1. PICK k \in 1..Len(q) : q[k] = h
    BY <1>4
  <2>2. {j \in 1..Len(q) : q[j] = h} = {k}
    BY <1>1, <2>1 DEF Distinct
  <2>3. NP!SelectInSeq(q, LAMBDA v : v = h) = NP!Min({k})
    BY <2>2 DEF NP!SelectInSeq
  <2>4. NP!Min({k}) = k
    BY <1>1 DEF NP!Min
  <2>5. r = NP!RemoveAt(q, k)
    BY <1>2, <1>4, <2>3, <2>4 DEF NP!RemoveFirst
  <2>6. /\ r \in Seq(Handlers) /\ Len(r) = Len(q) - 1
        /\ \A j \in 1..(Len(q) - 1) : r[j] = IF j < k THEN q[j] ELSE q[j + 1]
    <3>1. /\ NP!RemoveAt(q, k) \in Seq(Handlers) /\ Len(NP!RemoveAt(q, k)) = Len(q) - 1
          /\ \A j \in 1..(Len(q) - 1) :
               NP!RemoveAt(q, k)[j] = IF j < k THEN q[j] ELSE q[j + 1]
      BY <1>1, RemoveAtIs, Zenon
    <3> QED
      BY <2>5, <3>1
  <2> DEFINE at(j) == IF j < k THEN j ELSE j + 1
  <2>7. ASSUME NEW j \in 1..Len(r)
        PROVE  at(j) \in 1..Len(q) /\ r[j] = q[at(j)] /\ at(j) \in {j, j + 1} /\ at(j) # k
    BY <1>1, <2>6
  <2>8. \A i, j \in 1..Len(r) : at(i) = at(j) => i = j
    BY <1>1, <2>6
  <2> HIDE DEF at
  <2>9. Distinct(r)
    <3> SUFFICES ASSUME NEW i \in 1..Len(r), NEW j \in 1..Len(r), r[i] = r[j]
                 PROVE  i = j
      BY DEF Distinct
    <3>1. at(i) = at(j)
      <4>1. /\ at(i) \in 1..Len(q) /\ r[i] = q[at(i)]
            /\ at(j) \in 1..Len(q) /\ r[j] = q[at(j)]
        BY <2>7
      <4> QED
        BY <1>1, <4>1 DEF Distinct
    <3> QED
      BY <2>8, <3>1
  <2>10. \A j \in 1..Len(r) : r[j] # h
    BY <1>1, <2>1, <2>7 DEF Distinct
  <2> QED
    BY <2>6, <2>7, <2>9, <2>10 DEF q, r
<1> QED
  BY <1>3, <1>4

\* Who waits for a name, or has got one back, was robbed of one; who never was
\* has its object registered; and all are there.
Orderly(o) ==
  /\ Distinct(busQueue[o])
  /\ \A i \in 1..Len(busQueue[o]) :
       /\ busQueue[o][i] \in printersRunning
       /\ busQueue[o][i] \in robbed \/ (i = 1 /\ o \in registered[busQueue[o][i]])

NamesInv ==
  /\ busQueue \in [NP!Objects -> Seq(Handlers)]
  /\ registered \in [Handlers -> SUBSET NP!Objects]
  /\ newprintersLost \in [Handlers -> SUBSET NP!Objects]
  /\ \A o \in NP!Objects : Orderly(o)
  /\ \A h \in Handlers : newprintersLost[h] # {} => h \in robbed

LEMMA NamesHold == NamesInv => NP!OwnerAnswers
<1> SUFFICES ASSUME NamesInv, NEW o \in NP!Objects, busQueue[o] # <<>>
             PROVE  /\ Head(busQueue[o]) \in printersRunning
                    /\ \/ o \in registered[Head(busQueue[o])]
                       \/ Head(busQueue[o]) \in robbed
  BY DEF NP!OwnerAnswers
<1>1. busQueue[o] \in Seq(Handlers) /\ Orderly(o)
  BY DEF NamesInv
<1>2. Head(busQueue[o]) = busQueue[o][1] /\ 1 \in 1..Len(busQueue[o])
  BY <1>1
<1> QED
  BY <1>1, <1>2 DEF Orderly

LEMMA NamesStart == NP!NameInit => NamesInv
<1> SUFFICES ASSUME NP!NameInit PROVE NamesInv
  OBVIOUS
<1>1. /\ busQueue = [o \in NP!Objects |-> <<>>] /\ registered = [h \in Handlers |-> {}]
      /\ newprintersLost = [h \in Handlers |-> {}]
  BY DEF NP!NameInit
<1>2. \A o \in NP!Objects : busQueue[o] = <<>> /\ 1..Len(busQueue[o]) = {}
  BY <1>1
<1>3. \A o \in NP!Objects : Orderly(o)
  BY <1>2 DEF Orderly, Distinct
<1> QED
  BY <1>1, <1>3 DEF NamesInv

\* What neither takes names nor objects back.
LEMMA NamesSame ==
  ASSUME NamesInv, printersRunning \subseteq printersRunning',
         UNCHANGED <<registered, busQueue, newprintersLost, robbed>>
  PROVE  NamesInv'
BY DEF NamesInv, Orderly, Distinct

\* Who withdraws is in no queue any more.
LEMMA WithdrawStep ==
  ASSUME NamesInv, NEW h \in Handlers, NP!Withdraw(h),
         printersRunning \ {h} \subseteq printersRunning'
  PROVE  NamesInv'
<1>1. /\ registered' = [registered EXCEPT ![h] = {}]
      /\ busQueue' = [o \in NP!Objects |-> NP!Leave(h, o)]
      /\ newprintersLost' = [newprintersLost EXCEPT ![h] = {}]
      /\ robbed' = robbed \ {h}
  BY DEF NP!Withdraw
<1>2. /\ registered' \in [Handlers -> SUBSET NP!Objects]
      /\ newprintersLost' \in [Handlers -> SUBSET NP!Objects]
      /\ \A g \in Handlers : newprintersLost'[g] # {} => g \in robbed'
  BY <1>1 DEF NamesInv
<1>3. ASSUME NEW o \in NP!Objects
      PROVE  busQueue'[o] \in Seq(Handlers) /\ Orderly(o)'
  <2>1. busQueue[o] \in Seq(Handlers) /\ Orderly(o) /\ Distinct(busQueue[o])
    BY DEF NamesInv, Orderly
  <2>2. /\ busQueue'[o] \in Seq(Handlers) /\ Distinct(busQueue'[o])
        /\ \A j \in 1..Len(busQueue'[o]) :
             /\ busQueue'[o][j] # h
             /\ \E i \in 1..Len(busQueue[o]) :
                  i \in {j, j + 1} /\ busQueue'[o][j] = busQueue[o][i]
    <3>1. busQueue'[o] = NP!Leave(h, o)
      BY <1>1
    <3> QED
      BY <2>1, <3>1, LeaveIs
  <2>3. ASSUME NEW j \in 1..Len(busQueue'[o])
        PROVE  /\ busQueue'[o][j] \in printersRunning'
               /\ \/ busQueue'[o][j] \in robbed'
                  \/ j = 1 /\ o \in registered'[busQueue'[o][j]]
    <3>1. Len(busQueue'[o]) \in Nat /\ j \in Nat /\ j >= 1 /\ Len(busQueue[o]) \in Nat
      BY <2>1, <2>2, LenProperties
    <3>2. PICK i \in 1..Len(busQueue[o]) :
            i \in {j, j + 1} /\ busQueue'[o][j] = busQueue[o][i]
      BY <2>2
    <3>3. /\ busQueue[o][i] \in printersRunning /\ busQueue[o][i] \in Handlers
          /\ busQueue[o][i] \in robbed \/ (i = 1 /\ o \in registered[busQueue[o][i]])
      BY <2>1, ElementOfSeq DEF Orderly
    <3>4. busQueue[o][i] # h
      BY <2>2, <3>2
    <3>5. registered'[busQueue[o][i]] = registered[busQueue[o][i]]
      BY <1>1, <3>3, <3>4 DEF NamesInv
    <3>6. i = 1 => j = 1
      BY <3>1, <3>2
    <3> QED
      BY <1>1, <3>2, <3>3, <3>4, <3>5, <3>6
  <2> QED
    BY <2>2, <2>3 DEF Orderly
<1>4. busQueue' \in [NP!Objects -> Seq(Handlers)]
  BY <1>1, <1>3
<1> QED
  BY <1>2, <1>3, <1>4 DEF NamesInv

\* Who asks comes first, and robs whoever was.
LEMMA BusStep ==
  ASSUME NamesInv, NEW h \in Handlers, NEW o \in NP!Objects, NP!BusAcquired(h, o)
  PROVE  NamesInv'
<1>1. /\ h \in printersRunning /\ printersRunning' = printersRunning
      /\ registered' = [registered EXCEPT ![h] = @ \cup {o}]
      /\ busQueue' = [busQueue EXCEPT ![o] = <<h>> \o NP!Leave(h, o)]
      /\ newprintersLost' = [g \in Handlers |-> IF g \in NP!Robbed(h, o)
           THEN newprintersLost[g] \cup {o} ELSE newprintersLost[g]]
      /\ robbed' = robbed \cup NP!Robbed(h, o)
  BY DEF NP!BusAcquired
<1>2. /\ registered' \in [Handlers -> SUBSET NP!Objects]
      /\ newprintersLost' \in [Handlers -> SUBSET NP!Objects]
      /\ \A g \in Handlers : newprintersLost'[g] # {} => g \in robbed'
      /\ \A g \in Handlers : registered[g] \subseteq registered'[g]
      /\ o \in registered'[h]
  BY <1>1 DEF NamesInv
<1>3. busQueue[o] \in Seq(Handlers) /\ Orderly(o) /\ Distinct(busQueue[o])
  BY DEF NamesInv, Orderly
<1> DEFINE q == busQueue[o]
           r == NP!Leave(h, o)
<1>4. /\ r \in Seq(Handlers) /\ Distinct(r)
      /\ \A j \in 1..Len(r) : r[j] # h /\ \E i \in 1..Len(q) : i \in {j, j + 1} /\ r[j] = q[i]
  BY <1>3, LeaveIs
<1> HIDE DEF r
<1>5. /\ busQueue'[o] \in Seq(Handlers) /\ Len(busQueue'[o]) = 1 + Len(r)
      /\ Len(r) \in Nat /\ busQueue'[o][1] = h
      /\ \A i \in 2..(1 + Len(r)) : busQueue'[o][i] = r[i - 1]
  <2>1. busQueue'[o] = <<h>> \o r
    BY <1>1 DEF NamesInv, r
  <2>2. /\ <<h>> \in Seq(Handlers) /\ Len(<<h>>) = 1 /\ <<h>>[1] = h
        /\ Len(r) \in Nat
    BY <1>4, LenProperties
  <2>3. /\ <<h>> \o r \in Seq(Handlers) /\ Len(<<h>> \o r) = Len(<<h>>) + Len(r)
        /\ \A i \in 1..(Len(<<h>>) + Len(r)) :
             (<<h>> \o r)[i] = IF i <= Len(<<h>>) THEN <<h>>[i] ELSE r[i - Len(<<h>>)]
    BY <1>4, <2>2, ConcatProperties
  <2> QED
    BY <2>1, <2>2, <2>3
<1>6. Distinct(busQueue'[o])
  <2> SUFFICES ASSUME NEW i \in 1..Len(busQueue'[o]), NEW j \in 1..Len(busQueue'[o]),
                      busQueue'[o][i] = busQueue'[o][j]
               PROVE  i = j
    BY DEF Distinct
  <2>1. \A k \in 1..Len(busQueue'[o]) :
          k # 1 => k \in 2..(1 + Len(r)) /\ k - 1 \in 1..Len(r)
    BY <1>5
  <2>2. CASE i = 1 \/ j = 1
    <3>1. \A k \in 1..Len(busQueue'[o]) : k # 1 => busQueue'[o][k] = r[k - 1]
      BY <1>5, <2>1
    <3>2. \A k \in 1..Len(busQueue'[o]) : k # 1 => busQueue'[o][k] # h
      BY <1>4, <2>1, <3>1
    <3>3. busQueue'[o][1] = h
      BY <1>5
    <3> QED
      BY <2>2, <3>2, <3>3
  <2>3. CASE i # 1 /\ j # 1
    <3>1. i - 1 = j - 1
      BY <1>4, <1>5, <2>1, <2>3 DEF Distinct
    <3> QED
      BY <3>1
  <2> QED
    BY <2>2, <2>3
<1>7. Orderly(o)'
  <2>1. ASSUME NEW i \in 1..Len(busQueue'[o]), i # 1
        PROVE  busQueue'[o][i] \in printersRunning /\ busQueue'[o][i] \in robbed'
    <3>1. i \in 2..(1 + Len(r)) /\ i - 1 \in 1..Len(r) /\ busQueue'[o][i] = r[i - 1]
      BY <1>5, <2>1
    <3>2. PICK k \in 1..Len(q) : r[i - 1] = q[k]
      BY <1>4, <3>1
    <3>3. q[k] \in printersRunning /\ (q[k] \in robbed \/ k = 1)
      BY <1>3 DEF Orderly
    <3>4. q[k] # h
      BY <1>4, <3>1, <3>2
    <3>5. CASE k = 1
      <4>1. q # <<>> /\ Head(q) = q[1]
        BY <1>3, <3>5
      <4> QED
        BY <1>1, <3>1, <3>2, <3>3, <3>4, <3>5, <4>1 DEF NP!Robbed
    <3> QED
      BY <1>1, <3>1, <3>2, <3>3, <3>5
  <2> QED
    BY <1>1, <1>2, <1>5, <1>6, <2>1 DEF Orderly
<1>8. ASSUME NEW p \in NP!Objects \ {o}
      PROVE  busQueue'[p] \in Seq(Handlers) /\ Orderly(p)'
  <2>1. busQueue'[p] = busQueue[p] /\ busQueue[p] \in Seq(Handlers) /\ Orderly(p)
    BY <1>1 DEF NamesInv
  <2>2. \A i \in 1..Len(busQueue[p]) : busQueue[p][i] \in Handlers
    BY <2>1, ElementOfSeq
  <2> QED
    BY <1>1, <1>2, <2>1, <2>2 DEF Orderly
<1>9. busQueue' \in [NP!Objects -> Seq(Handlers)]
  BY <1>1, <1>5, <1>8 DEF NamesInv
<1> QED
  BY <1>2, <1>7, <1>8, <1>9 DEF NamesInv

\* Only who was robbed hears of a loss.
LEMMA LossStep ==
  ASSUME NamesInv, NEW h \in Handlers, NEW o \in NP!Objects, NP!OnNameLost(h, o)
  PROVE  NamesInv'
<1>1. /\ o \in newprintersLost[h] /\ h \in robbed
      /\ newprintersLost' = [newprintersLost EXCEPT ![h] = @ \ {o}]
      /\ registered' = [registered EXCEPT ![h] = {}]
      /\ UNCHANGED <<printersRunning, busQueue, robbed>>
  BY DEF NP!OnNameLost, NamesInv
<1>2. /\ registered' \in [Handlers -> SUBSET NP!Objects]
      /\ newprintersLost' \in [Handlers -> SUBSET NP!Objects]
      /\ \A g \in Handlers : newprintersLost'[g] # {} => g \in robbed'
      /\ \A g \in Handlers \ {h} : registered'[g] = registered[g]
  BY <1>1 DEF NamesInv
<1>3. ASSUME NEW p \in NP!Objects PROVE Orderly(p)'
  <2>1. busQueue[p] \in Seq(Handlers) /\ Orderly(p)
    BY DEF NamesInv
  <2>2. \A i \in 1..Len(busQueue[p]) : busQueue[p][i] \in Handlers
    BY <2>1, ElementOfSeq
  <2> QED
    BY <1>1, <1>2, <2>1, <2>2 DEF Orderly, Distinct
<1> QED
  BY <1>1, <1>2, <1>3 DEF NamesInv

LEMMA NamesStep ==
  ASSUME NamesInv, NP!NameNext \/ UNCHANGED newprintersVars
  PROVE  NamesInv'
<1>1. ASSUME NEW h \in Handlers,
             NP!Main(h) \/ NP!EndSession(h) \/ \E s \in NP!Statuses : NP!Presence(h, s)
      PROVE  NamesInv'
  BY <1>1, NamesSame DEF NP!Main, NP!EndSession, NP!Presence
<1>2. ASSUME NEW h \in Handlers, NP!SessionSignal(h) PROVE NamesInv'
  <2>1. CASE NP!OwnAfresh(h, Head(newprintersWanted[h]))
    BY <1>2, <2>1, WithdrawStep DEF NP!OwnAfresh, NP!SessionSignal
  <2>2. CASE UNCHANGED <<registered, busQueue, newprintersLost, robbed>>
    BY <1>2, <2>2, NamesSame DEF NP!SessionSignal
  <2> QED
    BY <1>2, <2>1, <2>2 DEF NP!SessionSignal
<1>3. ASSUME NEW h \in Handlers, NP!ClientSignal(h) PROVE NamesInv'
  <2>1. CASE Head(ending[h]) = "EndSession"
    BY <1>3, <2>1, WithdrawStep DEF NP!ClientSignal
  <2>2. CASE Head(ending[h]) # "EndSession"
    BY <1>3, <2>2, NamesSame DEF NP!ClientSignal
  <2> QED
    BY <2>1, <2>2
<1>4. ASSUME NEW h \in Handlers, NP!Hangup(h) PROVE NamesInv'
  BY <1>4, WithdrawStep DEF NP!Hangup
<1>5. CASE UNCHANGED newprintersVars
  BY <1>5, NamesSame DEF newprintersVars
<1> QED
  BY <1>1, <1>2, <1>3, <1>4, <1>5, BusStep, LossStep DEF NP!NameNext

-----------------------------------------------------------------------------
(* The purge of the trash and of temporary files                           *)

\* Files are in a tree of some height, below Root.
Tree ==
  \E height \in Nat : \E depth \in [Entries \cup {Root} -> 0..height] :
    /\ depth[Root] = 0
    /\ \A e \in Entries : /\ Parent[e] \in Entries \cup {Root}
                          /\ depth[e] = depth[Parent[e]] + 1

LEMMA FilesInTree == TreeConstants => Tree
BY FS_CardinalityType DEF TreeConstants, Tree

LEMMA DepthIs ==
  ASSUME Tree
  PROVE  /\ HK!Depth[Root] = 0 /\ Root \notin Entries
         /\ \A e \in Entries : /\ Parent[e] \in Entries \cup {Root}
                               /\ HK!Depth[e] \in Nat \ {0}
                               /\ HK!Depth[e] = HK!Depth[Parent[e]] + 1
         /\ \E height \in Nat : \A e \in Entries : HK!Depth[e] <= height
<1>1. PICK height \in Nat : \E depth \in [Entries \cup {Root} -> 0..height] :
        /\ depth[Root] = 0
        /\ \A e \in Entries : /\ Parent[e] \in Entries \cup {Root}
                              /\ depth[e] = depth[Parent[e]] + 1
  BY DEF Tree
<1>2. PICK depth \in [Entries \cup {Root} -> 0..height] :
        /\ depth[Root] = 0
        /\ \A e \in Entries : /\ Parent[e] \in Entries \cup {Root}
                              /\ depth[e] = depth[Parent[e]] + 1
  BY <1>1
<1> DEFINE All == Entries \cup {Root}
           Eq(D) == D = [e \in All |-> IF e = Root THEN 0 ELSE D[Parent[e]] + 1]
<1>3. /\ Root \notin Entries /\ Eq(depth)
      /\ \A e \in All : depth[e] \in Nat /\ depth[e] <= height
  BY <1>2
<1>4. Eq(HK!Depth)
  <2>1. HK!Depth = CHOOSE D : Eq(D)
    BY DEF HK!Depth
  <2> HIDE DEF Eq
  <2> QED
    BY <1>3, <2>1
<1> DEFINE T == {n \in Nat : \E e \in All : depth[e] = n /\ HK!Depth[e] # n}
<1>5. T = {}
  <2> SUFFICES ASSUME T # {} PROVE FALSE
    OBVIOUS
  <2>1. PICK n \in T : \A m \in T : n <= m
    <3>1. T \subseteq Nat
      OBVIOUS
    <3> HIDE DEF T
    <3> QED
      BY <3>1, LeastNumber
  <2>2. PICK e \in All : depth[e] = n /\ HK!Depth[e] # n
    OBVIOUS
  <2>3. e \in Entries /\ HK!Depth[e] = HK!Depth[Parent[e]] + 1
    BY <1>2, <1>4, <2>2
  <2>4. Parent[e] \in All /\ depth[Parent[e]] \in Nat /\ n = depth[Parent[e]] + 1
    BY <1>2, <1>3, <2>2, <2>3
  <2>5. HK!Depth[Parent[e]] # depth[Parent[e]]
    BY <2>2, <2>3, <2>4
  <2>6. depth[Parent[e]] \in T
    BY <2>4, <2>5
  <2> HIDE DEF T
  <2> QED
    BY <2>1, <2>4, <2>6
<1>6. \A e \in All : HK!Depth[e] = depth[e]
  BY <1>3, <1>5
<1>7. ASSUME NEW e \in Entries
      PROVE  /\ Parent[e] \in All /\ HK!Depth[e] \in Nat \ {0} /\ HK!Depth[e] <= height
             /\ HK!Depth[e] = HK!Depth[Parent[e]] + 1
  <2>1. /\ Parent[e] \in All /\ depth[Parent[e]] \in Nat
        /\ depth[e] = depth[Parent[e]] + 1 /\ depth[e] <= height
    BY <1>2, <1>3
  <2> QED
    BY <1>6, <2>1
<1>8. HK!Depth[Root] = 0 /\ Root \notin Entries
  BY <1>2, <1>3, <1>6
<1> QED
  BY <1>7, <1>8

\* What a tree's entry is below: it is found from the root down.
LEMMA TopIs ==
  ASSUME Tree
  PROVE  \A e \in Entries :
           HK!Top[e] = IF Parent[e] = Root THEN e ELSE HK!Top[Parent[e]]
<1>1. PICK height \in Nat : \A e \in Entries : HK!Depth[e] <= height
  BY DepthIs
<1> DEFINE X == [Entries -> Entries]
           start == [e \in Entries |-> e]
           down(f) == [e \in Entries |-> IF Parent[e] = Root THEN e ELSE f[Parent[e]]]
           next == [p \in X \X (1..height) |-> down(p[1])]
           Eq(D) == D = [e \in Entries |->
                           IF Parent[e] = Root THEN e ELSE D[Parent[e]]]
<1>2. start \in X /\ next \in [X \X (1..height) -> X]
  <2>1. ASSUME NEW f \in X PROVE down(f) \in X
    BY DepthIs
  <2>2. \A p \in X \X (1..height) : p[1] \in X
    OBVIOUS
  <2> HIDE DEF down, X
  <2>3. next \in [X \X (1..height) -> X]
    BY <2>1, <2>2
  <2> QED
    BY <2>3 DEF X
<1>3. PICK f : Iteration(f, height, X, start, next)
  <2> HIDE DEF X, start, next
  <2> QED
    BY <1>2, Iterated
<1>4. /\ \A k \in 0..height : f[k] \in X
      /\ \A k \in 1..height : f[k] = down(f[k - 1])
      /\ f[0] = start
  <2>1. \A k \in 1..height : k - 1 \in 0..height
    BY <1>1
  <2>2. \A k \in 0..height : f[k] \in X
    BY <1>3 DEF Iteration
  <2>3. ASSUME NEW k \in 1..height PROVE f[k] = down(f[k - 1])
    <3>1. f[k - 1] \in X
      BY <2>1, <2>2
    <3> HIDE DEF X, down
    <3> QED
      BY <1>3, <3>1 DEF Iteration
  <2> QED
    BY <1>3, <2>2, <2>3 DEF Iteration
<1> DEFINE top == [e \in Entries |-> f[HK!Depth[e]][e]]
<1>5. Eq(top)
  <2> SUFFICES ASSUME NEW e \in Entries
               PROVE  top[e] = IF Parent[e] = Root THEN e ELSE top[Parent[e]]
    OBVIOUS
  <2>1. HK!Depth[e] \in 1..height
    BY <1>1, DepthIs
  <2>2. top[e] = IF Parent[e] = Root THEN e ELSE f[HK!Depth[e] - 1][Parent[e]]
    <3>1. f[HK!Depth[e]] = down(f[HK!Depth[e] - 1])
      <4> HIDE DEF down
      <4> QED
        BY <1>4, <2>1
    <3>2. top[e] = f[HK!Depth[e]][e]
      OBVIOUS
    <3> QED
      BY <3>1, <3>2
  <2>3. CASE Parent[e] = Root
    BY <2>2, <2>3
  <2>4. CASE Parent[e] # Root
    <3>1. /\ Parent[e] \in Entries /\ HK!Depth[Parent[e]] \in Nat
          /\ HK!Depth[e] = HK!Depth[Parent[e]] + 1
      BY <2>4, DepthIs
    <3>2. HK!Depth[e] - 1 = HK!Depth[Parent[e]]
      BY <3>1
    <3> QED
      BY <2>2, <2>4, <3>1, <3>2
  <2> QED
    BY <2>3, <2>4
<1>6. Eq(HK!Top)
  <2>1. HK!Top = CHOOSE D : Eq(D)
    BY DEF HK!Top
  <2> HIDE DEF Eq, top
  <2> QED
    BY <1>5, <2>1
<1> QED
  BY <1>6

\* Above what there is, there is all.
Closed == \A e \in exists : Parent[e] \in exists \cup {Root}

LEMMA TopThere ==
  ASSUME Tree, Closed, exists \subseteq Entries
  PROVE  \A e \in exists : HK!Top[e] \in exists
<1> DEFINE T == {n \in Nat : \E e \in exists : HK!Depth[e] = n /\ HK!Top[e] \notin exists}
<1>1. T = {}
  <2> SUFFICES ASSUME T # {} PROVE FALSE
    OBVIOUS
  <2>1. PICK n \in T : \A m \in T : n <= m
    <3>1. T \subseteq Nat
      OBVIOUS
    <3> HIDE DEF T
    <3> QED
      BY <3>1, LeastNumber
  <2>2. PICK e \in exists : HK!Depth[e] = n /\ HK!Top[e] \notin exists
    OBVIOUS
  <2>3. Parent[e] # Root /\ HK!Top[Parent[e]] = HK!Top[e]
    BY <2>2, TopIs
  <2>4. Parent[e] \in exists
    BY <2>3 DEF Closed
  <2>5. HK!Depth[Parent[e]] \in Nat /\ n = HK!Depth[Parent[e]] + 1
    BY <2>2, <2>4, DepthIs
  <2>6. HK!Depth[Parent[e]] \in T
    BY <2>2, <2>3, <2>4, <2>5
  <2> HIDE DEF T
  <2> QED
    BY <2>1, <2>5, <2>6
<1>2. \A e \in exists : HK!Depth[e] \in Nat
  BY DepthIs
<1> QED
  BY <1>1, <1>2

\* What was gone into was trashed long enough ago; or nothing is left in it,
\* and nothing comes into what is in the trash.
Emptied(top) == \A e \in exists : HK!Top[e] = top => Parent[e] = Root
OldEnough(t) == age[HK!Top[t.entry]] <= t.limit \/ Emptied(HK!Top[t.entry])

PurgeInv ==
  /\ trash \in BOOLEAN /\ exists \subseteq Entries /\ age \in [Entries -> HK!Ages]
  /\ \A t \in tasks : t.entry \in Entries \cup {Root} /\ t.limit \in HK!Ages
  /\ trash => Closed /\ \A t \in tasks : t.entry # Root => OldEnough(t)
  /\ wrong = FALSE

LEMMA PurgeStart == Tree /\ HK!PurgeInit => PurgeInv
<1> SUFFICES ASSUME Tree, HK!PurgeInit PROVE PurgeInv
  OBVIOUS
<1>1. /\ trash \in BOOLEAN /\ exists = Entries /\ age \in [Entries -> {0, 1}]
      /\ tasks = {} /\ wrong = FALSE
  BY DEF HK!PurgeInit
<1>2. Closed
  BY <1>1, DepthIs DEF Closed
<1>3. age \in [Entries -> HK!Ages]
  BY <1>1 DEF HK!Ages
<1> QED
  BY <1>1, <1>2, <1>3 DEF PurgeInv

\* New tasks of a purge that is under way.
LEMMA TasksStep ==
  ASSUME PurgeInv, UNCHANGED <<trash, exists, age, wrong>>,
         \A u \in tasks' : \/ u \in tasks
                           \/ /\ u.entry \in Entries \cup {Root} /\ u.limit \in HK!Ages
                              /\ trash /\ u.entry # Root => OldEnough(u)
  PROVE  PurgeInv'
<1>1. \A u \in tasks' : u.entry \in Entries \cup {Root} /\ u.limit \in HK!Ages
  BY DEF PurgeInv
<1>2. trash => \A u \in tasks' : u.entry # Root => OldEnough(u)
  BY DEF PurgeInv
<1> QED
  BY <1>1, <1>2 DEF PurgeInv, Closed, OldEnough, Emptied

LEMMA BatchStep ==
  ASSUME Tree, PurgeInv, NEW t \in tasks, HK!Batch(t)
  PROVE  PurgeInv'
<1> DEFINE new == {c \in HK!Children(t.entry) : HK!Enters(c, t.limit)}
<1>1. /\ UNCHANGED <<trash, exists, age, wrong>>
      /\ tasks' = (tasks \ {t}) \cup {HK!Task(t.entry, t.limit, "end")}
                    \cup {HK!Task(c, t.limit, "enumerate") : c \in new}
  BY DEF HK!Batch
<1>2. /\ t.entry \in Entries \cup {Root} /\ t.limit \in HK!Ages
      /\ exists \subseteq Entries /\ Root \notin Entries
      /\ trash /\ t.entry # Root => OldEnough(t)
  BY DepthIs DEF PurgeInv
<1>3. ASSUME NEW c \in new
      PROVE  /\ c \in Entries
             /\ trash => OldEnough(HK!Task(c, t.limit, "enumerate"))
  <2>1. c \in exists /\ Parent[c] = t.entry /\ c \in Entries
    BY <1>2 DEF HK!Children
  <2>2. CASE t.entry = Root
    <3>1. HK!Depth[c] = 1 /\ HK!Top[c] = c
      BY <2>1, <2>2, DepthIs, TopIs
    <3>2. trash => age[c] <= t.limit
      BY <3>1 DEF HK!Enters, HK!ShouldPurge
    <3> QED
      BY <2>1, <3>1, <3>2 DEF OldEnough, HK!Task
  <2>3. CASE t.entry # Root
    <3>1. HK!Top[c] = HK!Top[t.entry]
      BY <2>1, <2>3, TopIs
    <3>2. ~Emptied(HK!Top[t.entry])
      BY <2>1, <2>3, <3>1 DEF Emptied
    <3>3. trash => age[HK!Top[c]] <= t.limit
      BY <1>2, <2>3, <3>1, <3>2 DEF OldEnough
    <3> QED
      BY <2>1, <3>3 DEF OldEnough, HK!Task
  <2> QED
    BY <2>2, <2>3
<1>4. ASSUME NEW u \in tasks', u \notin tasks
      PROVE  /\ u.entry \in Entries \cup {Root} /\ u.limit \in HK!Ages
             /\ trash /\ u.entry # Root => OldEnough(u)
  <2>1. CASE u = HK!Task(t.entry, t.limit, "end")
    BY <1>2, <2>1 DEF HK!Task, OldEnough
  <2>2. CASE \E c \in new : u = HK!Task(c, t.limit, "enumerate")
    BY <1>2, <1>3, <2>2 DEF HK!Task
  <2> QED
    BY <1>1, <1>4, <2>1, <2>2
<1> QED
  BY <1>1, <1>4, TasksStep

\* Less files, and none newer.
LEMMA FewerStep ==
  ASSUME Tree, PurgeInv, NEW e \in exists, HK!Children(e) = {},
         exists' = exists \ {e}, UNCHANGED <<trash, wrong>>, tasks' \subseteq tasks,
         age' \in [Entries -> HK!Ages], trash => age' = age
  PROVE  PurgeInv'
<1>1. \A f \in exists : f # e => Parent[f] # e
  BY DEF HK!Children
<1>2. trash => Closed'
  BY <1>1 DEF PurgeInv, Closed
<1>3. trash => \A t \in tasks' : t.entry # Root => OldEnough(t)'
  BY DEF PurgeInv, OldEnough, Emptied
<1> QED
  BY <1>2, <1>3 DEF PurgeInv

LEMMA EndStep ==
  ASSUME Tree, PurgeInv, NEW t \in tasks, HK!End(t)
  PROVE  PurgeInv'
<1> DEFINE goes == HK!Deletes(t) /\ t.entry \in exists /\ HK!Children(t.entry) = {}
<1>1. /\ tasks' = tasks \ {t} /\ trash' = trash
      /\ ~goes => UNCHANGED <<exists, age, wrong>>
      /\ goes => /\ exists' = exists \ {t.entry}
                 /\ age' = IF trash \/ Parent[t.entry] = Root THEN age
                           ELSE [age EXCEPT ![Parent[t.entry]] = 2]
                 /\ wrong' = (wrong \/ IF trash THEN age[HK!Top[t.entry]] > t.limit
                                       ELSE \/ age[t.entry] > t.limit
                                            \/ t.entry \notin mine)
  BY DEF HK!End
<1>2. /\ exists \subseteq Entries /\ age \in [Entries -> HK!Ages] /\ wrong = FALSE
      /\ t.limit \in HK!Ages /\ trash \in BOOLEAN
      /\ trash /\ t.entry # Root => OldEnough(t)
  BY DEF PurgeInv
<1>3. CASE ~goes
  BY <1>1, <1>3, TasksStep
<1>4. CASE goes
  <2>1. t.entry \in Entries /\ HK!Depth[t.entry] \in Nat \ {0} /\ t.entry # Root
    BY <1>2, <1>4, DepthIs
  <2>2. HK!ShouldPurge(t.entry, t.limit) =>
          (trash \/ t.entry \in mine) /\ age[t.entry] <= t.limit
    BY DEF HK!ShouldPurge
  <2>3. age[t.entry] \in 0..2 /\ t.limit \in 0..2
    BY <1>2, <2>1 DEF HK!Ages
  <2>4. CASE ~trash
    <3>1. HK!ShouldPurge(t.entry, t.limit)
      BY <1>4, <2>4 DEF HK!Deletes
    <3>2. wrong' = FALSE
      BY <1>1, <1>2, <1>4, <2>2, <2>3, <2>4, <3>1
    <3>3. age' \in [Entries -> HK!Ages]
      BY <1>1, <1>2, <1>4 DEF HK!Ages
    <3> QED
      BY <1>1, <1>2, <1>4, <2>4, <3>2, <3>3, FewerStep
  <2>5. CASE trash /\ Parent[t.entry] = Root
    <3>1. HK!Depth[t.entry] = 1 /\ HK!Top[t.entry] = t.entry
      BY <2>1, <2>5, DepthIs, TopIs
    <3>2. HK!ShouldPurge(t.entry, t.limit)
      BY <1>4, <3>1 DEF HK!Deletes
    <3>3. ~(age[HK!Top[t.entry]] > t.limit)
      BY <2>2, <2>3, <3>1, <3>2
    <3>4. wrong' = FALSE
      BY <1>1, <1>2, <1>4, <2>5, <3>3, Zenon
    <3> QED
      BY <1>1, <1>2, <1>4, <2>5, <3>4, FewerStep
  <2>6. CASE trash /\ Parent[t.entry] # Root
    <3>1. ~Emptied(HK!Top[t.entry])
      BY <1>4, <2>6 DEF Emptied
    <3>2. age[HK!Top[t.entry]] <= t.limit
      BY <1>2, <2>1, <2>6, <3>1 DEF OldEnough
    <3>3. HK!Top[t.entry] \in Entries
      BY <1>2, <1>4, <2>6, TopThere DEF PurgeInv
    <3>4. age[HK!Top[t.entry]] \in 0..2
      BY <1>2, <3>3 DEF HK!Ages
    <3>5. ~(age[HK!Top[t.entry]] > t.limit)
      BY <2>3, <3>2, <3>4
    <3>6. wrong' = FALSE
      BY <1>1, <1>2, <1>4, <2>6, <3>5, Zenon
    <3> QED
      BY <1>1, <1>2, <1>4, <2>6, <3>6, FewerStep
  <2> QED
    BY <1>2, <2>4, <2>5, <2>6
<1> QED
  BY <1>3, <1>4

LEMMA MakeStep ==
  ASSUME Tree, PurgeInv, NEW e \in Entries, HK!Make(e)
  PROVE  PurgeInv'
<1>1. /\ e \notin exists /\ Parent[e] \in exists \cup {Root}
      /\ exists' = exists \cup {e}
      /\ age' = [f \in Entries |->
                   IF f = e \/ (f = Parent[e] /\ ~trash) THEN 2 ELSE age[f]]
      /\ trash => Parent[e] = Root
      /\ UNCHANGED <<trash, tasks, wrong>>
  BY DEF HK!Make
<1>2. age' \in [Entries -> HK!Ages]
  BY <1>1 DEF HK!Ages, PurgeInv
<1>3. trash => Closed'
  BY <1>1 DEF PurgeInv, Closed
<1>4. ASSUME trash, NEW t \in tasks, t.entry # Root PROVE OldEnough(t)'
  <2>1. /\ Parent[e] = Root /\ HK!Top[e] = e /\ OldEnough(t) /\ Closed
        /\ exists \subseteq Entries
    BY <1>1, <1>4, TopIs DEF PurgeInv
  <2>2. \A f \in exists : HK!Top[f] # e
    BY <1>1, <2>1, TopThere
  <2>3. CASE HK!Top[t.entry] = e
    BY <1>1, <2>1, <2>2, <2>3 DEF OldEnough, Emptied
  <2>4. CASE HK!Top[t.entry] # e
    <3>1. CASE Emptied(HK!Top[t.entry])
      BY <1>1, <2>1, <3>1 DEF OldEnough, Emptied
    <3>2. CASE ~Emptied(HK!Top[t.entry])
      <4>1. HK!Top[t.entry] \in Entries
        BY <2>1, <3>2, TopThere DEF Emptied
      <4> QED
        BY <1>1, <1>4, <2>1, <2>4, <3>2, <4>1 DEF OldEnough
    <3> QED
      BY <3>1, <3>2
  <2> QED
    BY <2>3, <2>4
<1> QED
  BY <1>1, <1>2, <1>3, <1>4 DEF PurgeInv

LEMMA PurgeStep ==
  ASSUME Tree, PurgeInv, HK!PurgeNext \/ UNCHANGED purgeVars
  PROVE  PurgeInv'
<1>1. ASSUME NEW limit \in {0, 1}, HK!Purge(limit) PROVE PurgeInv'
  <2>1. /\ tasks' = tasks \cup {HK!Task(Root, limit, "enumerate")}
        /\ UNCHANGED <<trash, exists, age, wrong>>
    BY <1>1 DEF HK!Purge
  <2>2. limit \in HK!Ages
    BY DEF HK!Ages
  <2> QED
    BY <2>1, <2>2, TasksStep DEF HK!Task
<1>2. ASSUME NEW t \in tasks, HK!Enumerate(t) PROVE PurgeInv'
  <2>1. /\ \A u \in tasks' : u \in tasks \/ u = HK!Task(t.entry, t.limit, "batch")
        /\ UNCHANGED <<trash, exists, age, wrong>>
    BY <1>2 DEF HK!Enumerate
  <2>2. /\ t.entry \in Entries \cup {Root} /\ t.limit \in HK!Ages
        /\ trash /\ t.entry # Root => OldEnough(t)
    BY DEF PurgeInv
  <2>3. \A u : u = HK!Task(t.entry, t.limit, "batch") =>
          /\ u.entry = t.entry /\ u.limit = t.limit
          /\ OldEnough(u) <=> OldEnough(t)
    BY DEF HK!Task, OldEnough
  <2> QED
    BY <2>1, <2>2, <2>3, TasksStep
<1>3. ASSUME NEW e \in Entries, HK!Touch(e) PROVE PurgeInv'
  <2>1. /\ ~trash /\ age' = [age EXCEPT ![e] = 2]
        /\ UNCHANGED <<trash, exists, tasks, wrong>>
    BY <1>3 DEF HK!Touch
  <2>2. age' \in [Entries -> HK!Ages]
    BY <2>1 DEF PurgeInv, HK!Ages
  <2> QED
    BY <2>1, <2>2 DEF PurgeInv
<1>4. ASSUME NEW e \in Entries, HK!RemoveFile(e) PROVE PurgeInv'
  <2>1. /\ e \in exists /\ HK!Children(e) = {} /\ exists' = exists \ {e}
        /\ UNCHANGED <<trash, age, tasks, wrong>>
    BY <1>4 DEF HK!RemoveFile
  <2>2. age' \in [Entries -> HK!Ages]
    BY <2>1 DEF PurgeInv
  <2> QED
    BY <2>1, <2>2, FewerStep
<1>5. CASE UNCHANGED purgeVars
  BY <1>5, TasksStep DEF purgeVars
<1> QED
  BY <1>1, <1>2, <1>3, <1>4, <1>5, BatchStep, EndStep, MakeStep DEF HK!PurgeNext

-----------------------------------------------------------------------------
(* The thumbnails                                                          *)

\* A sum is taken in an order that its values have no part in.
One(s) == CHOOSE x \in s : TRUE
Summing(D, f, S) ==
  D = [s \in SUBSET S |-> IF s = {} THEN 0 ELSE f[One(s)] + D[s \ {One(s)}]]

LEMMA SumUnfolded ==
  ASSUME NEW f
  PROVE  HK!SumFunction(f) = (CHOOSE D : Summing(D, f, DOMAIN f))[DOMAIN f]
BY DEF HK!SumFunction, HK!SumFunctionOnSet, HK!FoldFunctionOnSet, HK!MapThenFoldSet,
       Summing, One

LEMMA LeastSubset ==
  ASSUME NEW S, IsFiniteSet(S), NEW B \in SUBSET SUBSET S, B # {}
  PROVE  \E s \in B : \A x \in s : s \ {x} \notin B
<1> DEFINE T == {Cardinality(s) : s \in B}
<1>1. \A s \in B : IsFiniteSet(s) /\ Cardinality(s) \in Nat
  BY FS_Subset, FS_CardinalityType
<1>2. PICK n \in T : \A m \in T : n <= m
  <2>1. T \subseteq Nat /\ T # {}
    BY <1>1
  <2> HIDE DEF T
  <2> QED
    BY <2>1, LeastNumber
<1>3. PICK s \in B : Cardinality(s) = n
  OBVIOUS
<1>4. ASSUME NEW x \in s PROVE s \ {x} \notin B
  <2>1. Cardinality(s \ {x}) = n - 1 /\ n \in Nat
    BY <1>1, <1>3, FS_RemoveElement
  <2> QED
    BY <1>2, <2>1
<1> QED
  BY <1>4

Sums(D, f, S) ==
  /\ D \in [SUBSET S -> Nat] /\ D[{}] = 0
  /\ \A s \in SUBSET S : s # {} => One(s) \in s /\ D[s] = f[One(s)] + D[s \ {One(s)}]

LEMMA SummingNat ==
  ASSUME NEW S, IsFiniteSet(S), NEW f \in [S -> Nat], NEW D, Summing(D, f, S)
  PROVE  Sums(D, f, S)
<1>1. \A s \in SUBSET S : s # {} => One(s) \in s
  BY DEF One
<1>2. /\ D[{}] = 0 /\ DOMAIN D = SUBSET S
      /\ \A s \in SUBSET S : s # {} => D[s] = f[One(s)] + D[s \ {One(s)}]
  BY DEF Summing
<1> DEFINE B == {s \in SUBSET S : D[s] \notin Nat}
<1>3. B = {}
  <2> SUFFICES ASSUME B # {} PROVE FALSE
    OBVIOUS
  <2>1. PICK s \in B : \A x \in s : s \ {x} \notin B
    <3>1. B \in SUBSET SUBSET S
      OBVIOUS
    <3> HIDE DEF B
    <3> QED
      BY <3>1, LeastSubset
  <2>2. s # {} /\ s \in SUBSET S
    BY <1>2
  <2>3. One(s) \in s /\ D[s \ {One(s)}] \in Nat /\ f[One(s)] \in Nat
    BY <1>1, <2>1, <2>2
  <2> QED
    BY <1>2, <2>2, <2>3
<1>4. D = [s \in SUBSET S |-> D[s]]
  BY DEF Summing
<1> QED
  BY <1>1, <1>2, <1>3, <1>4 DEF Sums

LEMMA SummingExists ==
  ASSUME NEW S, IsFiniteSet(S), NEW f \in [S -> Nat]
  PROVE  \E D : Summing(D, f, S)
<1> DEFINE N == Cardinality(S)
           X == [SUBSET S -> Nat]
           start == [s \in SUBSET S |-> 0]
           more(D) == [s \in SUBSET S |->
                         IF s = {} THEN 0 ELSE f[One(s)] + D[s \ {One(s)}]]
           next == [p \in X \X (1..N) |-> more(p[1])]
<1>1. N \in Nat
  BY FS_CardinalityType
<1>2. start \in X /\ next \in [X \X (1..N) -> X]
  <2>1. ASSUME NEW D \in X PROVE more(D) \in X
    BY DEF One
  <2>2. \A p \in X \X (1..N) : p[1] \in X
    OBVIOUS
  <2> HIDE DEF more, X
  <2>3. next \in [X \X (1..N) -> X]
    BY <2>1, <2>2
  <2> QED
    BY <2>3 DEF X
<1>3. PICK h : Iteration(h, N, X, start, next)
  <2> HIDE DEF N, X, start, next
  <2> QED
    BY <1>1, <1>2, Iterated
<1>4. h[0] = start /\ \A k \in 1..N : h[k] = more(h[k - 1])
  <2>1. \A k \in 1..N : k - 1 \in 0..N
    BY <1>1
  <2>2. \A k \in 0..N : h[k] \in X
    BY <1>3 DEF Iteration
  <2>3. ASSUME NEW k \in 1..N PROVE h[k] = more(h[k - 1])
    <3>1. h[k - 1] \in X
      BY <2>1, <2>2
    <3> HIDE DEF X, more
    <3> QED
      BY <1>3, <3>1 DEF Iteration
  <2> QED
    BY <1>3, <2>3 DEF Iteration
<1> DEFINE D == [s \in SUBSET S |-> h[Cardinality(s)][s]]
<1>5. ASSUME NEW s \in SUBSET S
      PROVE  D[s] = IF s = {} THEN 0 ELSE f[One(s)] + D[s \ {One(s)}]
  <2>1. CASE s = {}
    BY <1>4, <2>1, FS_EmptySet
  <2>2. CASE s # {}
    <3>1. One(s) \in s /\ s \ {One(s)} \in SUBSET S
      BY <2>2 DEF One
    <3>2. IsFiniteSet(s) /\ Cardinality(s) \in 0..N
      BY <1>1, FS_Subset, FS_CardinalityType
    <3>3. Cardinality(s \ {One(s)}) = Cardinality(s) - 1 /\ Cardinality(s) # 0
      BY <2>2, <3>1, <3>2, FS_RemoveElement, FS_EmptySet
    <3>4. h[Cardinality(s)] = more(h[Cardinality(s) - 1])
      <4>1. Cardinality(s) \in 1..N
        BY <1>1, <3>2, <3>3
      <4> HIDE DEF more, N
      <4> QED
        BY <1>4, <4>1
    <3>5. h[Cardinality(s)][s] = f[One(s)] + h[Cardinality(s) - 1][s \ {One(s)}]
      BY <2>2, <3>4
    <3> QED
      BY <2>2, <3>1, <3>3, <3>5
  <2> QED
    BY <2>1, <2>2
<1>6. Summing(D, f, S)
  <2>1. D = [s \in SUBSET S |-> D[s]]
    OBVIOUS
  <2> HIDE DEF D
  <2> QED
    BY <1>5, <2>1 DEF Summing
<1> QED
  BY <1>6

\* The sum is one of a summing function.
LEMMA SumIs ==
  ASSUME NEW S, IsFiniteSet(S), NEW f \in [S -> Nat]
  PROVE  \E D : Sums(D, f, S) /\ HK!SumFunction(f) = D[S]
<1> DEFINE D == CHOOSE D : Summing(D, f, S)
<1>1. Summing(D, f, S)
  BY SummingExists
<1>2. HK!SumFunction(f) = D[S]
  BY SumUnfolded
<1> HIDE DEF D
<1>3. Sums(D, f, S)
  BY <1>1, SummingNat
<1> QED
  BY <1>2, <1>3

LEMMA SumNat ==
  ASSUME NEW S, IsFiniteSet(S), NEW f \in [S -> Nat]
  PROVE  HK!SumFunction(f) \in Nat
<1>1. PICK D : Sums(D, f, S) /\ HK!SumFunction(f) = D[S]
  BY SumIs
<1>2. S \in SUBSET S
  OBVIOUS
<1> QED
  BY <1>1, <1>2 DEF Sums

LEMMA SumZero ==
  ASSUME NEW S, IsFiniteSet(S), NEW f \in [S -> Nat], \A x \in S : f[x] = 0
  PROVE  HK!SumFunction(f) = 0
<1>1. PICK D : Sums(D, f, S) /\ HK!SumFunction(f) = D[S]
  BY SumIs
<1> DEFINE B == {s \in SUBSET S : D[s] # 0}
<1>2. B = {}
  <2> SUFFICES ASSUME B # {} PROVE FALSE
    OBVIOUS
  <2>1. PICK s \in B : \A x \in s : s \ {x} \notin B
    <3>1. B \in SUBSET SUBSET S
      OBVIOUS
    <3> HIDE DEF B
    <3> QED
      BY <3>1, LeastSubset
  <2>2. s # {} /\ One(s) \in s /\ D[s] = f[One(s)] + D[s \ {One(s)}]
    BY <1>1 DEF Sums
  <2>3. D[s \ {One(s)}] = 0 /\ f[One(s)] = 0
    BY <2>1, <2>2
  <2> QED
    BY <2>2, <2>3
<1> QED
  BY <1>1, <1>2

LEMMA SumEmptied ==
  ASSUME NEW S, IsFiniteSet(S), NEW f \in [S -> Nat], NEW x \in S
  PROVE  HK!SumFunction([f EXCEPT ![x] = 0]) = HK!SumFunction(f) - f[x]
<1> DEFINE g == [f EXCEPT ![x] = 0]
<1>1. g \in [S -> Nat] /\ g[x] = 0 /\ \A y \in S \ {x} : g[y] = f[y]
  OBVIOUS
<1>2. PICK D : Sums(D, f, S) /\ HK!SumFunction(f) = D[S]
  BY SumIs
<1>3. PICK E : Sums(E, g, S) /\ HK!SumFunction(g) = E[S]
  <2> HIDE DEF g
  <2> QED
    BY <1>1, SumIs
<1> DEFINE Less1(s) == D[s] - (IF x \in s THEN f[x] ELSE 0)
           B == {s \in SUBSET S : E[s] # Less1(s)}
<1>4. B = {}
  <2> SUFFICES ASSUME B # {} PROVE FALSE
    OBVIOUS
  <2>1. PICK s \in B : \A y \in s : s \ {y} \notin B
    <3>1. B \in SUBSET SUBSET S
      OBVIOUS
    <3> HIDE DEF B
    <3> QED
      BY <3>1, LeastSubset
  <2>2. /\ D \in [SUBSET S -> Nat] /\ D[{}] = 0
        /\ s # {} => /\ One(s) \in s /\ s \ {One(s)} \in SUBSET S
                     /\ D[s] = f[One(s)] + D[s \ {One(s)}]
    BY <1>2 DEF Sums
  <2>3. /\ E \in [SUBSET S -> Nat] /\ E[{}] = 0
        /\ s # {} => E[s] = g[One(s)] + E[s \ {One(s)}]
    <3> HIDE DEF g
    <3> QED
      BY <1>3 DEF Sums
  <2> HIDE DEF g
  <2>4. s # {}
    <3>1. s = {} => Less1(s) = 0 /\ E[s] = 0
      BY <2>2, <2>3
    <3> QED
      BY <3>1
  <2>5. E[s \ {One(s)}] = Less1(s \ {One(s)})
    BY <2>1, <2>2, <2>4
  <2>6. D[s \ {One(s)}] \in Nat /\ E[s \ {One(s)}] \in Nat /\ f[One(s)] \in Nat /\ f[x] \in Nat
    BY <2>2, <2>3, <2>4
  <2>7. E[s] = Less1(s)
    <3>1. CASE One(s) = x
      BY <1>1, <2>2, <2>3, <2>4, <2>5, <2>6, <3>1
    <3>2. CASE One(s) # x
      BY <1>1, <2>2, <2>3, <2>4, <2>5, <2>6, <3>2
    <3> QED
      BY <3>1, <3>2
  <2> QED
    BY <2>7
<1>5. E[S] = D[S] - f[x]
  BY <1>4
<1> QED
  BY <1>2, <1>3, <1>5

Sizes == [Files -> 0..MaxSize]

LEMMA OldestThere ==
  ASSUME ThumbConstants, thumbsAge \in [Files -> 0..MaxAge],
         NEW S \in SUBSET Files, S # {}
  PROVE  \E f \in S : HK!GoesFirst(f, S)
<1> DEFINE T == {MaxAge - thumbsAge[f] : f \in S}
<1>1. \A f \in S : thumbsAge[f] \in 0..MaxAge /\ MaxAge \in Nat
  BY DEF ThumbConstants
<1>2. PICK n \in T : \A m \in T : n <= m
  <2>1. T \subseteq Nat /\ T # {}
    BY <1>1
  <2> HIDE DEF T
  <2> QED
    BY <2>1, LeastNumber
<1>3. PICK f \in S : n = MaxAge - thumbsAge[f]
  OBVIOUS
<1>4. \A g \in S : MaxAge - thumbsAge[f] <= MaxAge - thumbsAge[g]
  BY <1>2, <1>3
<1>5. \A g \in S : thumbsAge[f] >= thumbsAge[g]
  BY <1>1, <1>4
<1> QED
  BY <1>5 DEF HK!GoesFirst

\* One round of the loop that deletes the oldest.
Round(p) ==
  IF p.total <= sizeLimit \/ HK!There(p.sizes) = {} THEN p
  ELSE LET f == CHOOSE f \in HK!There(p.sizes) : HK!GoesFirst(f, HK!There(p.sizes)) IN
    [sizes |-> [p.sizes EXCEPT ![f] = 0], total |-> p.total - p.sizes[f]]
Fitting(F, sizes, total) ==
  F = [n \in 0..Cardinality(Files) |->
         IF n = 0 THEN [sizes |-> sizes, total |-> total] ELSE Round(F[n - 1])]

LEMMA FittedUnfolded ==
  ASSUME NEW sizes, NEW total
  PROVE  HK!Fitted(sizes, total) =
           (CHOOSE F : Fitting(F, sizes, total))[Cardinality(Files)].sizes
<1>1. HK!Cardinality(Files) = Cardinality(Files)
  BY DEF HK!Cardinality, Cardinality
<1> QED
  BY <1>1 DEF HK!Fitted, Fitting, Round

\* After n rounds the total is right, of two files the older went first, and
\* all fit unless n files went.
AfterRounds(p, sizes, n) ==
  /\ p.sizes \in Sizes /\ p.total = HK!SumFunction(p.sizes)
  /\ \A f \in Files : p.sizes[f] \in {sizes[f], 0}
  /\ \A f \in HK!There(sizes) \ HK!There(p.sizes) :
       \A g \in HK!There(p.sizes) : thumbsAge[g] <= thumbsAge[f]
  /\ \/ p.total <= sizeLimit \/ HK!There(p.sizes) = {}
     \/ Cardinality(HK!There(p.sizes)) <= Cardinality(Files) - n

LEMMA RoundStep ==
  ASSUME ThumbConstants, thumbsAge \in [Files -> 0..MaxAge], sizeLimit \in Int,
         NEW sizes \in Sizes, NEW p, NEW n \in Nat, AfterRounds(p, sizes, n)
  PROVE  AfterRounds(Round(p), sizes, n + 1)
<1> DEFINE There == HK!There(p.sizes)
           f == CHOOSE f \in There : HK!GoesFirst(f, There)
           q == [sizes |-> [p.sizes EXCEPT ![f] = 0], total |-> p.total - p.sizes[f]]
<1>1. CASE p.total <= sizeLimit \/ There = {}
  BY <1>1 DEF Round, AfterRounds
<1>2. CASE ~(p.total <= sizeLimit \/ There = {})
  <2>1. There \subseteq Files /\ There # {}
    BY <1>2 DEF HK!There
  <2>2. f \in There /\ HK!GoesFirst(f, There)
    <3> HIDE DEF There
    <3> QED
      BY <2>1, OldestThere
  <2>3. Round(p) = q
    BY <1>2 DEF Round
  <2> HIDE DEF f
  <2>4. /\ IsFiniteSet(Files) /\ MaxSize \in Nat /\ f \in Files
        /\ p.sizes \in [Files -> 0..MaxSize] /\ p.sizes \in [Files -> Nat]
        /\ sizes \in [Files -> 0..MaxSize]
    BY <2>1, <2>2 DEF ThumbConstants, AfterRounds, Sizes
  <2>5. q.sizes \in Sizes /\ \A g \in Files : q.sizes[g] = IF g = f THEN 0 ELSE p.sizes[g]
    BY <2>4 DEF Sizes
  <2>6. q.total = HK!SumFunction(q.sizes)
    BY <2>4, SumEmptied DEF AfterRounds
  <2>7. HK!There(q.sizes) = There \ {f}
    BY <2>4, <2>5 DEF HK!There
  <2>8. \A g \in Files : q.sizes[g] \in {sizes[g], 0}
    BY <2>5 DEF AfterRounds
  <2>9. ASSUME NEW g \in HK!There(sizes) \ HK!There(q.sizes), NEW h \in HK!There(q.sizes)
        PROVE  thumbsAge[h] <= thumbsAge[g]
    <3>1. h \in There /\ (g = f \/ g \notin There)
      BY <2>7, <2>9
    <3>2. \A j \in Files : thumbsAge[j] \in Nat
      BY DEF ThumbConstants
    <3> QED
      BY <2>1, <2>2, <2>4, <2>9, <3>1, <3>2 DEF AfterRounds, HK!GoesFirst
  <2>10. Cardinality(HK!There(q.sizes)) <= Cardinality(Files) - (n + 1)
    <3>1. IsFiniteSet(There) /\ Cardinality(There) \in Nat /\ Cardinality(Files) \in Nat
      BY <2>1, <2>4, FS_Subset, FS_CardinalityType
    <3>2. Cardinality(There \ {f}) = Cardinality(There) - 1
      BY <2>2, <3>1, FS_RemoveElement
    <3>3. Cardinality(There) <= Cardinality(Files) - n
      BY <1>2 DEF AfterRounds
    <3>4. Cardinality(HK!There(q.sizes)) = Cardinality(There) - 1
      BY <2>7, <3>2
    <3> HIDE DEF q, There
    <3> QED
      BY <3>1, <3>3, <3>4
  <2> HIDE DEF q
  <2> QED
    BY <2>3, <2>5, <2>6, <2>8, <2>9, <2>10 DEF AfterRounds
<1> QED
  BY <1>1, <1>2

LEMMA FittedIs ==
  ASSUME ThumbConstants, thumbsAge \in [Files -> 0..MaxAge], sizeLimit \in Nat,
         NEW sizes \in Sizes
  PROVE  LET fitted == HK!Fitted(sizes, HK!SumFunction(sizes)) IN
         /\ fitted \in Sizes /\ HK!SumFunction(fitted) <= sizeLimit
         /\ \A f \in Files : fitted[f] \in {sizes[f], 0}
         /\ \A f \in HK!There(sizes) \ HK!There(fitted) :
              \A g \in HK!There(fitted) : thumbsAge[g] <= thumbsAge[f]
<1> DEFINE N == Cardinality(Files)
           total == HK!SumFunction(sizes)
           X == {p \in [sizes : Sizes, total : Int] :
                   \E n \in Nat : AfterRounds(p, sizes, n)}
           start == [sizes |-> sizes, total |-> total]
           next == [p \in X \X (1..N) |-> Round(p[1])]
<1>0. /\ IsFiniteSet(Files) /\ N \in Nat /\ MaxSize \in Nat
      /\ \A s \in Sizes : s \in [Files -> Nat]
  BY FS_CardinalityType DEF ThumbConstants, Sizes
<1>1. \A s \in Sizes : HK!SumFunction(s) \in Nat
  BY <1>0, SumNat
<1>2. AfterRounds(start, sizes, 0)
  <2>1. HK!There(sizes) \subseteq Files
    BY DEF HK!There
  <2>2. Cardinality(HK!There(sizes)) <= N
    BY <1>0, <2>1, FS_Subset
  <2> QED
    BY <1>0, <2>2 DEF AfterRounds
<1>3. start \in X
  BY <1>1, <1>2
<1>4. ASSUME NEW p \in X PROVE Round(p) \in X
  <2>1. PICK n \in Nat : AfterRounds(p, sizes, n)
    OBVIOUS
  <2>2. AfterRounds(Round(p), sizes, n + 1)
    BY <2>1, RoundStep
  <2>3. p \in [sizes : Sizes, total : Int]
    OBVIOUS
  <2>4. Round(p) \in [sizes : Sizes, total : Int]
    <3>1. CASE Round(p) = p
      BY <2>3, <3>1
    <3>2. CASE Round(p) # p
      <4>1. Round(p) = [sizes |-> Round(p).sizes, total |-> Round(p).total]
        BY <3>2 DEF Round
      <4>2. Round(p).sizes \in Sizes /\ Round(p).total \in Int
        BY <1>1, <2>2 DEF AfterRounds
      <4> QED
        BY <4>1, <4>2
    <3> QED
      BY <3>1, <3>2
  <2> QED
    BY <2>2, <2>4
<1>5. next \in [X \X (1..N) -> X]
  <2>1. \A p \in X \X (1..N) : p[1] \in X
    OBVIOUS
  <2> HIDE DEF X
  <2> QED
    BY <1>4, <2>1
<1>6. PICK h : Iteration(h, N, X, start, next)
  <2> HIDE DEF N, X, start, next
  <2> QED
    BY <1>0, <1>3, <1>5, Iterated
<1>7. Fitting(h, sizes, total)
  <2>1. \A k \in 1..N : k - 1 \in 0..N
    BY <1>0
  <2>2. h \in [0..N -> X] /\ h[0] = start
    BY <1>6 DEF Iteration
  <2>3. ASSUME NEW k \in 1..N PROVE h[k] = Round(h[k - 1])
    <3>1. h[k - 1] \in X
      BY <2>1, <2>2
    <3> HIDE DEF X
    <3> QED
      BY <1>6, <3>1 DEF Iteration
  <2>4. h = [n \in 0..N |-> h[n]]
    BY <2>2
  <2>5. \A n \in 0..N : n = 0 \/ n \in 1..N
    BY <1>0
  <2> HIDE DEF X
  <2> QED
    BY <2>2, <2>3, <2>4, <2>5 DEF Fitting
<1> DEFINE F == CHOOSE F : Fitting(F, sizes, total)
<1>8. Fitting(F, sizes, total) /\ HK!Fitted(sizes, total) = F[N].sizes
  <2> HIDE DEF total
  <2> QED
    BY <1>7, FittedUnfolded
<1> HIDE DEF F
<1>9. /\ F[0] = start
      /\ \A k \in 1..N : F[k] = Round(F[k - 1])
  BY <1>0, <1>8 DEF Fitting
<1> DEFINE T == {n \in 0..N : ~AfterRounds(F[n], sizes, n)}
<1>10. T = {}
  <2> SUFFICES ASSUME T # {} PROVE FALSE
    OBVIOUS
  <2>1. PICK n \in T : \A m \in T : n <= m
    <3>1. T \subseteq Nat
      OBVIOUS
    <3> HIDE DEF T
    <3> QED
      BY <3>1, LeastNumber
  <2>2. n # 0
    BY <1>2, <1>9
  <2>3. n \in 1..N /\ n - 1 \in 0..N /\ n - 1 \in Nat /\ ~(n <= n - 1) /\ (n - 1) + 1 = n
    BY <1>0, <2>2
  <2>4. AfterRounds(F[n - 1], sizes, n - 1)
    BY <2>1, <2>3
  <2>5. AfterRounds(F[n], sizes, n)
    <3>1. AfterRounds(Round(F[n - 1]), sizes, (n - 1) + 1)
      BY <2>3, <2>4, RoundStep
    <3> QED
      BY <1>9, <2>3, <3>1
  <2> QED
    BY <2>5
<1>11. AfterRounds(F[N], sizes, N)
  BY <1>0, <1>10
<1> DEFINE fitted == F[N].sizes
<1>12. HK!SumFunction(fitted) <= sizeLimit
  <2>1. CASE HK!There(fitted) = {}
    <3>1. \A f \in Files : fitted[f] = 0
      BY <1>0, <1>11, <2>1 DEF HK!There, AfterRounds, Sizes
    <3>2. HK!SumFunction(fitted) = 0
      BY <1>0, <1>11, <3>1, SumZero DEF AfterRounds
    <3> QED
      BY <3>2
  <2>2. CASE HK!There(fitted) # {}
    <3>1. HK!There(fitted) \subseteq Files
      BY DEF HK!There
    <3>2. Cardinality(HK!There(fitted)) \in Nat \ {0}
      BY <1>0, <2>2, <3>1, FS_Subset, FS_CardinalityType, FS_EmptySet
    <3> QED
      BY <1>0, <1>11, <2>2, <3>2 DEF AfterRounds
  <2> QED
    BY <2>1, <2>2
<1> QED
  BY <1>8, <1>11, <1>12 DEF AfterRounds

\* What a clean-up leaves.
PurgedWell(left) ==
  /\ left \in Sizes
  /\ \A f \in HK!There(size) \ HK!There(left) :
       \/ thumbsAge[f] > ageLimit /\ ageLimit >= 0
       \/ \A g \in HK!There(left) : thumbsAge[g] <= thumbsAge[f]
  /\ ageLimit >= 0 =>
       /\ \A f \in HK!There(left) : thumbsAge[f] <= ageLimit
       /\ sizeLimit >= 0 => HK!SumFunction(left) <= sizeLimit

LEMMA PurgedIs ==
  ASSUME ThumbConstants, thumbsAge \in [Files -> 0..MaxAge], size \in Sizes,
         ageLimit \in -1..MaxAge, sizeLimit \in -1..MaxSize
  PROVE  PurgedWell(HK!Purged)
<1> DEFINE young == HK!Young(size)
<1>0. /\ IsFiniteSet(Files) /\ MaxSize \in Nat /\ MaxAge \in Nat
      /\ \A s \in Sizes : s \in [Files -> Nat]
      /\ \A f \in Files : thumbsAge[f] \in Nat
      /\ ageLimit \in Int /\ sizeLimit \in Int
  BY DEF ThumbConstants, Sizes
<1>1. young \in Sizes /\ \A f \in Files :
         young[f] = IF ageLimit >= 0 /\ thumbsAge[f] > ageLimit THEN 0 ELSE size[f]
  BY <1>0 DEF HK!Young, Sizes
<1> HIDE DEF young
<1>2. /\ HK!There(young) \subseteq Files
      /\ \A f \in HK!There(size) \ HK!There(young) : thumbsAge[f] > ageLimit /\ ageLimit >= 0
      /\ ageLimit >= 0 => \A f \in HK!There(young) : thumbsAge[f] <= ageLimit
  BY <1>0, <1>1 DEF HK!There
<1>3. CASE sizeLimit >= 0 /\ HK!Counted(young) > sizeLimit
  <2>1. ageLimit >= 0 /\ HK!Counted(young) = HK!SumFunction(young) /\ sizeLimit \in Nat
    BY <1>0, <1>3 DEF HK!Counted
  <2> DEFINE left == HK!Fitted(young, HK!SumFunction(young))
  <2>2. HK!Purged = left
    BY <1>3, <2>1 DEF HK!Purged, young
  <2>3. /\ left \in Sizes /\ HK!SumFunction(left) <= sizeLimit
        /\ \A f \in Files : left[f] \in {young[f], 0}
        /\ \A f \in HK!There(young) \ HK!There(left) :
             \A g \in HK!There(left) : thumbsAge[g] <= thumbsAge[f]
    BY <1>1, <2>1, FittedIs
  <2> HIDE DEF left
  <2>4. HK!There(left) \subseteq HK!There(young)
    BY <1>0, <1>1, <2>3 DEF HK!There, Sizes
  <2> QED
    BY <1>2, <2>1, <2>2, <2>3, <2>4 DEF PurgedWell
<1>4. CASE ~(sizeLimit >= 0 /\ HK!Counted(young) > sizeLimit)
  <2>1. HK!Purged = young
    BY <1>4 DEF HK!Purged, young
  <2>2. ageLimit >= 0 /\ sizeLimit >= 0 => HK!SumFunction(young) <= sizeLimit
    <3>1. HK!SumFunction(young) \in Nat
      BY <1>0, <1>1, SumNat
    <3> QED
      BY <1>0, <1>4, <3>1 DEF HK!Counted
  <2> QED
    BY <1>1, <1>2, <2>1, <2>2 DEF PurgedWell
<1> QED
  BY <1>3, <1>4

ThumbsInv ==
  /\ thumbsAge \in [Files -> 0..MaxAge] /\ size \in Sizes
  /\ ageLimit \in -1..MaxAge /\ sizeLimit \in -1..MaxSize
  /\ HK!LimitsKept

LEMMA ThumbsStart ==
  ASSUME ThumbConstants, HK!ThumbInit
  PROVE  ThumbsInv
<1>1. /\ MaxAge \in Nat \ {0} /\ MaxSize \in Nat \ {0}
      /\ thumbsAge = [f \in Files |-> 0] /\ size = [f \in Files |-> 0]
      /\ ageLimit \in -1..1 /\ sizeLimit \in -1..1 /\ ~clean /\ ~unread
  BY DEF ThumbConstants, HK!ThumbInit
<1>2. HK!LimitsKept
  BY <1>1, Zenon DEF HK!LimitsKept
<1>3. /\ thumbsAge \in [Files -> 0..MaxAge] /\ size \in Sizes
      /\ ageLimit \in -1..MaxAge /\ sizeLimit \in -1..MaxSize
  BY <1>1 DEF Sizes
<1> QED
  BY <1>2, <1>3 DEF ThumbsInv

\* What leaves the files and the limits alone keeps them as they were.
LEMMA ThumbsSame ==
  ASSUME ThumbsInv, UNCHANGED <<thumbsAge, size, ageLimit, sizeLimit, before, clean>>,
         unread' => soon'
  PROVE  ThumbsInv'
<1>1. HK!LimitsKept'
  BY DEF ThumbsInv, HK!LimitsKept, HK!There
<1> QED
  BY <1>1 DEF ThumbsInv

LEMMA CleanupStep ==
  ASSUME ThumbConstants, ThumbsInv, HK!Cleanup, UNCHANGED <<thumbsAge, ageLimit, sizeLimit>>
  PROVE  ThumbsInv'
<1>1. size' = HK!Purged /\ before' = size /\ ~unread'
  BY DEF HK!Cleanup
<1>2. PurgedWell(size')
  BY <1>1, PurgedIs DEF ThumbsInv
<1>3. HK!There(before)' = HK!There(size) /\ HK!There(size)' = HK!There(size')
  BY <1>1 DEF HK!There
<1>4. HK!LimitsKept'
  BY <1>1, <1>2, <1>3 DEF HK!LimitsKept, PurgedWell
<1>5. size' \in Sizes
  BY <1>2 DEF PurgedWell
<1> QED
  BY <1>4, <1>5 DEF ThumbsInv, Sizes

\* What changes something is followed by nothing.
LEMMA ThumbsUnclean ==
  ASSUME ~clean', unread' => soon', thumbsAge' \in [Files -> 0..MaxAge], size' \in Sizes,
         ageLimit' \in -1..MaxAge, sizeLimit' \in -1..MaxSize
  PROVE  ThumbsInv'
<1>1. HK!LimitsKept'
  BY Zenon DEF HK!LimitsKept
<1> QED
  BY <1>1 DEF ThumbsInv, Sizes

LEMMA ThumbsStep ==
  ASSUME ThumbConstants, ThumbsInv, HK!ThumbNext \/ UNCHANGED thumbsVars
  PROVE  ThumbsInv'
<1>0. /\ IsFiniteSet(Files) /\ MaxSize \in Nat /\ MaxAge \in Nat
      /\ thumbsAge \in [Files -> 0..MaxAge] /\ size \in [Files -> 0..MaxSize]
      /\ ageLimit \in -1..MaxAge /\ sizeLimit \in -1..MaxSize
      /\ unread => soon
  BY DEF ThumbConstants, ThumbsInv, Sizes, HK!LimitsKept
<1>1. CASE HK!Start
  BY <1>1, ThumbsSame DEF HK!Start, HK!Limits
<1>2. CASE HK!Daily
  BY <1>2, CleanupStep DEF HK!Daily, HK!Limits
<1>3. CASE HK!Once
  BY <1>3, CleanupStep DEF HK!Once, HK!Limits
<1>4. CASE HK!Stop
  <2>1. /\ UNCHANGED <<thumbsAge, ageLimit, sizeLimit>>
        /\ \/ HK!Cleanup
           \/ UNCHANGED <<size, before, clean>> /\ unread' = FALSE
    BY <1>4 DEF HK!Stop, HK!Limits
  <2> QED
    BY <2>1, CleanupStep, ThumbsSame
<1>5. CASE HK!SetLimit
  <2>1. /\ \/ ageLimit' \in -1..MaxAge /\ UNCHANGED sizeLimit
           \/ sizeLimit' \in -1..MaxSize /\ UNCHANGED ageLimit
        /\ soon' = started /\ unread' = started /\ clean' = FALSE
        /\ UNCHANGED <<thumbsAge, size>>
    BY <1>5 DEF HK!SetLimit
  <2> QED
    BY <1>0, <2>1, ThumbsUnclean DEF Sizes
<1>6. ASSUME NEW f \in Files, HK!View(f) PROVE ThumbsInv'
  <2>1. /\ \E s \in 1..MaxSize : size' = [size EXCEPT ![f] = s]
        /\ thumbsAge' = [thumbsAge EXCEPT ![f] = 0] /\ clean' = FALSE
        /\ UNCHANGED <<ageLimit, sizeLimit, soon, unread>>
    BY <1>6 DEF HK!View, HK!Limits
  <2>2. size' \in Sizes
    BY <1>0, <2>1 DEF Sizes
  <2>3. thumbsAge' \in [Files -> 0..MaxAge]
    BY <1>0, <2>1
  <2> QED
    BY <1>0, <2>1, <2>2, <2>3, ThumbsUnclean
<1>7. CASE HK!Days
  <2>1. /\ thumbsAge' = [f \in Files |->
             IF thumbsAge[f] < MaxAge THEN thumbsAge[f] + 1 ELSE thumbsAge[f]]
        /\ clean' = FALSE /\ UNCHANGED <<size, ageLimit, sizeLimit, soon, unread>>
    BY <1>7 DEF HK!Days, HK!Limits
  <2>2. thumbsAge' \in [Files -> 0..MaxAge]
    BY <1>0, <2>1
  <2> QED
    BY <1>0, <2>1, <2>2, ThumbsUnclean DEF Sizes
<1>8. CASE UNCHANGED thumbsVars
  BY <1>0, <1>8, ThumbsSame DEF thumbsVars
<1> QED
  BY <1>1, <1>2, <1>3, <1>4, <1>5, <1>6, <1>7, <1>8 DEF HK!ThumbNext

-----------------------------------------------------------------------------
(* Notices about full disks                                                *)

Notes == [free : 0..MaxFree, time : 0..DiskTime + 1]
Found == [volume : Volumes, free : 0..MaxFree]

LEMMA ListIs ==
  ASSUME NEW S, IsFiniteSet(S)
  PROVE  HK!SetToSeq(S) \in Seq(S)
<1> DEFINE n == Cardinality(S)
           Fits(f) == f \in [1..n -> S] /\ HK!IsInjective(f)
<1>1. n \in Nat /\ HK!Cardinality(S) = n
  BY FS_CardinalityType DEF HK!Cardinality, Cardinality
<1>2. \E f : Fits(f)
  <2>1. PICK f \in Bijection(1..n, S) : TRUE
    BY FS_CardinalityType DEF ExistsBijection
  <2>2. f \in [1..n -> S] /\ \A a, b \in 1..n : f[a] = f[b] => a = b
    BY <2>1 DEF Bijection, Injection, IsInjective
  <2> QED
    BY <2>2 DEF HK!IsInjective
<1>3. HK!SetToSeq(S) = CHOOSE f \in [1..n -> S] : HK!IsInjective(f)
  BY <1>1 DEF HK!SetToSeq
<1>4. HK!SetToSeq(S) \in [1..n -> S]
  BY <1>2, <1>3
<1> QED
  BY <1>1, <1>4

LEMMA FullMountsIs ==
  ASSUME DiskConstants, free \in [Volumes -> 0..MaxFree], mounted \subseteq Volumes
  PROVE  HK!FullMounts \in Seq(Found)
<1> DEFINE S == {v \in HK!Checked : ~HK!HasSpace(v)}
           list == HK!SetToSeq(S)
<1>1. S \subseteq Volumes
  BY DEF HK!Checked
<1>2. list \in Seq(S)
  BY <1>1, FS_Subset, ListIs DEF DiskConstants
<1> HIDE DEF S
<1>3. Len(list) \in Nat /\ DOMAIN list = 1..Len(list) /\ \A n \in DOMAIN list : list[n] \in Volumes
  BY <1>1, <1>2
<1>4. HK!FullMounts = [n \in DOMAIN list |-> [volume |-> list[n], free |-> free[list[n]]]]
  BY DEF HK!FullMounts, S
<1> HIDE DEF list
<1>5. HK!FullMounts \in [1..Len(list) -> Found]
  BY <1>3, <1>4 DEF Found
<1> QED
  BY <1>3, <1>5

\* The first that is to be told of.
LEMMA PassedIs ==
  ASSUME NEW list \in Seq(Found), NEW notes
  PROVE  /\ HK!Passed(list, notes) \in 0..Len(list)
         /\ HK!Passed(list, notes) # 0 =>
              HK!Shows(notes, list[HK!Passed(list, notes)])
<1> DEFINE I == {n \in 1..Len(list) : HK!Shows(notes, list[n])}
<1>1. HK!Passed(list, notes) = IF I # {} THEN HK!Min(I) ELSE 0
  BY DEF HK!Passed, HK!SelectInSeq
<1>2. I # {} => HK!Min(I) \in I
  <2>1. I \subseteq Nat
    OBVIOUS
  <2> HIDE DEF I
  <2>2. I # {} => \E n \in I : \A m \in I : n <= m
    BY <2>1, LeastNumber
  <2> QED
    BY <2>2 DEF HK!Min
<1> QED
  BY <1>1, <1>2

\* What is passed over has its time kept, and less space noted.
Lowered(notes, m) ==
  \A v \in Volumes :
    \/ m[v] = notes[v]
    \/ /\ notes[v] # HK!None /\ m[v].time = notes[v].time
       /\ m[v].free < notes[v].free

Skipping(F, list, notes, n) ==
  F = [k \in 0..n |->
         IF k = 0 THEN notes
         ELSE IF HK!Falls(notes, list[k])
              THEN HK!Noted(F[k - 1], list[k], notes[list[k].volume].time)
              ELSE F[k - 1]]

LEMMA SkippedIs ==
  ASSUME DiskConstants, NEW list \in Seq(Found), NEW notes \in [Volumes -> Notes]
  PROVE  /\ HK!Skipped(list, notes) \in [Volumes -> Notes]
         /\ Lowered(notes, HK!Skipped(list, notes))
<1> DEFINE N == IF HK!Passed(list, notes) = 0 THEN Len(list) ELSE HK!Passed(list, notes) - 1
           X == {m \in [Volumes -> Notes] : Lowered(notes, m)}
           skip(m, e) == IF HK!Falls(notes, e) THEN HK!Noted(m, e, notes[e.volume].time)
                         ELSE m
           next == [p \in X \X (1..N) |-> skip(p[1], list[p[2]])]
<1>1. N \in 0..Len(list) /\ N \in Nat /\ \A k \in 1..N : list[k] \in Found /\ k - 1 \in 0..N
  BY PassedIs
<1> HIDE DEF N
<1>2. notes \in X
  BY DEF Lowered
<1>3. ASSUME NEW m \in X, NEW e \in Found PROVE skip(m, e) \in X
  <2>1. CASE ~HK!Falls(notes, e)
    BY <2>1
  <2>2. CASE HK!Falls(notes, e)
    <3>1. /\ e.volume \in Volumes /\ e.free \in 0..MaxFree /\ notes[e.volume] \in Notes
          /\ m \in [Volumes -> Notes] /\ Lowered(notes, m)
      BY DEF Found
    <3>2. /\ notes[e.volume].free \in Nat /\ e.free \in Nat /\ Again \in Nat
          /\ notes[e.volume].free > e.free + Again
      BY <2>2, <3>1 DEF HK!Falls, DiskConstants, Notes
    <3>3. notes[e.volume] # HK!None
      BY <3>2 DEF HK!None
    <3> DEFINE note == HK!Note(e.free, notes[e.volume].time)
    <3>4. note \in Notes /\ note.free = e.free /\ note.time = notes[e.volume].time
      BY <3>1 DEF HK!Note, Notes
    <3>5. skip(m, e) = [m EXCEPT ![e.volume] = note]
      BY <2>2 DEF HK!Noted
    <3> HIDE DEF note, skip
    <3>6. skip(m, e) \in [Volumes -> Notes]
      BY <3>1, <3>4, <3>5
    <3>7. e.free < notes[e.volume].free
      BY <3>2
    <3>8. Lowered(notes, skip(m, e))
      BY <3>1, <3>3, <3>4, <3>5, <3>7 DEF Lowered
    <3> QED
      BY <3>6, <3>8
  <2> QED
    BY <2>1, <2>2
<1>4. next \in [X \X (1..N) -> X]
  <2>1. \A p \in X \X (1..N) : p[1] \in X /\ p[2] \in 1..N
    OBVIOUS
  <2> HIDE DEF X, skip
  <2> QED
    BY <1>1, <1>3, <2>1
<1>5. PICK h : Iteration(h, N, X, notes, next)
  <2> HIDE DEF X, next
  <2> QED
    BY <1>1, <1>2, <1>4, Iterated
<1>6. /\ h \in [0..N -> X] /\ h[0] = notes
      /\ \A k \in 1..N : h[k] = skip(h[k - 1], list[k])
  <2>1. h \in [0..N -> X] /\ h[0] = notes
    BY <1>5 DEF Iteration
  <2>2. ASSUME NEW k \in 1..N PROVE h[k] = skip(h[k - 1], list[k])
    <3>1. h[k - 1] \in X
      BY <1>1, <2>1
    <3>2. h[k] = next[<<h[k - 1], k>>]
      <4> HIDE DEF next, X
      <4> QED
        BY <1>5 DEF Iteration
    <3> HIDE DEF X, skip
    <3> QED
      BY <3>1, <3>2
  <2> QED
    BY <2>1, <2>2
<1>7. Skipping(h, list, notes, N)
  <2>1. h = [k \in 0..N |-> h[k]] /\ \A k \in 0..N : k = 0 \/ k \in 1..N
    BY <1>1, <1>6
  <2> HIDE DEF X
  <2> QED
    BY <1>6, <2>1 DEF Skipping
<1> DEFINE F == CHOOSE F : Skipping(F, list, notes, N)
<1>8. Skipping(F, list, notes, N) /\ HK!Skipped(list, notes) = F[N]
  <2>1. HK!Skipped(list, notes) = F[N]
    BY DEF HK!Skipped, Skipping, N
  <2> QED
    BY <1>7, <2>1
<1> HIDE DEF F
<1>9. F[0] = notes /\ \A k \in 1..N : F[k] = skip(F[k - 1], list[k])
  <2>1. 0 \in 0..N /\ \A k \in 1..N : k \in 0..N /\ k # 0
    BY <1>1
  <2> QED
    BY <1>8, <2>1, Zenon DEF Skipping
<1> DEFINE T == {k \in 0..N : F[k] \notin X}
<1>10. T = {}
  <2> SUFFICES ASSUME T # {} PROVE FALSE
    OBVIOUS
  <2>1. PICK k \in T : \A m \in T : k <= m
    <3>1. T \subseteq Nat
      BY <1>1
    <3> HIDE DEF T
    <3> QED
      BY <3>1, LeastNumber
  <2>2. k # 0
    BY <1>2, <1>9
  <2>3. k \in 1..N /\ k - 1 \in 0..N /\ ~(k <= k - 1) /\ list[k] \in Found
    BY <1>1, <2>2
  <2>4. F[k - 1] \in X
    BY <2>1, <2>3
  <2>5. F[k] \in X
    <3>1. F[k] = skip(F[k - 1], list[k])
      BY <1>9, <2>3
    <3> HIDE DEF X, skip
    <3> QED
      BY <1>3, <2>3, <2>4, <3>1
  <2> QED
    BY <2>5
<1>11. F[N] \in X
  BY <1>1, <1>10
<1> QED
  BY <1>8, <1>11

\* What is noted is from before, and what the user was told of is noted, no
\* earlier and with no more space.
Agree(notes, told) ==
  \A v \in Volumes :
    /\ notes[v] # HK!None => notes[v].time <= disksClock
    /\ told[v] # HK!None =>
         /\ notes[v] # HK!None /\ told[v].time <= notes[v].time
         /\ notes[v].free <= told[v].free
Either(notes, told, quiet) ==
  \A v \in Volumes : notes[v] # HK!None => told[v] # HK!None \/ v \in quiet

DisksInv ==
  /\ stray \in BOOLEAN /\ free \in [Volumes -> 0..MaxFree] /\ mounted \subseteq Volumes
  /\ notified \in [Volumes -> Notes] /\ disksTold \in [Volumes -> Notes]
  /\ rest \in Seq(Found) /\ disksClock \in 0..DiskTime
  /\ Agree(notified, disksTold) /\ nagged = FALSE
  /\ HK!LowIsTold /\ HK!StopsForGood

LEMMA DisksStart == DiskConstants /\ HK!DiskInit => DisksInv
<1> SUFFICES ASSUME DiskConstants, HK!DiskInit PROVE DisksInv
  OBVIOUS
<1>1. /\ MaxFree \in Nat /\ DiskTime \in Nat
      /\ mounted = Volumes /\ free = [v \in Volumes |-> MaxFree]
      /\ notified = HK!Nobody /\ disksTold = HK!Nobody /\ rest = <<>>
      /\ nagged = FALSE /\ stray = FALSE /\ disksClock = 0
      /\ disksTimer = FALSE /\ shown = HK!NoVolume
  BY DEF DiskConstants, HK!DiskInit
<1>2. HK!None \in Notes /\ HK!Nobody = [v \in Volumes |-> HK!None]
  BY <1>1 DEF HK!None, HK!Nobody, Notes
<1>3. notified \in [Volumes -> Notes] /\ \A v \in Volumes : notified[v] = HK!None
  BY <1>1, <1>2
<1>4. Agree(notified, disksTold) /\ HK!LowIsTold
  BY <1>1, <1>3 DEF Agree, HK!LowIsTold
<1>5. HK!StopsForGood
  BY <1>1, Zenon DEF HK!StopsForGood
<1>6. free \in [Volumes -> 0..MaxFree] /\ rest \in Seq(Found) /\ disksClock \in 0..DiskTime
  BY <1>1
<1>7. stray \in BOOLEAN /\ mounted \subseteq Volumes /\ nagged = FALSE
  BY <1>1
<1> QED
  BY <1>1, <1>2, <1>3, <1>4, <1>5, <1>6, <1>7 DEF DisksInv

\* Volumes that are forgotten are forgotten in the history too.
LEMMA ForgetIs ==
  ASSUME DiskConstants, DisksInv, NEW notes \in [Volumes -> Notes],
         \A v \in Volumes : notes[v] \in {HK!None, notified[v]}
  PROVE  /\ HK!StillNoted(notes, disksTold) \in [Volumes -> Notes]
         /\ Agree(notes, HK!StillNoted(notes, disksTold))
         /\ Either(notes, HK!StillNoted(notes, disksTold),
                   {v \in disksMuted : notes[v] # HK!None})
<1> DEFINE history == HK!StillNoted(notes, disksTold)
<1>1. HK!None \in Notes
  BY DEF DiskConstants, HK!None, Notes
<1>2. \A v \in Volumes :
        history[v] = IF notes[v] = HK!None THEN HK!None ELSE disksTold[v]
  BY DEF HK!StillNoted
<1>3. history \in [Volumes -> Notes]
  BY <1>1 DEF HK!StillNoted, DisksInv
<1> HIDE DEF history
<1>4. Agree(notes, history)
  BY <1>2 DEF Agree, DisksInv
<1>5. Either(notes, history, {v \in disksMuted : notes[v] # HK!None})
  BY <1>2 DEF Either, DisksInv, HK!LowIsTold
<1> QED
  BY <1>3, <1>4, <1>5 DEF history

\* What is passed over stays in agreement.
LEMMA LoweredAgrees ==
  ASSUME DiskConstants, NEW notes \in [Volumes -> Notes], NEW m \in [Volumes -> Notes],
         NEW told \in [Volumes -> Notes], NEW quiet, disksClock \in 0..DiskTime,
         Lowered(notes, m), Agree(notes, told), Either(notes, told, quiet)
  PROVE  Agree(m, told) /\ Either(m, told, quiet)
<1> SUFFICES ASSUME NEW v \in Volumes
             PROVE  /\ m[v] # HK!None =>
                         /\ m[v].time <= disksClock
                         /\ told[v] # HK!None \/ v \in quiet
                    /\ told[v] # HK!None =>
                         /\ m[v] # HK!None /\ told[v].time <= m[v].time
                         /\ m[v].free <= told[v].free
  BY DEF Agree, Either
<1>1. CASE m[v] = notes[v]
  BY <1>1 DEF Agree, Either
<1>2. CASE /\ notes[v] # HK!None /\ m[v].time = notes[v].time
           /\ m[v].free < notes[v].free
  <2>1. /\ disksClock \in Nat /\ DiskTime \in Nat /\ MaxFree \in Nat
        /\ disksClock <= DiskTime /\ HK!None.time = DiskTime + 1
        /\ m[v].free \in Nat /\ notes[v].free \in Nat /\ told[v].free \in Nat
        /\ m[v].time \in Nat
    BY DEF DiskConstants, HK!None, Notes
  <2>2. notes[v].time <= disksClock
    BY <1>2 DEF Agree
  <2>3. m[v] # HK!None
    BY <1>2, <2>1, <2>2
  <2>4. told[v] # HK!None \/ v \in quiet
    BY <1>2 DEF Either
  <2>5. told[v] # HK!None => told[v].time <= notes[v].time /\ notes[v].free <= told[v].free
    BY DEF Agree
  <2> QED
    BY <1>2, <2>1, <2>2, <2>3, <2>4, <2>5
<1> QED
  BY <1>1, <1>2 DEF Lowered

\* One that is to be told of: nobody was told of it too lately, and it may be
\* told of or, while something else is shown, be noted.
LEMMA ToldAgrees ==
  ASSUME DiskConstants, NEW notes \in [Volumes -> Notes], NEW m \in [Volumes -> Notes],
         NEW told \in [Volumes -> Notes], NEW quiet, disksClock \in 0..DiskTime,
         Lowered(notes, m), Agree(notes, told), Either(notes, told, quiet),
         NEW e \in Found, HK!Shows(notes, e)
  PROVE  LET noted == HK!Noted(m, e, disksClock)
             now == [told EXCEPT ![e.volume] = HK!Note(e.free, disksClock)]
         IN /\ noted \in [Volumes -> Notes] /\ now \in [Volumes -> Notes]
            /\ Agree(noted, told) /\ Either(noted, told, quiet \cup {e.volume})
            /\ Agree(noted, now) /\ Either(noted, now, quiet)
            /\ ~HK!TooSoon(told[e.volume], e)
<1> DEFINE noted == HK!Noted(m, e, disksClock)
           now == [told EXCEPT ![e.volume] = HK!Note(e.free, disksClock)]
           u == e.volume
           note == HK!Note(e.free, disksClock)
<1>1. /\ disksClock \in Nat /\ DiskTime \in Nat /\ MaxFree \in Nat /\ Again \in Nat
      /\ Period \in Nat /\ disksClock <= DiskTime /\ HK!None.time = DiskTime + 1
      /\ HK!None.free = 0 /\ u \in Volumes /\ e.free \in 0..MaxFree /\ e.free \in Nat
  BY DEF DiskConstants, HK!None, Found
<1>2. note \in Notes /\ note.free = e.free /\ note.time = disksClock
  BY <1>1 DEF HK!Note, Notes
<1>3. note # HK!None
  BY <1>1, <1>2
<1>4. noted = [m EXCEPT ![u] = note] /\ now = [told EXCEPT ![u] = note]
  BY DEF HK!Noted
<1> HIDE DEF noted, now, note
<1>5. /\ noted \in [Volumes -> Notes] /\ now \in [Volumes -> Notes]
      /\ noted[u] = note /\ now[u] = note
      /\ \A v \in Volumes : v # u => noted[v] = m[v] /\ now[v] = told[v]
  BY <1>1, <1>2, <1>4
<1>6. Agree(m, told) /\ Either(m, told, quiet)
  BY LoweredAgrees
<1>7. /\ notes[u].free \in Nat /\ notes[u].time \in Nat /\ told[u].free \in Nat
      /\ told[u].time \in Nat
  BY <1>1 DEF Notes
<1>8. told[u] # HK!None =>
        /\ told[u].time <= notes[u].time /\ notes[u].free <= told[u].free
        /\ notes[u].free > e.free + Again /\ disksClock > notes[u].time + Period
  BY <1>1 DEF Agree, HK!Shows, HK!Falls
<1>9. told[u] # HK!None => told[u].time <= note.time /\ note.free <= told[u].free
  BY <1>1, <1>2, <1>7, <1>8
<1>10. Agree(noted, told) /\ Either(noted, told, quiet \cup {u})
  BY <1>1, <1>2, <1>3, <1>5, <1>6, <1>9 DEF Agree, Either
<1>11. Agree(noted, now) /\ Either(noted, now, quiet)
  BY <1>1, <1>2, <1>3, <1>5, <1>6 DEF Agree, Either
<1>12. ~HK!TooSoon(told[u], e)
  BY <1>1, <1>7, <1>8 DEF HK!TooSoon
<1> QED
  BY <1>5, <1>10, <1>11, <1>12 DEF noted, now

\* What a check leaves in the notes, the history and the dialog.
Checks(quiet) ==
  /\ notified' \in [Volumes -> Notes] /\ disksTold' \in [Volumes -> Notes]
  /\ Agree(notified', disksTold') /\ Either(notified', disksTold', quiet)
  /\ rest' \in Seq(Found) /\ nagged' = FALSE

LEMMA WarnStep ==
  ASSUME DiskConstants, DisksInv, NEW list \in Seq(Found), NEW caller,
         NEW notes \in [Volumes -> Notes],
         \A v \in Volumes : notes[v] \in {HK!None, notified[v]},
         HK!Warn(list, notes, caller)
  PROVE  Checks(disksMuted')
<1> DEFINE at == HK!Passed(list, notes)
           e == list[at]
           busy == shown # HK!NoVolume
           history == HK!StillNoted(notes, disksTold)
           quiet == {v \in disksMuted : notes[v] # HK!None}
           m == HK!Skipped(list, notes)
           now == [history EXCEPT ![e.volume] = HK!Note(e.free, disksClock)]
<1>0. disksClock \in 0..DiskTime /\ rest \in Seq(Found) /\ nagged = FALSE
  BY DEF DisksInv
<1>1. /\ history \in [Volumes -> Notes] /\ Agree(notes, history)
      /\ Either(notes, history, quiet)
  BY ForgetIs
<1>2. m \in [Volumes -> Notes] /\ Lowered(notes, m)
  BY SkippedIs
<1>3. at \in 0..Len(list) /\ (at # 0 => HK!Shows(notes, e))
  BY PassedIs
<1>4. CASE at = 0
  <2>1. /\ notified' = m /\ disksTold' = history /\ disksMuted' = quiet /\ nagged' = nagged
        /\ rest' = IF busy THEN rest ELSE <<>>
    BY <1>4 DEF HK!Warn
  <2> HIDE DEF m, history, quiet, busy
  <2>2. Agree(m, history) /\ Either(m, history, quiet)
    BY <1>0, <1>1, <1>2, LoweredAgrees
  <2>3. rest' \in Seq(Found)
    BY <1>0, <2>1
  <2> QED
    BY <1>0, <1>1, <1>2, <2>1, <2>2, <2>3 DEF Checks
<1>5. CASE at # 0
  <2>1. /\ notified' = HK!Noted(m, e, disksClock)
        /\ disksMuted' = quiet \cup (IF busy THEN {e.volume} ELSE {})
        /\ disksTold' = IF busy THEN history ELSE now
        /\ nagged' = (nagged \/ (~busy /\ HK!TooSoon(history[e.volume], e)))
        /\ rest' = IF busy THEN rest
                   ELSE IF hasActions THEN <<>> ELSE SubSeq(list, at + 1, Len(list))
    BY <1>5 DEF HK!Warn
  <2>2. at \in 1..Len(list) /\ e \in Found
    BY <1>3, <1>5
  <2>3. rest' \in Seq(Found)
    <3>1. <<>> \in Seq(Found) /\ SubSeq(list, at + 1, Len(list)) \in Seq(Found)
      BY <2>2
    <3> QED
      BY <1>0, <2>1, <3>1
  <2> HIDE DEF m, history, quiet, busy, e
  <2>4. /\ HK!Noted(m, e, disksClock) \in [Volumes -> Notes] /\ now \in [Volumes -> Notes]
        /\ Agree(HK!Noted(m, e, disksClock), history)
        /\ Either(HK!Noted(m, e, disksClock), history, quiet \cup {e.volume})
        /\ Agree(HK!Noted(m, e, disksClock), now)
        /\ Either(HK!Noted(m, e, disksClock), now, quiet)
        /\ ~HK!TooSoon(history[e.volume], e)
    BY <1>0, <1>1, <1>2, <1>3, <1>5, <2>2, ToldAgrees
  <2>5. nagged' = FALSE
    BY <1>0, <2>1, <2>4, Zenon
  <2> HIDE DEF now
  <2>6. CASE busy
    BY <1>1, <2>1, <2>3, <2>4, <2>5, <2>6 DEF Checks
  <2>7. CASE ~busy
    <3>1. disksMuted' = quiet
      BY <2>1, <2>7
    <3> QED
      BY <2>1, <2>3, <2>4, <2>5, <2>7, <3>1 DEF Checks
  <2> QED
    BY <2>6, <2>7
<1> QED
  BY <1>4, <1>5

\* With the rest as it was.
LEMMA ChecksHold ==
  ASSUME DisksInv, Checks(disksMuted'), HK!StopsForGood', UNCHANGED stray,
         disksClock' = disksClock, free' = free, mounted' = mounted
  PROVE  DisksInv'
<1>1. Agree(notified, disksTold)' /\ HK!LowIsTold'
  BY DEF Checks, Agree, Either, HK!LowIsTold, HK!None
<1> QED
  BY <1>1 DEF Checks, DisksInv

LEMMA AnswerStep ==
  ASSUME DiskConstants, DisksInv, HK!Answer
  PROVE  DisksInv'
<1>0. /\ disksClock \in 0..DiskTime /\ rest \in Seq(Found) /\ nagged = FALSE
      /\ notified \in [Volumes -> Notes] /\ disksTold \in [Volumes -> Notes]
      /\ Agree(notified, disksTold) /\ Either(notified, disksTold, disksMuted)
  BY DEF DisksInv, HK!LowIsTold, Either
<1>1. /\ shown # HK!NoVolume /\ disksMuted' = disksMuted
      /\ UNCHANGED <<disksRunning, disksTimer, free, mounted, stray, disksClock>>
  BY DEF HK!Answer, HK!disks
<1>2. disksRunning /\ HK!StopsForGood'
  BY <1>1 DEF DisksInv, HK!StopsForGood
<1> DEFINE at == HK!Passed(rest, notified)
           e == rest[at]
           m == HK!Skipped(rest, notified)
           now == [disksTold EXCEPT ![e.volume] = HK!Note(e.free, disksClock)]
<1>3. m \in [Volumes -> Notes] /\ Lowered(notified, m)
  BY <1>0, SkippedIs
<1>4. at \in 0..Len(rest) /\ (at # 0 => HK!Shows(notified, e))
  BY <1>0, PassedIs
<1>5. CASE rest' = <<>> /\ UNCHANGED <<notified, disksTold, nagged>>
  <2>1. Checks(disksMuted')
    BY <1>0, <1>1, <1>5 DEF Checks
  <2> QED
    BY <1>1, <1>2, <2>1, ChecksHold
<1>6. CASE notified' = m /\ rest' = <<>> /\ UNCHANGED <<disksTold, nagged>>
  <2> HIDE DEF m
  <2>1. Agree(m, disksTold) /\ Either(m, disksTold, disksMuted)
    BY <1>0, <1>3, LoweredAgrees
  <2>2. Checks(disksMuted')
    BY <1>0, <1>1, <1>3, <1>6, <2>1 DEF Checks
  <2> QED
    BY <1>1, <1>2, <2>2, ChecksHold
<1>7. CASE /\ at # 0 /\ rest' = SubSeq(rest, at + 1, Len(rest))
           /\ notified' = HK!Noted(m, e, disksClock) /\ disksTold' = now
           /\ nagged' = (nagged \/ HK!TooSoon(disksTold[e.volume], e))
  <2>1. at \in 1..Len(rest) /\ e \in Found
    BY <1>0, <1>4, <1>7
  <2>2. rest' \in Seq(Found)
    BY <1>0, <1>7, <2>1
  <2> HIDE DEF m, e
  <2>3. /\ HK!Noted(m, e, disksClock) \in [Volumes -> Notes] /\ now \in [Volumes -> Notes]
        /\ Agree(HK!Noted(m, e, disksClock), now)
        /\ Either(HK!Noted(m, e, disksClock), now, disksMuted)
        /\ ~HK!TooSoon(disksTold[e.volume], e)
    BY <1>0, <1>3, <1>4, <1>7, <2>1, ToldAgrees
  <2>4. nagged' = FALSE
    BY <1>0, <1>7, <2>3, Zenon
  <2> HIDE DEF now
  <2>5. Checks(disksMuted')
    BY <1>0, <1>1, <1>7, <2>2, <2>3, <2>4 DEF Checks
  <2> QED
    BY <1>1, <1>2, <2>5, ChecksHold
<1> QED
  BY <1>5, <1>6, <1>7 DEF HK!Answer

\* What is ignored is forgotten.
LEMMA IgnoreStep ==
  ASSUME DiskConstants, DisksInv, disksRunning,
         notified' = [v \in Volumes |-> IF v \in ignored' THEN HK!None ELSE notified[v]],
         disksTold' = HK!StillNoted(notified', disksTold), disksMuted' = disksMuted \ ignored',
         UNCHANGED <<disksRunning, disksTimer, mounted, free, rest, nagged, stray, disksClock>>
  PROVE  DisksInv'
<1>1. HK!None \in Notes /\ notified \in [Volumes -> Notes]
  BY DEF DiskConstants, DisksInv, HK!None, Notes
<1>2. /\ notified' \in [Volumes -> Notes]
      /\ \A v \in Volumes : /\ notified'[v] \in {HK!None, notified[v]}
                            /\ notified'[v] # HK!None => v \notin ignored'
  BY <1>1
<1>3. /\ disksTold' \in [Volumes -> Notes] /\ Agree(notified', disksTold')
      /\ Either(notified', disksTold', {v \in disksMuted : notified'[v] # HK!None})
  BY <1>2, ForgetIs
<1>4. Either(notified', disksTold', disksMuted')
  BY <1>2, <1>3 DEF Either
<1>5. HK!StopsForGood'
  BY DEF HK!StopsForGood
<1>6. Checks(disksMuted')
  BY <1>2, <1>3, <1>4 DEF Checks, DisksInv
<1> QED
  BY <1>5, <1>6, ChecksHold

LEMMA DisksStep ==
  ASSUME DiskConstants, DisksInv, HK!DiskNext \/ UNCHANGED disksVars
  PROVE  DisksInv'
<1>0. /\ stray \in BOOLEAN /\ free \in [Volumes -> 0..MaxFree] /\ mounted \subseteq Volumes
      /\ notified \in [Volumes -> Notes] /\ disksTold \in [Volumes -> Notes]
      /\ rest \in Seq(Found) /\ disksClock \in 0..DiskTime
      /\ Agree(notified, disksTold) /\ nagged = FALSE
      /\ HK!LowIsTold /\ HK!StopsForGood
  BY DEF DisksInv
<1>1. HK!None \in Notes /\ MaxFree \in Nat /\ DiskTime \in Nat
  BY DEF DiskConstants, HK!None, Notes
<1>2. HK!FullMounts \in Seq(Found)
  BY <1>0, FullMountsIs
<1>3. ASSUME NEW notes \in [Volumes -> Notes], NEW caller, HK!CheckAll(notes, caller),
             \A v \in Volumes : notes[v] \in {HK!None, notified[v]}, disksRunning,
             UNCHANGED <<disksRunning, disksTimer, mounted, free, stray, disksClock>>
      PROVE  DisksInv'
  <2> DEFINE left == [v \in Volumes |-> IF v \in HK!Checked
                        /\ HK!HasSpace(v) THEN HK!None ELSE notes[v]]
  <2>1. left \in [Volumes -> Notes] /\ \A v \in Volumes : left[v] \in {HK!None, notified[v]}
    BY <1>1, <1>3
  <2>2. HK!Warn(HK!FullMounts, left, caller)
    BY <1>3 DEF HK!CheckAll
  <2> HIDE DEF left
  <2>3. Checks(disksMuted')
    BY <1>2, <2>1, <2>2, WarnStep
  <2>4. HK!StopsForGood'
    BY <1>3 DEF HK!StopsForGood
  <2> QED
    BY <1>3, <2>3, <2>4, ChecksHold
<1>4. CASE HK!Timeout
  BY <1>0, <1>3, <1>4 DEF HK!Timeout, HK!disks
<1>5. CASE HK!MountsChanged
  <2> DEFINE notes == [v \in Volumes |-> IF v \in mounted THEN notified[v] ELSE HK!None]
  <2>1. /\ disksRunning /\ HK!CheckAll(notes, "mounts")
        /\ UNCHANGED <<disksRunning, disksTimer, mounted, free, stray, disksClock>>
    BY <1>5 DEF HK!MountsChanged
  <2>2. notes \in [Volumes -> Notes] /\ \A v \in Volumes : notes[v] \in {HK!None, notified[v]}
    BY <1>0, <1>1
  <2> HIDE DEF notes
  <2> QED
    BY <1>3, <2>1, <2>2
<1>6. ASSUME UNCHANGED <<notified, disksTold, disksMuted, rest, nagged>>,
             HK!StopsForGood', stray' \in BOOLEAN,
             free' \in [Volumes -> 0..MaxFree], mounted' \subseteq Volumes,
             disksClock' \in 0..DiskTime, disksClock <= disksClock'
      PROVE  DisksInv'
  <2>1. \A v \in Volumes : notified[v].time \in Nat /\ disksClock \in Nat /\ disksClock' \in Nat
    BY <1>0, <1>1, <1>6 DEF Notes
  <2>2. Agree(notified, disksTold)'
    BY <1>0, <1>6, <2>1 DEF Agree, HK!None
  <2>3. HK!LowIsTold'
    BY <1>0, <1>6 DEF HK!LowIsTold, HK!None
  <2> QED
    BY <1>0, <1>6, <2>2, <2>3 DEF DisksInv
<1>7. CASE HK!Closed
  <2>1. /\ shown # HK!NoVolume /\ shown' = HK!NoVolume
        /\ UNCHANGED <<notified, disksTold, disksMuted, rest, nagged, stray, free, mounted,
                       disksClock, disksRunning, disksTimer>>
    BY <1>7 DEF HK!Closed, HK!disks
  <2>2. HK!StopsForGood'
    BY <1>0, <2>1 DEF HK!StopsForGood, HK!NoVolume
  <2> QED
    BY <1>0, <1>6, <2>1, <2>2
<1>8. CASE HK!Toggle
  BY <1>8, IgnoreStep DEF HK!Toggle
<1>9. CASE HK!Setup
  <2>1. /\ UNCHANGED <<notified, disksTold, disksMuted, rest, nagged, stray, free, mounted,
                       disksClock, shown>>
        /\ IF disksTimer THEN UNCHANGED <<disksRunning, disksTimer>>
           ELSE disksRunning' = TRUE /\ disksTimer' = TRUE
    BY <1>9 DEF HK!Setup, HK!disks, HK!checks
  <2>2. HK!StopsForGood'
    BY <1>0, <2>1 DEF HK!StopsForGood, HK!NoVolume, HK!Nobody, HK!None
  <2> QED
    BY <1>0, <1>6, <2>1, <2>2
<1>10. CASE HK!Clean
  <2>1. /\ stray' = (~hasActions /\ shown # HK!NoVolume /\ from = "mounts")
        /\ disksTimer' = stray' /\ disksRunning' = FALSE
        /\ notified' = HK!Nobody /\ disksTold' = HK!Nobody /\ shown' = HK!NoVolume
        /\ rest' = <<>> /\ UNCHANGED <<free, mounted, nagged, disksClock>>
    BY <1>10 DEF HK!Clean, HK!disks
  <2>2. stray' \in BOOLEAN
    BY <2>1
  <2>3. HK!StopsForGood'
    BY <2>1 DEF HK!StopsForGood, HK!NoVolume, HK!Nobody, HK!None
  <2>4. HK!Nobody \in [Volumes -> Notes] /\ \A v \in Volumes : HK!Nobody[v] = HK!None
    BY <1>1 DEF HK!Nobody
  <2>5. Agree(notified, disksTold)' /\ HK!LowIsTold'
    BY <2>1, <2>4 DEF Agree, HK!LowIsTold, HK!None
  <2>6. rest' \in Seq(Found) /\ nagged' = FALSE
    BY <1>0, <2>1
  <2> QED
    BY <1>0, <2>1, <2>2, <2>3, <2>4, <2>5, <2>6 DEF DisksInv
<1>11. CASE HK!TimePasses
  <2>1. /\ UNCHANGED <<notified, disksTold, disksMuted, rest, nagged, stray, free, mounted,
                       disksRunning, disksTimer, shown>>
        /\ disksClock < DiskTime /\ disksClock' = disksClock + 1
    BY <1>11 DEF HK!TimePasses, HK!disks, HK!checks
  <2>2. HK!StopsForGood'
    BY <1>0, <2>1 DEF HK!StopsForGood, HK!NoVolume, HK!Nobody, HK!None
  <2> QED
    BY <1>0, <1>1, <1>6, <2>1, <2>2
<1>12. ASSUME NEW v \in Volumes, HK!Ignore(v) PROVE DisksInv'
  BY <1>12, IgnoreStep DEF HK!Ignore
<1>13. ASSUME NEW v \in Volumes, HK!Use(v) PROVE DisksInv'
  <2>1. /\ UNCHANGED <<notified, disksTold, disksMuted, rest, nagged, stray, mounted,
                       disksRunning, disksTimer, shown, disksClock>>
        /\ free' \in {[free EXCEPT ![v] = f] : f \in 0..MaxFree \ {free[v]}}
    BY <1>13 DEF HK!Use, HK!checks
  <2>2. HK!StopsForGood'
    BY <1>0, <2>1 DEF HK!StopsForGood, HK!NoVolume, HK!Nobody, HK!None
  <2>3. free' \in [Volumes -> 0..MaxFree]
    BY <1>0, <2>1
  <2> QED
    BY <1>0, <1>6, <2>1, <2>2, <2>3
<1>14. ASSUME NEW v \in Volumes, HK!Remount(v) PROVE DisksInv'
  <2>1. /\ UNCHANGED <<notified, disksTold, disksMuted, rest, nagged, stray, free,
                       disksRunning, disksTimer, shown, disksClock>>
        /\ mounted' = IF v \in mounted THEN mounted \ {v} ELSE mounted \cup {v}
    BY <1>14 DEF HK!Remount, HK!checks
  <2>2. HK!StopsForGood'
    BY <1>0, <2>1 DEF HK!StopsForGood, HK!NoVolume, HK!Nobody, HK!None
  <2> QED
    BY <1>0, <1>6, <2>1, <2>2
<1>15. CASE UNCHANGED disksVars
  <2>1. UNCHANGED <<notified, disksTold, disksMuted, rest, nagged, stray, free, mounted,
                    disksRunning, disksTimer, shown, disksClock>>
    BY <1>15 DEF disksVars
  <2>2. HK!StopsForGood'
    BY <1>0, <2>1 DEF HK!StopsForGood, HK!NoVolume, HK!Nobody, HK!None
  <2> QED
    BY <1>0, <1>6, <2>1, <2>2
<1> QED
  BY <1>4, <1>5, <1>7, <1>8, <1>9, <1>10, <1>11, <1>12, <1>13, <1>14, <1>15, AnswerStep
  DEF HK!DiskNext

(***************************************************************************)
(* The parts together: the one that moves keeps its invariant              *)
(***************************************************************************)

LEMMA PartMoves ==
  ASSUME [UNCHANGED focus /\ UpkeepNext]_<<focus, upkeepVars>>
  PROVE  /\ focus' = focus
         /\ focus = "disks" => HK!DiskNext \/ UNCHANGED disksVars
         /\ focus = "purge" => HK!PurgeNext \/ UNCHANGED purgeVars
         /\ focus = "thumbs" => HK!ThumbNext \/ UNCHANGED thumbsVars
         /\ focus = "cups" => PN!CupsNext \/ UNCHANGED cupsVars
         /\ focus = "newprinters" => NP!NameNext \/ UNCHANGED newprintersVars
         /\ focus = "setup" => NP!SetupNext \/ UNCHANGED setupVars
<1>1. CASE UNCHANGED focus /\ UpkeepNext
  BY <1>1, Zenon DEF UpkeepNext
<1>2. CASE UNCHANGED <<focus, upkeepVars>>
  BY <1>2, Zenon DEF upkeepVars
<1> QED
  BY <1>1, <1>2

\* The user is told of each volume that is low, once; nothing is deleted that is
\* young or was changed, and what is kept keeps to its limits; CUPS is asked once;
\* a new printer is announced to one who answers, and whoever plugs it in gets a
\* queue or is told why not.  Whatever volumes, files, thumbnails, sessions and
\* devices there are, and for any limits.
THEOREM NothingIsLost == UpkeepSpec => []NothingLost
<1> DEFINE D == focus = "disks" => DisksInv
           P == focus = "purge" => PurgeInv
           T == focus = "thumbs" => ThumbsInv
           C == focus = "cups" => CupsInv
           N == focus = "newprinters" => NamesInv
           Q == focus = "setup" => QueuesInv
           Step == UNCHANGED focus /\ UpkeepNext
<1>0. DiskConstants /\ ThumbConstants /\ Tree /\ MaxNumber \in Nat
  BY UpkeepAssumption, FilesInTree
<1>1. D /\ P /\ T /\ C /\ N /\ Q => NothingLost
  <2>1. DisksInv => HK!NotNagged /\ HK!LowIsTold /\ HK!StopsForGood
    BY Zenon DEF DisksInv, HK!NotNagged
  <2>2. PurgeInv => HK!YoungKept
    BY Zenon DEF PurgeInv, HK!YoungKept
  <2>3. ThumbsInv => HK!LimitsKept
    BY Zenon DEF ThumbsInv
  <2>4. QueuesInv => NP!QueueOrTold
    BY Zenon DEF QueuesInv
  <2> QED
    BY <2>1, <2>2, <2>3, <2>4, CupsHolds, NamesHold, Zenon DEF NothingLost
<1>2. UpkeepInit => D /\ P /\ T /\ C /\ N /\ Q
  BY <1>0, DisksStart, PurgeStart, ThumbsStart, CupsStart, NamesStart, QueuesStart, Zenon
     DEF UpkeepInit
<1>3. D /\ P /\ T /\ C /\ N /\ Q /\ [Step]_<<focus, upkeepVars>> => (D /\ P /\ T /\ C /\ N /\ Q)'
  <2> SUFFICES ASSUME D, P, T, C, N, Q, [Step]_<<focus, upkeepVars>>
               PROVE  D' /\ P' /\ T' /\ C' /\ N' /\ Q'
    OBVIOUS
  <2>1. /\ focus' = focus
        /\ focus = "disks" => HK!DiskNext \/ UNCHANGED disksVars
        /\ focus = "purge" => HK!PurgeNext \/ UNCHANGED purgeVars
        /\ focus = "thumbs" => HK!ThumbNext \/ UNCHANGED thumbsVars
        /\ focus = "cups" => PN!CupsNext \/ UNCHANGED cupsVars
        /\ focus = "newprinters" => NP!NameNext \/ UNCHANGED newprintersVars
        /\ focus = "setup" => NP!SetupNext \/ UNCHANGED setupVars
    BY PartMoves, Zenon
  <2>2. D'
    BY <1>0, <2>1, DisksStep
  <2>3. P'
    BY <1>0, <2>1, PurgeStep
  <2>4. T'
    BY <1>0, <2>1, ThumbsStep
  <2>5. C'
    BY <2>1, CupsStep
  <2>6. N'
    BY <2>1, NamesStep
  <2>7. Q'
    BY <1>0, <2>1, QueuesStep
  <2> QED
    BY <2>2, <2>3, <2>4, <2>5, <2>6, <2>7
<1> QED
  BY <1>1, <1>2, <1>3, PTL DEF UpkeepSpec
=============================================================================
