------------------------- MODULE PowerBatteryProofs -------------------------
(***************************************************************************)
(* That no battery alarm lasts on AC, for any set of devices and any order *)
(* of UPower's signals, and that no warning about a battery is lost on a   *)
(* machine with one battery.                                               *)
(*                                                                         *)
(* The first invariant is inductive by itself: each of the two handlers    *)
(* that could break it looks at the plugin's own copy of on-battery, never *)
(* at the power source itself.  The second needs AllSaid, which holds on   *)
(* AC too: a warning that is ignored there is never one worth announcing,  *)
(* as the battery is charging or full.                                     *)
(***************************************************************************)
EXTENDS PowerBattery, FiniteSetTheorems, TLAPS

\* What an announcement may leave behind while the plugin is on AC.
LEMMA NoAnnouncementOnAc ==
  ASSUME NEW x, NEW w, NEW before, ~onBattery, before.kind # "BATTERY",
         NEW n \in NoticeAfter(x, w, before)
  PROVE  /\ n.kind # "BATTERY"
         /\ Announces(x, w) => KindOf(x) # "BATTERY"
BY DEF NoticeAfter, Announces, Ignored, NoNotice

LEMMA QuietDeviceChanged ==
  ASSUME NEW d \in Devices, NoBatteryAlarmOnAc, DeviceChanged(d)
  PROVE  NoBatteryAlarmOnAc'
<1> DEFINE s == [seen EXCEPT ![d] = Real(d)]
           x == Subject(d, present)
           state == StateOf(x, present, s)
           w == WarningOf(x, present, s)
           kept == IF stateOld[x] # state /\ state = "FULL"
                     THEN NoNotice ELSE notice
<1> SUFFICES ASSUME ~onBattery'
             PROVE  loop' # "BATTERY" /\ notice'.kind # "BATTERY"
  BY DEF NoBatteryAlarmOnAc
<1>1. ~onBattery /\ loop # "BATTERY" /\ notice.kind # "BATTERY"
  BY DEF NoBatteryAlarmOnAc, DeviceChanged
<1>2. kept.kind # "BATTERY"
  BY <1>1 DEF NoNotice
<1>3. \/ notice' \in NoticeAfter(x, w, kept) /\ Charge(x, w)
      \/ notice' = kept /\ loop' = loop
  BY DEF DeviceChanged
<1> HIDE DEF x, w, kept
<1>4. CASE notice' \in NoticeAfter(x, w, kept) /\ Charge(x, w)
  <2>1. notice'.kind # "BATTERY" /\ (Announces(x, w) => KindOf(x) # "BATTERY")
    BY <1>1, <1>2, <1>4, NoAnnouncementOnAc
  <2>2. loop' # "BATTERY"
    BY <1>1, <1>4, <2>1 DEF Charge
  <2>3. QED BY <2>1, <2>2
<1>5. CASE notice' = kept /\ loop' = loop
  BY <1>1, <1>2, <1>5
<1>6. QED BY <1>3, <1>4, <1>5

\* While the plugin takes the machine to be on AC, the sound loop for a
\* battery is silent and no notice about one shows, whichever devices there
\* are and in whichever order their signals and the client's arrive.
THEOREM AcIsQuiet == Spec => []NoBatteryAlarmOnAc
<1>1. Init => NoBatteryAlarmOnAc
  BY DEF Init, NoBatteryAlarmOnAc, NoNotice
<1>2. NoBatteryAlarmOnAc /\ [Next]_vars => NoBatteryAlarmOnAc'
  <2> SUFFICES ASSUME NoBatteryAlarmOnAc, [Next]_vars
               PROVE  NoBatteryAlarmOnAc'
    OBVIOUS
  <2> USE DEF NoBatteryAlarmOnAc
  <2>1. CASE PlugOrUnplug \/ EnergyChanges
    BY <2>1 DEF PlugOrUnplug, EnergyChanges, engine
  <2>2. ASSUME NEW d \in Devices, DeviceChanged(d) PROVE NoBatteryAlarmOnAc'
    BY <2>2, QuietDeviceChanged
  <2>3. CASE UpClientChanged
    BY <2>3 DEF UpClientChanged, NoNotice
  <2>4. CASE DeviceAdded \/ DeviceRemoved
    BY <2>4 DEF DeviceAdded, DeviceRemoved, engine
  <2>5. CASE CriticalAction
    BY <2>5 DEF CriticalAction
  <2>6. CASE NoticesClose
    BY <2>6 DEF NoticesClose, NoNotice
  <2>7. CASE UNCHANGED vars
    BY <2>7 DEF vars, engine
  <2>8. QED BY <2>1, <2>2, <2>3, <2>4, <2>5, <2>6, <2>7 DEF Next
<1>3. QED BY <1>1, <1>2, PTL DEF Spec
-----------------------------------------------------------------------------
(* Types                                                                   *)

LEMMA RealIs ==
  ASSUME energy \in [Devices -> 0 .. Full], NEW d \in Devices
  PROVE  Real(d) \in [energy : 0 .. Full, state : States]
BY DEF Real, States

LEMMA WarningIs ==
  ASSUME NEW kind, NEW state, NEW percent
  PROVE  Warning(kind, state, percent) \in Warnings
<1>1. WarningCsr(percent) \in Warnings
  BY DEF WarningCsr, Warnings
<1>2. WarningPercentage(percent) \in Warnings
  BY DEF WarningPercentage, Warnings
<1> QED
  BY <1>1, <1>2 DEF Warning, Warnings

\* A composite has a state as soon as there is a battery.
LEMMA StateOfIs ==
  ASSUME NEW devices \in SUBSET Devices, NEW x \in Subjects,
         NEW s \in [Devices -> [energy : 0 .. Full, state : States]],
         x = Composite => BatteriesIn(devices) # {}
  PROVE  StateOf(x, devices, s) \in States
<1> DEFINE states == {s[d].state : d \in BatteriesIn(devices)}
           Is(state) == \/ state = "CHARGING"
                        \/ state = "DISCHARGING" /\ "CHARGING" \notin states
                        \/ states = {"FULL"}
<1>1. CASE x = Composite
  <2>1. states \subseteq States /\ states # {}
    BY <1>1 DEF BatteriesIn
  <2>2. StateOf(x, devices, s) = CHOOSE state \in states : Is(state)
    BY <1>1 DEF StateOf
  <2>3. \E state \in states : Is(state)
    <3> HIDE DEF states
    <3> QED
      BY <2>1 DEF States
  <2> HIDE DEF states, Is
  <2> QED
    BY <2>1, <2>2, <2>3
<1>2. CASE x # Composite
  BY <1>2, DevicesAssumption DEF StateOf, Subjects
<1> QED
  BY <1>1, <1>2

LEMMA KindOfIs ==
  ASSUME NEW x \in Subjects
  PROVE  KindOf(x) \in Kinds
BY DevicesAssumption DEF KindOf, Subjects, Kinds

LEMMA TypesInit == Init => TypeOK
<1> SUFFICES ASSUME Init PROVE TypeOK
  OBVIOUS
<1> DEFINE used(x) == x # Composite \/ Cardinality(BatteriesIn(Devices)) > 1
<1>1. seen \in [Devices -> [energy : 0 .. Full, state : States]]
  BY RealIs DEF Init
<1>2. Cardinality({}) = 0
  BY FS_EmptySet
<1>3. \A x \in Subjects : used(x) => StateOf(x, Devices, seen) \in States
  BY <1>1, <1>2, StateOfIs
<1>4. \A x \in Subjects : WarningOf(x, Devices, seen) \in Warnings
  BY WarningIs DEF WarningOf
<1>5. stateOld = [x \in Subjects |->
                    IF used(x) THEN StateOf(x, Devices, seen) ELSE "UNKNOWN"]
  BY DEF Init
<1>6. warningOld = [x \in Subjects |->
                      IF used(x) THEN WarningOf(x, Devices, seen) ELSE "NONE"]
  BY DEF Init
<1> HIDE DEF used
<1>7. stateOld \in [Subjects -> States \cup {"UNKNOWN"}]
  BY <1>3, <1>5
<1>8. warningOld \in [Subjects -> Warnings]
  BY <1>4, <1>6 DEF Warnings
<1>9. plugged \in BOOLEAN /\ onBattery \in BOOLEAN /\ discharging \in BOOLEAN
  BY DEF Init
<1>10. /\ energy \in [Devices -> 0 .. Full] /\ present \subseteq Devices
       /\ notice \in Notices \cup {NoNotice}
       /\ loop \in {"none", "BATTERY", "UPS"} /\ said = warningOld
  BY DEF Init
<1>11. timers \in 0 .. TimerMax
  BY LevelsAssumption DEF Init
<1> QED
  BY <1>1, <1>7, <1>8, <1>9, <1>10, <1>11 DEF TypeOK

LEMMA TypesDeviceChanged ==
  ASSUME TypeOK, NEW d \in Devices, DeviceChanged(d)
  PROVE  TypeOK'
<1> DEFINE s == [seen EXCEPT ![d] = Real(d)]
           x == Subject(d, present)
           state == StateOf(x, present, s)
           w == WarningOf(x, present, s)
           fresh == w # warningOld[x]
           kept == IF stateOld[x] # state /\ state = "FULL"
                     THEN NoNotice ELSE notice
<1>1. s \in [Devices -> [energy : 0 .. Full, state : States]]
  BY RealIs DEF TypeOK
<1>2. x \in Subjects /\ (x = Composite => BatteriesIn(present) # {})
  <2>1. d \in present
    BY DEF DeviceChanged
  <2> QED
    BY <2>1, DevicesAssumption DEF Subject, Subjects, BatteriesIn
<1>3. state \in States
  <2> HIDE DEF s, x
  <2> QED
    BY <1>1, <1>2, StateOfIs DEF TypeOK
<1>4. w \in Warnings
  BY WarningIs DEF WarningOf
<1>5. /\ fresh /\ w = "ACTION" => timers < TimerMax
      /\ seen' = s
      /\ stateOld' = [stateOld EXCEPT ![x] = state]
      /\ warningOld' = [warningOld EXCEPT ![x] = w]
      /\ \/ /\ fresh /\ notice' \in NoticeAfter(x, w, kept) /\ Charge(x, w)
            /\ \/ said' = [said EXCEPT ![x] = w]
               \/ said' = [said EXCEPT ![x] = said[x]]
         \/ notice' = kept /\ UNCHANGED <<loop, timers, said>>
      /\ \/ discharging' \in BOOLEAN
         \/ UNCHANGED discharging
      /\ UNCHANGED <<world, present, onBattery>>
  <2>1. \/ /\ fresh /\ notice' \in NoticeAfter(x, w, kept) /\ Charge(x, w)
           /\ \/ said' = [said EXCEPT ![x] = w]
              \/ said' = [said EXCEPT ![x] = said[x]]
        \/ notice' = kept /\ UNCHANGED <<loop, timers, said>>
    BY DEF DeviceChanged
  <2>2. discharging' \in BOOLEAN \/ UNCHANGED discharging
    BY DEF DeviceChanged
  <2> QED
    BY <2>1, <2>2 DEF DeviceChanged
<1> HIDE DEF s, x, state, w, fresh
<1>6. /\ KindOf(x) \in Kinds
      /\ kept \in Notices \cup {NoNotice}
  BY <1>2, KindOfIs DEF TypeOK
<1>7. \/ fresh /\ notice' \in NoticeAfter(x, w, kept) /\ Charge(x, w)
      \/ notice' = kept /\ UNCHANGED <<loop, timers>>
  BY <1>5
<1> HIDE DEF kept
<1>8. notice' \in Notices \cup {NoNotice}
  BY <1>6, <1>7 DEF NoticeAfter, Announces, Notices
<1>9. loop' \in {"none", "BATTERY", "UPS"}
  BY <1>7 DEF Charge, TypeOK
<1>10. timers' \in 0 .. TimerMax
  BY <1>5, <1>7, LevelsAssumption DEF Charge, TypeOK
<1>11. said' \in [Subjects -> Warnings]
  BY <1>2, <1>4, <1>5 DEF TypeOK
<1>12. /\ stateOld' \in [Subjects -> States \cup {"UNKNOWN"}]
       /\ warningOld' \in [Subjects -> Warnings]
  BY <1>2, <1>3, <1>4, <1>5 DEF TypeOK
<1> QED
  BY <1>1, <1>5, <1>8, <1>9, <1>10, <1>11, <1>12
     DEF TypeOK, world, Notices, NoNotice

LEMMA TypesStep == TypeOK /\ [Next]_vars => TypeOK'
<1> SUFFICES ASSUME TypeOK, [Next]_vars PROVE TypeOK'
  OBVIOUS
<1> USE DEF TypeOK
<1>1. CASE PlugOrUnplug
  BY <1>1 DEF PlugOrUnplug, engine
<1>2. CASE EnergyChanges
  <2>1. energy' \in [Devices -> 0 .. Full]
    <3>1. PICK d \in present :
            \/ energy[d] > 0 /\ energy' = [energy EXCEPT ![d] = @ - 1]
            \/ energy[d] < Full /\ energy' = [energy EXCEPT ![d] = @ + 1]
      BY <1>2 DEF EnergyChanges
    <3> QED
      BY <3>1, LevelsAssumption
  <2> QED
    BY <1>2, <2>1 DEF EnergyChanges, engine
<1>3. ASSUME NEW d \in Devices, DeviceChanged(d) PROVE TypeOK'
  BY <1>3, TypesDeviceChanged
<1>4. CASE UpClientChanged
  BY <1>4 DEF UpClientChanged, world
<1>5. CASE DeviceAdded
  <2>1. PICK d \in Removable \ present :
          /\ present' = present \cup {d}
          /\ seen' = [seen EXCEPT ![d] = Real(d)]
          /\ stateOld' = [stateOld EXCEPT ![d] = "UNKNOWN"]
          /\ warningOld' = [warningOld EXCEPT ![d] = "NONE"]
          /\ said' = [said EXCEPT ![d] = "NONE"]
    BY <1>5 DEF DeviceAdded
  <2>2. d \in Devices /\ Real(d) \in [energy : 0 .. Full, state : States]
    BY DevicesAssumption, RealIs
  <2> QED
    BY <1>5, <2>1, <2>2 DEF DeviceAdded, world, Warnings
<1>6. CASE DeviceRemoved
  BY <1>6 DEF DeviceRemoved, world, engine
<1>7. CASE CriticalAction
  BY <1>7, LevelsAssumption DEF CriticalAction, world
<1>8. CASE NoticesClose
  BY <1>8 DEF NoticesClose, world
<1>9. CASE UNCHANGED vars
  BY <1>9 DEF vars, world, engine
<1> QED
  BY <1>1, <1>2, <1>3, <1>4, <1>5, <1>6, <1>7, <1>8, <1>9 DEF Next

\* Every device and the composite keep a state and a warning the engine
\* knows, for any devices, thresholds and orders of signals; in particular
\* a composite always finds its state among those of its batteries, also
\* while some of their signals are still to come.
THEOREM TypeCorrect == Spec => []TypeOK
  BY TypesInit, TypesStep, PTL DEF Spec

-----------------------------------------------------------------------------
(* Warnings are said                                                       *)

\* The percentage of one device is that of its own energy.
LEMMA PercentOfOne ==
  ASSUME NEW devices, NEW s, NEW d, d # Composite, s[d].energy \in Nat
  PROVE  PercentOf(d, devices, s) = (100 * s[d].energy + Full - 1) \div Full
<1> DEFINE e == s[d].energy
           Eq(it) == it = [u \in SUBSET {d} |->
             IF u = {} THEN 0
             ELSE s[CHOOSE x \in u : TRUE].energy
                    + it[u \ {CHOOSE x \in u : TRUE}]]
           sum == (CHOOSE it : Eq(it))[{d}]
           one == [u \in SUBSET {d} |-> IF u = {} THEN 0 ELSE e]
<1>1. \A u \in SUBSET {d} :
        u # {} => u = {d} /\ (CHOOSE x \in u : TRUE) = d
                  /\ u \ {CHOOSE x \in u : TRUE} = {}
  <2> SUFFICES ASSUME NEW u \in SUBSET {d}, u # {}
               PROVE  /\ u = {d} /\ (CHOOSE x \in u : TRUE) = d
                      /\ u \ {CHOOSE x \in u : TRUE} = {}
    OBVIOUS
  <2>1. (CHOOSE x \in u : TRUE) \in u
    OBVIOUS
  <2> QED
    BY <2>1
<1>2. Eq(one)
  <2> DEFINE rhs(u) == IF u = {} THEN 0
                       ELSE s[CHOOSE x \in u : TRUE].energy
                              + one[u \ {CHOOSE x \in u : TRUE}]
  <2>1. \A u \in SUBSET {d} : rhs(u) = IF u = {} THEN 0 ELSE e
    <3> SUFFICES ASSUME NEW u \in SUBSET {d}, u # {} PROVE rhs(u) = e
      OBVIOUS
    <3>1. rhs(u) = s[d].energy + one[{}]
      BY <1>1
    <3> QED
      BY <3>1
  <2> HIDE DEF rhs
  <2>2. one = [u \in SUBSET {d} |-> rhs(u)]
    BY <2>1
  <2> QED
    BY <2>2 DEF rhs
<1>3. Eq(CHOOSE it : Eq(it))
  <2> HIDE DEF Eq
  <2> QED
    BY <1>2
<1>4. sum = e
  <2> DEFINE it == CHOOSE it : Eq(it)
  <2>1. Eq(it)
    BY <1>3
  <2> HIDE DEF it
  <2>2. it[{}] = 0
    BY <2>1
  <2>3. it[{d}] = s[d].energy + it[{}]
    BY <1>1, <2>1
  <2> QED
    BY <2>2, <2>3 DEF it
<1>5. PercentOf(d, devices, s) = (100 * sum + (Cardinality({d}) * Full) - 1)
                                   \div (Cardinality({d}) * Full)
  BY DEF PercentOf, MapThenSumSet, MapThenFoldSet
<1>6. Cardinality({d}) = 1
  BY FS_Singleton, Zenon
<1>7. 1 * Full = Full
  BY LevelsAssumption
<1> QED
  BY <1>4, <1>5, <1>6, <1>7

\* A full device is above every threshold below 100 per cent.
LEMMA FullIsQuiet ==
  ASSUME NEW devices, NEW s, NEW d, d # Composite, s[d].energy = Full,
         LowPercent < 100, CriticalPercent < 100, ActionPercent < 100
  PROVE  WarningPercentage(PercentOf(d, devices, s)) = "NONE"
<1>1. Full \in Nat /\ Full > 0
  BY LevelsAssumption
<1> DEFINE p == (100 * Full + Full - 1) \div Full
<1>2. p \in Int /\ p >= 100
  BY <1>1
<1>3. PercentOf(d, devices, s) = p
  BY <1>1, PercentOfOne
<1> HIDE DEF p
<1> QED
  BY <1>2, <1>3, LevelsAssumption DEF WarningPercentage

AtMostOneBattery == Cardinality(BatteriesIn(Devices)) <= 1

\* The engine then speaks of the device itself.
LEMMA SubjectIs ==
  ASSUME AtMostOneBattery, NEW d \in present, present \subseteq Devices
  PROVE  Subject(d, present) = d
<1>1. CASE Kind[d] = "BATTERY"
  <2> DEFINE all == BatteriesIn(Devices)
             here == BatteriesIn(present)
  <2>1. IsFiniteSet(all) /\ here \subseteq all /\ d \in here
    BY <1>1, DevicesAssumption, FS_Subset DEF BatteriesIn
  <2> HIDE DEF all, here
  <2>2. /\ IsFiniteSet(here) /\ Cardinality(here) <= Cardinality(all)
        /\ Cardinality(here) \in Nat /\ Cardinality(all) \in Nat
    BY <2>1, FS_Subset, FS_CardinalityType
  <2>3. Cardinality(here) # 0
    BY <2>1, <2>2, FS_EmptySet
  <2>4. Cardinality(here) = 1
    BY <2>2, <2>3 DEF AtMostOneBattery, all
  <2> QED
    BY <2>4 DEF Subject, here
<1>2. CASE Kind[d] # "BATTERY"
  BY <1>2 DEF Subject
<1> QED
  BY <1>1, <1>2

\* What is saved as a battery's last warning has been said, on AC as well.
AllSaid == \A x \in Subjects :
             KindOf(x) = "BATTERY" /\ warningOld[x] \in Announced
               => said[x] = warningOld[x]

LEMMA SaidDeviceChanged ==
  ASSUME ClientFirst, AtMostOneBattery,
         LowPercent < 100, CriticalPercent < 100, ActionPercent < 100,
         TypeOK, AllSaid, NEW d \in Devices, DeviceChanged(d)
  PROVE  AllSaid'
<1> DEFINE s == [seen EXCEPT ![d] = Real(d)]
           w == WarningOf(d, present, s)
<1>1. Subject(d, present) = d /\ d # Composite /\ d \in Subjects
  BY SubjectIs, DevicesAssumption DEF DeviceChanged, TypeOK, Subjects
<1>2. /\ warningOld' = [warningOld EXCEPT ![d] = w]
      /\ \/ w # warningOld[d]
              /\ said' = [said EXCEPT ![d] = IF w \in Announced /\ Ignored(d)
                                               THEN @ ELSE w]
         \/ w = warningOld[d] /\ said' = said
  BY <1>1 DEF DeviceChanged
<1>3. Ignored(d) => w \notin Announced
  <2> SUFFICES ASSUME Ignored(d) PROVE w \notin Announced
    OBVIOUS
  <2>1. Kind[d] = "BATTERY" /\ ~onBattery
    BY <1>1 DEF Ignored, KindOf
  <2>2. plugged
    BY <2>1 DEF DeviceChanged, TypeOK
  <2>3. s[d] = [energy |-> energy[d],
                state |-> IF energy[d] = Full THEN "FULL" ELSE "CHARGING"]
    BY <2>1, <2>2 DEF Real, Mains, TypeOK
  <2>4. StateOf(d, present, s) = s[d].state /\ KindOf(d) = "BATTERY"
    BY <1>1, <2>1 DEF StateOf, KindOf
  <2> HIDE DEF s
  <2>5. CASE energy[d] = Full
    <3>1. s[d].energy = Full /\ s[d].state = "FULL"
      BY <2>3, <2>5
    <3>2. WarningPercentage(PercentOf(d, present, s)) = "NONE"
      BY <1>1, <3>1, FullIsQuiet
    <3>3. w = "NONE"
      BY <2>4, <3>1, <3>2 DEF WarningOf, Warning
    <3> QED
      BY <3>3 DEF Announced
  <2>6. CASE energy[d] # Full
    <3>1. w = "NONE"
      BY <2>3, <2>4, <2>6 DEF WarningOf, Warning
    <3> QED
      BY <3>1 DEF Announced
  <2> QED
    BY <2>5, <2>6
<1> HIDE DEF w
<1>4. \A x \in Subjects : warningOld'[x] = IF x = d THEN w ELSE warningOld[x]
  BY <1>1, <1>2 DEF TypeOK
<1>5. \A x \in Subjects : x # d => said'[x] = said[x]
  BY <1>1, <1>2 DEF TypeOK
<1>6. KindOf(d) = "BATTERY" /\ w \in Announced => said'[d] = w
  BY <1>1, <1>2, <1>3 DEF TypeOK, AllSaid
<1> QED
  BY <1>1, <1>4, <1>5, <1>6 DEF AllSaid, KindOf, Announced

\* With one battery, however many other devices, thresholds below 100 per
\* cent, and on-battery delivered before the devices, no warning about it is
\* lost: whatever is saved as its last warning has been announced.
THEOREM WarningsSaid ==
  ASSUME ClientFirst, AtMostOneBattery,
         LowPercent < 100, CriticalPercent < 100, ActionPercent < 100
  PROVE  Spec => []WarningIsSaid
<1>1. Init => TypeOK /\ AllSaid
  BY TypesInit DEF Init, AllSaid
<1>2. TypeOK /\ AllSaid /\ [Next]_vars => (TypeOK /\ AllSaid)'
  <2> SUFFICES ASSUME TypeOK, AllSaid, [Next]_vars PROVE AllSaid'
    BY TypesStep
  <2> USE DEF AllSaid, KindOf, Announced
  <2>1. CASE PlugOrUnplug \/ EnergyChanges
    BY <2>1 DEF PlugOrUnplug, EnergyChanges, engine
  <2>2. ASSUME NEW d \in Devices, DeviceChanged(d) PROVE AllSaid'
    BY <2>2, SaidDeviceChanged
  <2>3. CASE UpClientChanged
    BY <2>3 DEF UpClientChanged
  <2>4. CASE DeviceAdded
    <3>1. PICK d \in Removable \ present :
            /\ warningOld' = [warningOld EXCEPT ![d] = "NONE"]
            /\ said' = [said EXCEPT ![d] = "NONE"]
      BY <2>4 DEF DeviceAdded
    <3> QED
      BY <3>1 DEF TypeOK
  <2>5. CASE DeviceRemoved \/ CriticalAction \/ NoticesClose
    BY <2>5 DEF DeviceRemoved, CriticalAction, NoticesClose, engine
  <2>6. CASE UNCHANGED vars
    BY <2>6 DEF vars, engine
  <2> QED
    BY <2>1, <2>2, <2>3, <2>4, <2>5, <2>6 DEF Next
<1>3. AllSaid => WarningIsSaid
  BY DEF AllSaid, WarningIsSaid
<1> QED
  BY <1>1, <1>2, <1>3, PTL DEF Spec
=============================================================================
