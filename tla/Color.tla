------------------------------- MODULE Color --------------------------------
(* The color plugin (plugins/color): colord's devices for the monitors,    *)
(* profiles of the user's directories, and what is read of EDID blocks.    *)
EXTENDS Naturals, Sequences, SequencesExt, FiniteSets, FiniteSetsExt

-----------------------------------------------------------------------------
(* The color plugin makes a device of colord of each monitor, and gives     *)
(* each output the gamma table of the device's default profile, and the     *)
(* screen the profile of one output.  What it asks colord, and what colord  *)
(* says of its own accord, is answered and handled in order, but later.     *)
CONSTANTS
  Outputs, Laptop,    \* outputs in their order, the laptop's panel
  Monitors,           \* monitors; the EDID tells them apart
  ColorProfiles, Vcgt, Bright,  \* profiles, those with a gamma table, or a brightness
  MaxColorChanges     \* bounds what users do

DeviceNone == "none"
Linear == "linear"
Autogen == "edid"
Out == ToSet(Outputs)

VARIABLES
  monitor, primary,   \* X: the monitors plugged in, the primary output
  screen,             \* x11_screen, as last refreshed
  edidCache,
  devices,            \* colord: the output a device was made for, or none
  default,            \* colord: the default profile of each monitor
  colordCalls,              \* calls on their way to colord
  events,             \* its answers and signals on their way back
  assigning,          \* device_assign_hash
  files,              \* monitors whose profile has been written
  deviceGamma, icc,         \* X: the table of each output, _ICC_PROFILE
  percentage,         \* the profile whose brightness was asked for last
  active,             \* session_is_active
  colorsLate,               \* history: devices deleted after their monitor was back
  changes

deviceVars == <<monitor, primary, screen, edidCache, devices, default, colordCalls,
                events, assigning, files, deviceGamma, icc, percentage, active,
                colorsLate, changes>>
hardware == <<monitor, primary>>
colord == <<devices, default>>
shown == <<deviceGamma, icc, percentage>>

Connected(o) == screen[o] # DeviceNone
List == SelectSeq(Outputs, LAMBDA o : screen'[o] # DeviceNone)

\* gcm_session_client_connect_cb: a device is made for what is plugged in.
DeviceInit ==
  /\ monitor \in {[o \in Out |-> IF o = Outputs[1] THEN m ELSE DeviceNone] :
                    m \in Monitors \cup {DeviceNone}}
  /\ primary \in Out /\ screen = monitor /\ edidCache = monitor
  /\ devices = [m \in Monitors |-> DeviceNone]
  /\ default = [m \in Monitors |-> DeviceNone]
  /\ colordCalls = IF monitor[Outputs[1]] = DeviceNone THEN <<>>
             ELSE <<[type |-> "create", device |-> monitor[Outputs[1]],
                     output |-> Outputs[1]]>>
  /\ events = <<>> /\ assigning = {} /\ files = {}
  /\ deviceGamma = [o \in Out |-> DeviceNone] /\ icc = DeviceNone /\ percentage = DeviceNone
  /\ active = TRUE /\ colorsLate = {} /\ changes = 0

-----------------------------------------------------------------------------
(* The user, the X server and colord                                       *)

DeviceChange == changes < MaxColorChanges /\ changes' = changes + 1

Plug(o, m) ==
  /\ DeviceChange /\ monitor[o] # m
  /\ m # DeviceNone => \A p \in Out : monitor[p] # m
  /\ monitor' = [monitor EXCEPT ![o] = m]
  /\ UNCHANGED <<primary, screen, edidCache, colordCalls, events, assigning, files,
                 active, colorsLate>>
  /\ UNCHANGED colord /\ UNCHANGED shown

\* In colord, or by a calibration.
SetDefault(m, p) ==
  /\ DeviceChange /\ default[m] # p /\ default' = [default EXCEPT ![m] = p]
  /\ events' = IF devices[m] = DeviceNone THEN events
               ELSE Append(events, [type |-> "changed", device |-> m])
  /\ UNCHANGED <<screen, edidCache, devices, colordCalls, assigning, files, active,
                 colorsLate>>
  /\ UNCHANGED hardware /\ UNCHANGED shown

DeviceColordHandles ==
  /\ colordCalls # <<>> /\ colordCalls' = Tail(colordCalls)
  /\ LET c == Head(colordCalls)
         here == {m \in Monitors : devices[m] # DeviceNone}
     IN
     \/ /\ c.type = "create"
        /\ IF c.device \in here THEN UNCHANGED <<devices, events>>
           ELSE /\ devices' = [devices EXCEPT ![c.device] = c.output]
                /\ events' = Append(events, [type |-> "added", device |-> c.device])
        /\ UNCHANGED <<default, colorsLate>>
     \/ /\ c.type = "find"
        /\ events' = events \o SetToSeq({[type |-> c.then, device |-> m] :
                                           m \in {m \in here : devices[m] = c.output}})
        /\ UNCHANGED <<devices, default, colorsLate>>
     \/ /\ c.type = "delete"
        /\ devices' = [devices EXCEPT ![c.device] = DeviceNone]
        /\ colorsLate' = IF \E o \in Out : monitor[o] = c.device
               THEN colorsLate \cup {c.device}
                   ELSE colorsLate
        /\ UNCHANGED <<default, events>>
     \/ /\ c.type = "connect"
        /\ events' = IF c.device \in here
                     THEN Append(events, [type |-> "connected", device |-> c.device])
                     ELSE Append(events, [type |-> "failed", device |-> c.device])
        /\ UNCHANGED <<devices, default, colorsLate>>
     \/ /\ c.type = "profile"
        /\ events' = Append(events, c)
        /\ UNCHANGED <<devices, default, colorsLate>>
     \/ /\ c.type = "register"
        /\ IF default[c.device] = DeviceNone
           THEN /\ default' = [default EXCEPT ![c.device] = Autogen]
                /\ events' = IF c.device \in here
                             THEN Append(events, [type |-> "changed", device |-> c.device])
                             ELSE events
           ELSE UNCHANGED <<default, events>>
        /\ UNCHANGED <<devices, colorsLate>>
     \/ /\ c.type = "list"
        /\ events' = events \o SetToSeq({[type |-> "listed", device |-> m] : m \in here})
        /\ UNCHANGED <<devices, default, colorsLate>>
  /\ UNCHANGED <<screen, edidCache, assigning, files, active, changes>>
  /\ UNCHANGED hardware /\ UNCHANGED shown

-----------------------------------------------------------------------------
(* The screen                                                              *)

\* A monitor is known by the EDID that was read first.
OutputEdid(cache, o) == IF cache[o] # DeviceNone THEN cache[o] ELSE screen'[o]

Create(o) == [type |-> "create", device |-> OutputEdid(edidCache', o), output |-> o]
DeviceFind(o, then) == [type |-> "find", output |-> o, then |-> then]
Each(Is(_), Call(_)) ==
  LET those == SelectSeq(Outputs, Is) IN [i \in DOMAIN those |-> Call(those[i])]

\* output-disconnected and output-connected where that changed, then changed:
\* all are assigned again.  The table of an output is lost with its CRTC.
ScreenChanged ==
  /\ screen # monitor /\ screen' = monitor
  /\ LET Gone(o) == Connected(o) /\ monitor[o] = DeviceNone
         Come(o) == ~Connected(o) /\ monitor[o] # DeviceNone
         There(o) == monitor[o] # DeviceNone
     IN /\ edidCache' = [o \in Out |-> IF Gone(o) THEN DeviceNone
                                       ELSE IF Come(o) THEN monitor[o] ELSE edidCache[o]]
        /\ colordCalls' = colordCalls \o Each(Gone, LAMBDA o : DeviceFind(o, "removed"))
                          \o Each(Come, Create)
                          \o Each(There, LAMBDA o : DeviceFind(o, "gamma"))
        /\ deviceGamma' = [o \in Out |-> IF Gone(o)
               \/ Come(o) THEN DeviceNone ELSE deviceGamma[o]]
  /\ UNCHANGED <<events, assigning, files, icc, percentage, active, colorsLate, changes>>
  /\ UNCHANGED hardware /\ UNCHANGED colord

\* Another output becomes the primary one, which changes the screen alone.
SetPrimary(o) ==
  /\ DeviceChange /\ primary # o /\ primary' = o /\ screen = monitor /\ screen' = monitor
  /\ colordCalls' = colordCalls \o
         Each(LAMBDA p : monitor[p] # DeviceNone, LAMBDA p : DeviceFind(p, "gamma"))
  /\ UNCHANGED <<monitor, edidCache, events, assigning, files, active, colorsLate>>
  /\ UNCHANGED colord /\ UNCHANGED shown

\* The user is back: all devices are assigned.
ActiveChanged ==
  /\ DeviceChange /\ active' = ~active
  /\ deviceGamma' = IF active THEN [o \in Out |-> DeviceNone] ELSE deviceGamma
  /\ colordCalls' = IF active THEN colordCalls ELSE Append(colordCalls, [type |-> "list"])
  /\ UNCHANGED <<screen, edidCache, events, assigning, files, icc, percentage,
                 colorsLate>>
  /\ UNCHANGED hardware /\ UNCHANGED colord

-----------------------------------------------------------------------------
(* What colord says                                                        *)

Connect(m) == [type |-> "connect", device |-> m]

\* A device that is being assigned is not assigned again.
DeviceAssign(m) ==
  IF m \in assigning THEN UNCHANGED <<assigning, colordCalls>>
  ELSE assigning' = assigning \cup {m} /\ colordCalls' = Append(colordCalls, Connect(m))

\* The output is looked for by the id of the monitor in the cache.
OutputById(m) == SelectSeq(Outputs, LAMBDA o : Connected(o) /\ edidCache[o] = m)

\* use_output_profile_for_screen
UseForScreen(o) ==
  LET there == SelectSeq(Outputs, Connected) IN
    IF Connected(primary) THEN o = primary
    ELSE IF Connected(Laptop) THEN o = Laptop
    ELSE there # <<>> /\ o = there[1]

\* A bug: the hash keeps the device until its profile has been looked at.
AssignedLater(m) == assigning
Assigned(m) == assigning \ {m}

ResetGamma(o) == [deviceGamma EXCEPT ![o] = IF Connected(o) THEN Linear ELSE @]

\* A profile is written for a monitor that has none; without a default profile
\* the gamma is reset.
DeviceConnected(m) ==
  /\ assigning' = Assigned(m)
  /\ IF OutputById(m) = <<>> THEN UNCHANGED <<colordCalls, files, deviceGamma, icc>>
     ELSE LET o == OutputById(m)[1]
              new == IF m \in files THEN <<>>
                     ELSE <<[type |-> "register", device |-> m]>>
          IN /\ files' = files \cup {m}
             /\ IF default[m] = DeviceNone
                THEN /\ icc' = IF o = primary THEN DeviceNone ELSE icc
                     /\ deviceGamma' = ResetGamma(o)
                     /\ colordCalls' = colordCalls \o new
                ELSE /\ colordCalls' = colordCalls \o new \o
                          <<[type |-> "profile", profile |-> default[m], output |-> o]>>
                     /\ UNCHANGED <<icc, deviceGamma>>
  /\ UNCHANGED percentage

\* Without a CRTC the table cannot be set.  Profiles without one have a linear one.
SetGamma(o, p) ==
  [deviceGamma EXCEPT ![o] = IF ~Connected(o) THEN @ ELSE IF p \in Vcgt THEN p ELSE Linear]

SetIccProfile(o, p) == IF UseForScreen(o) THEN p ELSE icc

ProfileConnected(p, o) ==
  /\ percentage' = IF o = Laptop /\ p \in Bright THEN p ELSE percentage
  /\ icc' = SetIccProfile(o, p) /\ deviceGamma' = SetGamma(o, p)
  /\ UNCHANGED <<assigning, colordCalls, files>>

Told(e) ==
  e.type \in {"added", "changed"} /\ DeviceAssign(e.device) /\ UNCHANGED files

DevicesListed(e) == e.type = "listed" /\ DeviceAssign(e.device) /\ UNCHANGED files

RemovedFound(e) ==
  /\ e.type = "removed"
  /\ colordCalls' = Append(colordCalls, [type |-> "delete", device |-> e.device])
  /\ UNCHANGED <<assigning, files>>

\* Without a look at the hash.
GammaFound(e) ==
  /\ e.type = "gamma" /\ colordCalls' = Append(colordCalls, Connect(e.device))
  /\ UNCHANGED <<assigning, files>>

ConnectFailed(e) ==
  e.type = "failed" /\ assigning' = Assigned(e.device) /\ UNCHANGED <<colordCalls, files>>

Event ==
  /\ events # <<>> /\ events' = Tail(events)
  /\ LET e == Head(events) IN
     \/ /\ Told(e) \/ DevicesListed(e) \/ RemovedFound(e) \/ GammaFound(e)
               \/ ConnectFailed(e)
        /\ UNCHANGED shown
     \/ e.type = "connected" /\ DeviceConnected(e.device)
     \/ e.type = "profile" /\ ProfileConnected(e.profile, e.output)
  /\ UNCHANGED <<screen, edidCache, active, colorsLate, changes>>
  /\ UNCHANGED hardware /\ UNCHANGED colord

DeviceNext ==
  \/ \E o \in Out : SetPrimary(o) \/ \E m \in Monitors \cup {DeviceNone} : Plug(o, m)
  \/ \E m \in Monitors, p \in ColorProfiles : SetDefault(m, p)
  \/ DeviceColordHandles \/ ScreenChanged \/ ActiveChanged \/ Event

DeviceSpec == DeviceInit /\ [][DeviceNext]_deviceVars

DeviceTypeOK ==
  /\ {monitor, screen, edidCache} \subseteq [Out -> Monitors \cup {DeviceNone}]
  /\ devices \in [Monitors -> Out \cup {DeviceNone}]
  /\ default \in [Monitors -> ColorProfiles \cup {DeviceNone}]
  /\ assigning \subseteq Monitors /\ files \subseteq Monitors
  /\ colorsLate \subseteq Monitors
  /\ deviceGamma \in [Out -> ColorProfiles \cup {DeviceNone, Linear}]
  /\ icc \in ColorProfiles \cup {DeviceNone}
  /\ percentage \in Bright \cup {DeviceNone} /\ changes \in 0..MaxColorChanges

Wanted(p) == IF p \in Vcgt THEN p ELSE Linear

\* When all calls are answered, each monitor has its device, its output shows
\* the table of the default profile, and the screen has the profile of the
\* primary output - whatever was plugged, chosen and switched meanwhile.  A
\* monitor that is back before its device is deleted loses it, and one plugged in
\* place of another between two looks at the screen is taken for the other
\* (gcm_session_device_assign_connect_cb, gcm_session_screen_removed_find_device_cb).
ColorsFollow ==
  colordCalls = <<>> /\ events = <<>> /\ screen = monitor /\ active =>
    /\ assigning = {}
    /\ \A o \in Out :
         LET m == monitor[o] IN
           m # DeviceNone /\ edidCache = monitor /\ m \notin colorsLate =>
             /\ devices[m] = o
             /\ deviceGamma[o] = Wanted(default[m])
             /\ o = primary => icc = default[m]

-----------------------------------------------------------------------------
(* The color plugin tells colord of the profiles in the user's directory.   *)
(* The directory and those below it are watched; what is created is looked  *)
(* at later, and what a directory has in it is listed later still.          *)
CONSTANTS
  Dirs, Top,          \* directories, the user's one
  Depth,              \* how deep each of them is
  ProfileFiles, Dir,      \* files of profiles, the directory each of them is in
  MaxLevels,          \* how deep directories are searched
  MaxFileChanges      \* bounds what users do

VARIABLES
  storeThere,              \* directories there are
  file,               \* each file: none, being written, or whole
  signals,            \* what the watches tell, in order
  queries,            \* what was created and is being looked at
  listings,           \* directories that are being listed, and what was found
  watched,            \* directory_array
  names,              \* filename_array
  storeCalls, found,       \* calls to colord, and those it has answered
  registered,         \* profiles colord has
  missed,             \* history: files read before they were whole
  skipped,            \* history: files whose end was not noticed
  storeLate,               \* history: files that were back before their profile was deleted
  storeChanges

disk == <<storeThere, file>>
storeVars == <<disk, signals, queries, listings, watched, names, storeCalls, found,
               registered, missed, skipped, storeLate, storeChanges>>
history == <<missed, skipped, storeLate>>

StoreInit ==
  /\ storeThere \in {D \in SUBSET Dirs : Top \in D}
  /\ file \in {F \in [ProfileFiles -> {"none", "whole"}] :
                 \A p \in ProfileFiles : F[p] = "whole" => Dir[p] \in storeThere}
  /\ signals = <<>> /\ queries = {}
  /\ listings = {[dir |-> Top, has |-> {}, read |-> FALSE]}
  /\ watched = {Top} /\ names = <<>> /\ storeCalls = <<>> /\ found = <<>>
  /\ registered = {} /\ missed = {} /\ skipped = {} /\ storeLate = {} /\ storeChanges = 0

-----------------------------------------------------------------------------
(* The user                                                                *)

StoreChange == storeChanges < MaxFileChanges /\ storeChanges' = storeChanges + 1

\* The watch of the directory tells.
Tell(dir, type, path) ==
  signals' = IF dir \in watched THEN Append(signals, [type |-> type, path |-> path])
             ELSE signals

\* A file is moved into place, or written bit by bit.
CreateFile(p, how) ==
  /\ StoreChange /\ Dir[p] \in storeThere /\ file[p] = "none"
  /\ file' = [file EXCEPT ![p] = how] /\ Tell(Dir[p], "created", p)
  /\ UNCHANGED storeThere

FinishFile(p) ==
  /\ file[p] = "part" /\ file' = [file EXCEPT ![p] = "whole"]
  /\ UNCHANGED <<storeThere, signals, storeChanges>>

DeleteFile(p) ==
  /\ StoreChange /\ file[p] # "none"
  /\ file' = [file EXCEPT ![p] = "none"] /\ Tell(Dir[p], "deleted", p)
  /\ UNCHANGED storeThere

\* A directory is moved here with what is in it.
MoveIn(d, F) ==
  /\ StoreChange /\ d \notin storeThere /\ storeThere' = storeThere \cup {d}
  /\ file' = [p \in ProfileFiles |-> IF p \in F THEN "whole" ELSE file[p]]
  /\ Tell(Top, "created", d)

MoveOut(d) ==
  /\ StoreChange /\ d \in storeThere \ {Top} /\ storeThere' = storeThere \ {d}
  /\ file' = [p \in ProfileFiles |-> IF Dir[p] = d THEN "none" ELSE file[p]]
  /\ Tell(Top, "deleted", d)

User ==
  /\ \/ \E p \in ProfileFiles : \/ \E how \in {"part", "whole"} : CreateFile(p, how)
                                \/ FinishFile(p) \/ DeleteFile(p)
     \/ \E d \in Dirs \ {Top} :
          MoveOut(d) \/ \E F \in SUBSET {p \in ProfileFiles : Dir[p] = d} : MoveIn(d, F)
  /\ UNCHANGED <<queries, listings, watched, names, storeCalls, found, registered,
                 history>>

-----------------------------------------------------------------------------
(* The store                                                               *)

\* What is read of a file that is not whole is no profile.
StoreAdded(F) ==
  SetToSeq({[type |-> "create", profile |-> p] : p \in {p \in F : file[p] = "whole"}})

Added(F) ==
  /\ names' = names \o SetToSeq(F) /\ storeCalls' = storeCalls \o StoreAdded(F)
  /\ missed' = missed \cup {p \in F : file[p] = "part"}

\* A directory is watched, and listed.
SearchPath(D, others) ==
  /\ watched' = watched \cup D
  /\ listings' = others \cup {[dir |-> d, has |-> {}, read |-> FALSE] : d \in D}

\* Files of a directory are added, directories watched and listed: the limit is
\* that of the directory they are in.
ProcessChildren(dir, children, others) ==
  LET new == IF dir \in watched /\ Depth[dir] <= MaxLevels THEN children ELSE {} IN
    Added(new \cap ProfileFiles) /\ SearchPath(new \cap Dirs, others)

Parent(path) == IF path \in ProfileFiles THEN Dir[path] ELSE Top

StoreThere(path) == IF path \in ProfileFiles THEN file[path] # "none"
    ELSE path \in storeThere

\* created_query_info_cb: what is gone is warned about.
Queried(path) ==
  /\ path \in queries /\ queries' = queries \ {path}
  /\ ProcessChildren(Parent(path), IF StoreThere(path) THEN {path} ELSE {}, listings)
  /\ UNCHANGED <<disk, signals, found, registered, skipped, storeLate, storeChanges>>

\* In a thread.
ReadDirectory(l) ==
  /\ l \in listings /\ ~l.read
  /\ listings' = (listings \ {l}) \cup
       {[l EXCEPT !.read = TRUE,
                  !.has = {p \in ProfileFiles : Dir[p] = l.dir /\ StoreThere(p)} \cup
                          IF l.dir = Top THEN storeThere \ {Top} ELSE {}]}
  /\ UNCHANGED <<disk, signals, queries, watched, names, storeCalls, found,
                 registered, history, storeChanges>>

\* enumerate_children_cb, next_files_cb: a directory that is gone is not watched
\* any more.
Listed(l) ==
  /\ l \in listings /\ l.read
  /\ IF l.dir \in storeThere THEN ProcessChildren(l.dir, l.has, listings \ {l})
     ELSE /\ watched' = watched \ {l.dir} /\ listings' = listings \ {l}
          /\ UNCHANGED <<names, storeCalls, missed>>
  /\ UNCHANGED <<disk, signals, queries, found, registered, skipped, storeLate,
                 storeChanges>>

StoreFind(p) == [type |-> "find", profile |-> p]
First(S, Is(_)) == CHOOSE i \in DOMAIN S : Is(S[i]) /\ \A j \in 1..(i - 1) : ~Is(S[j])

\* remove_profile, for each of some places in the list.  A bug: names are taken
\* off without a signal.
Unheard(S) == <<>>
Forget(S) == LET s == SetToSortSeq(S, <) IN [i \in DOMAIN s |-> StoreFind(names[s[i]])]
WithoutName(p) == RemoveAt(names, First(names, LAMBDA n : n = p))

\* remove_from_prefix: the one after each that is removed is not looked at.
Removal(dir) ==
  FoldLeft(LAMBDA S, i : IF Dir[names[i]] = dir /\ i - 1 \notin S THEN S \cup {i} ELSE S,
           {}, [i \in DOMAIN names |-> i])

Deleted(path) ==
  IF path \in ProfileFiles
  THEN /\ names' = IF path \in ToSet(names) THEN WithoutName(path) ELSE names
       /\ storeCalls' = IF path \in ToSet(names) THEN Append(storeCalls, StoreFind(path))
              ELSE storeCalls
       /\ UNCHANGED <<watched, skipped>>
  ELSE LET gone == Removal(path)
           those == {i \in DOMAIN names : Dir[names[i]] = path}
           Keep(S) == LET kept == SetToSortSeq(DOMAIN names \ S, <)
                      IN [i \in DOMAIN kept |-> names[kept[i]]]
       IN /\ names' = Keep(gone) /\ storeCalls' = storeCalls \o Forget(gone)
          /\ skipped' = skipped \cup {names[i] : i \in those \ gone}
          /\ watched' = watched \ {path}

\* A watch tells no more once its directory is taken off the list.
MonitorChanged ==
  /\ signals # <<>> /\ signals' = Tail(signals)
  /\ LET s == Head(signals) IN
       IF Parent(s.path) \notin watched
       THEN UNCHANGED <<queries, names, storeCalls, watched, skipped>>
       ELSE IF s.type = "created"
       THEN queries' = queries \cup {s.path} /\ UNCHANGED <<names, storeCalls,
                                                            watched, skipped>>
       ELSE Deleted(s.path) /\ UNCHANGED queries
  /\ UNCHANGED <<disk, listings, found, registered, missed, storeLate, storeChanges>>

-----------------------------------------------------------------------------
(* colord                                                                  *)

StoreColordHandles ==
  /\ storeCalls # <<>> /\ storeCalls' = Tail(storeCalls)
  /\ LET c == Head(storeCalls) IN
     \/ /\ c.type = "create" /\ registered' = registered \cup {c.profile}
        /\ UNCHANGED <<found, storeLate>>
     \/ /\ c.type = "find" /\ UNCHANGED <<registered, storeLate>>
        /\ found' = IF c.profile \in registered THEN Append(found, c.profile) ELSE found
     \/ /\ c.type = "delete" /\ registered' = registered \ {c.profile}
        /\ storeLate' = storeLate \cup {p \in {c.profile} : file[p] # "none"}
        /\ UNCHANGED found
  /\ UNCHANGED <<disk, signals, queries, listings, watched, names, missed, skipped,
                 storeChanges>>

\* find_profile_by_filename_cb
Found ==
  /\ found # <<>> /\ found' = Tail(found)
  /\ storeCalls' = Append(storeCalls, [type |-> "delete", profile |-> Head(found)])
  /\ UNCHANGED <<disk, signals, queries, listings, watched, names, registered,
                 history, storeChanges>>

StoreNext ==
  \/ User \/ MonitorChanged \/ StoreColordHandles \/ Found
  \/ \E path \in queries : Queried(path)
  \/ \E l \in listings : ReadDirectory(l) \/ Listed(l)

StoreSpec == StoreInit /\ [][StoreNext]_storeVars

StoreTypeOK ==
  /\ storeThere \subseteq Dirs /\ watched \subseteq Dirs
  /\ file \in [ProfileFiles -> {"none", "part", "whole"}]
  /\ names \in Seq(ProfileFiles) /\ registered \subseteq ProfileFiles
  /\ queries \subseteq ProfileFiles \cup Dirs
  /\ storeChanges \in 0..MaxFileChanges

\* Once all has been looked at and answered, colord has the profiles there are,
\* and no others, whatever came and went while directories were listed.  A file
\* that is read while it is written is never read again, of the files of a
\* directory that is moved away every other one is forgotten, and a file that is
\* back while its profile is being deleted has none
\* (gcm_profile_store_file_monitor_changed_cb, gcm_profile_store_remove_from_prefix,
\* gcm_session_find_profile_by_filename_cb).
ProfilesKnown ==
  signals = <<>> /\ queries = {} /\ listings = {} /\ storeCalls = <<>> /\ found = <<>> =>
    \A p \in ProfileFiles \ (skipped \cup storeLate) :
      /\ file[p] = "none" => p \notin registered
      /\ file[p] = "whole" /\ p \notin missed => p \in registered

-----------------------------------------------------------------------------
(* What the color plugin reads in the EDID of a monitor, and what it writes *)
(* of it into the monitor's profile.  One object can read several.          *)
CONSTANTS
  Edids,              \* what monitors send, see EdidTypeOK
  Names               \* what firmware calls the machine: each name may be missing

EdidNone == "none"
Coordinates == {"rx", "ry", "gx", "gy", "bx", "by", "wx", "wy"}
Texts == {"name", "serial", "eisa"}

VARIABLES
  sent,               \* what was read last
  ok,                 \* whether that could be parsed
  edid,               \* the object
  dmi,                \* what firmware calls the machine and its maker
  edidProfile             \* the profile last written, if any

edidVars == <<sent, ok, edid, dmi, edidProfile>>

\* The fields after gcm_edid_reset.  Colors are not reset.  A bug: nor is the name.
ResetButName(e) ==
  [e EXCEPT !.serial = EdidNone, !.eisa = EdidNone, !.checksum = EdidNone, !.gamma = 0]
Reset(e) ==
  [e EXCEPT !.name = EdidNone, !.serial = EdidNone, !.eisa = EdidNone,
      !.checksum = EdidNone, !.gamma = 0]

\* Bits of a byte from begin to end: none where the end comes first.
Bits(byte, begin, end) ==
  (byte \div 2^begin) % (IF end + 1 >= begin THEN 2^(end + 1 - begin) ELSE 1)

\* The lowest bits of each coordinate, as they are asked for.
Low(e, c) ==
  CASE c = "rx" -> Bits(e.low[1], 6, 7) [] c = "ry" -> Bits(e.low[1], 5, 4)
    [] c = "gx" -> Bits(e.low[1], 2, 3) [] c = "gy" -> Bits(e.low[1], 0, 1)
    [] c = "bx" -> Bits(e.low[2], 6, 7) [] c = "by" -> Bits(e.low[2], 4, 5)
    [] c = "wx" -> Bits(e.low[2], 2, 3) [] c = "wy" -> Bits(e.low[2], 0, 1)

\* gcm_edid_decode_fraction, in 1024ths.
Fraction(high, low) == high * 4 + low

\* Text that is empty, or has more than four unprintable characters, is ignored.
ParseString(t) == IF t.text = "" \/ t.unprintable > 4 THEN EdidNone ELSE t.text

\* In hundredths.
Gamma(byte) == byte + 100

\* A block of data: the last one of its kind that can be read counts.  The second
\* gamma of a color point stands for the first.
Block(e, b) ==
  CASE b.kind \in Texts /\ ParseString(b) # EdidNone ->
      [e EXCEPT ![b.kind] = ParseString(b)]
    [] b.kind = "point" /\ (b.first # 255 \/ b.second # 255) ->
         [e EXCEPT !.gamma = Gamma(b.first)]
    [] OTHER -> e

Parse(e) ==
  LET start == [Reset(edid) EXCEPT
                  !.serial = IF e.serial > 0 THEN "number" ELSE EdidNone,
                  !.gamma = IF e.gamma = 255 THEN 100 ELSE Gamma(e.gamma),
                  !.color = [c \in Coordinates |-> Fraction(e.high[c], Low(e, c))]]
  IN [FoldLeft(Block, start, e.blocks) EXCEPT !.checksum = e.id]

EdidInit ==
  /\ sent \in Edids /\ ok = FALSE /\ edidProfile = {}
  /\ edid = [name |-> EdidNone, serial |-> EdidNone, eisa |-> EdidNone,
         checksum |-> EdidNone,
             gamma |-> 0, color |-> [c \in Coordinates |-> 0]]
  /\ \E product, board, vendor \in Names \cup {EdidNone} :
       dmi = [name |-> IF product # EdidNone THEN product ELSE board, vendor |-> vendor]

Read(e) ==
  /\ sent' = e /\ ok' = (e.whole /\ e.header)
  /\ edid' = IF ok' THEN Parse(e) ELSE edid
  /\ UNCHANGED <<dmi, edidProfile>>

Or(x, y, z) == IF x # EdidNone THEN x ELSE IF y # EdidNone THEN y ELSE z

\* gcm_apply_create_icc_profile_for_edid: a gamma out of bounds is not recorded.
CreateProfile ==
  /\ ok
  /\ edidProfile' = {[model |-> Or(edid.name, dmi.name, "Unknown monitor"),
                  maker |-> Or(sent.vendor, dmi.vendor, "Unknown vendor"),
                  md5 |-> edid.checksum, serial |-> edid.serial,
                  gamma |-> IF edid.gamma > 0 /\ edid.gamma < 1000 THEN edid.gamma ELSE 0,
                  source |-> "edid", color |-> edid.color]}
  /\ UNCHANGED <<sent, ok, edid, dmi>>

EdidNext == (\E e \in Edids : Read(e)) \/ CreateProfile

EdidSpec == EdidInit /\ [][EdidNext]_edidVars

EdidTypeOK ==
  /\ sent \in Edids
  /\ \A e \in Edids : /\ {e.whole, e.header} \subseteq BOOLEAN /\ e.serial \in Nat
                      /\ e.high \in [Coordinates -> 0..255] /\ e.low \in Seq(0..255)
                      /\ Len(e.blocks) = 4
  /\ ok \in BOOLEAN /\ edid.color \in [Coordinates -> 0..1023] /\ edid.gamma \in 0..355

\* The last of the blocks that can be read.
LastRead(e, kind) ==
  LET I == {i \in 1..4 : e.blocks[i].kind = kind /\ ParseString(e.blocks[i]) # EdidNone}
  IN IF I = {} THEN EdidNone ELSE e.blocks[Max(I)].text

\* Where the two lowest bits of each coordinate are.
Place == [c \in Coordinates |->
  CASE c \in {"rx", "bx"} -> 64 [] c \in {"ry", "by"} -> 16
    [] c \in {"gx", "wx"} -> 4  [] c \in {"gy", "wy"} -> 1]

\* An object that has read several monitors has nothing of the former ones, and
\* what it has is what the monitor sent - but for the red y, which loses its lowest
\* bits (gcm_edid_parse).
OwnData ==
  ok =>
    /\ edid.name = LastRead(sent, "name") /\ edid.eisa = LastRead(sent, "eisa")
    /\ edid.serial = Or(LastRead(sent, "serial"),
                        IF sent.serial > 0 THEN "number" ELSE EdidNone, EdidNone)
    /\ edid.checksum = sent.id
    /\ \A c \in Coordinates \ {"ry"} :
         LET byte == sent.low[IF c \in {"rx", "gx", "gy"} THEN 1 ELSE 2] IN
           edid.color[c] = sent.high[c] * 4 + ((byte \div Place[c]) % 4)
    /\ edid.color["ry"] \div 4 = sent.high["ry"]
=============================================================================
