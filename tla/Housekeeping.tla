---------------------------- MODULE Housekeeping ----------------------------
(* The housekeeping plugin (plugins/housekeeping): notices about full      *)
(* disks, and what is purged of the temporary files, the trash and the     *)
(* thumbnails.                                                             *)
EXTENDS Naturals, Sequences, SequencesExt, FiniteSets, Integers, Functions

-----------------------------------------------------------------------------
(* The warnings of gsd-disk-space.c about volumes that are nearly full: one *)
(* at a time, as a notification or as a dialog that runs a main loop of its *)
(* own in the middle of the check, while mounts and settings change.        *)
CONSTANTS
  Volumes,
  Low, Again,  \* free-percent-notify, free-percent-notify-again
  Period,      \* min-notify-period
  MaxFree, MaxTime, DiskEvents  \* bounds

VARIABLES
  hasActions,      \* the server of notifications can have buttons
  running, timer,  \* gsd_ldsm_setup was done; ldsm_timeout_id
  mounted, noticed,  \* mounts, and whether the monitor has told of them
  free, ignored,   \* of each volume; the paths of "ignore-paths"
  notified,        \* ldsm_notified_hash
  shown,           \* the dialog or the notification that is displayed
  rest,            \* what the check that shows a dialog has still to look at
  from,            \* who called that check
  told,            \* when the user was told of a volume, while low (history)
  muted,           \* volumes noted while something else was shown (history)
  nagged, stray,   \* told again too soon; timer left by a stop (history)
  clock, disksEvents

diskVars == <<hasActions, running, timer, mounted, noticed, free, ignored, notified,
              shown, rest, from, told, muted, nagged, stray, clock, disksEvents>>
disks == <<hasActions, mounted, noticed, free, ignored>>

None == [free |-> 0, time |-> MaxTime + 1]
Note(f, t) == [free |-> f, time |-> t]
Nobody == [v \in Volumes |-> None]
NoVolume == "none"

DiskTypeOK ==
  /\ {hasActions, running, timer, noticed, nagged, stray} \subseteq BOOLEAN
  /\ mounted \subseteq Volumes /\ ignored \subseteq Volumes /\ muted \subseteq Volumes
  /\ free \in [Volumes -> 0..MaxFree] /\ shown \in Volumes \cup {NoVolume}
  /\ \A v \in Volumes : {notified[v], told[v]} \subseteq
         [free : 0..MaxFree, time : 0..MaxTime + 1]
  /\ \A n \in DOMAIN rest : rest[n].volume \in Volumes
  /\ from \in {"timer", "mounts"} /\ clock \in 0..MaxTime /\ disksEvents \in 0..DiskEvents

DiskInit ==
  /\ hasActions \in BOOLEAN /\ running = FALSE /\ timer = FALSE /\ mounted = Volumes
  /\ noticed = TRUE
  /\ free = [v \in Volumes |-> MaxFree] /\ ignored = {} /\ notified = Nobody
  /\ shown = NoVolume /\ rest = <<>> /\ from = "timer" /\ told = Nobody /\ muted = {}
  /\ nagged = FALSE /\ stray = FALSE /\ clock = 0 /\ disksEvents = 0

-----------------------------------------------------------------------------
(* ldsm_maybe_warn_mounts.                                                 *)

Falls(notes, e) == notes[e.volume].free > e.free + Again
\* New, or fallen far enough and long after the last time.
Shows(notes, e) ==
  \/ notes[e.volume] = None
  \/ Falls(notes, e) /\ clock > notes[e.volume].time + Period

\* Bug: the time of the last notice is not kept with the new free space.
NotedLater(notes, e, time) == [notes EXCEPT ![e.volume] = Note(e.free, 0)]
\* It is too soon: the new free space is kept with the old time.
Noted(notes, e, time) == [notes EXCEPT ![e.volume] = Note(e.free, time)]

\* Up to the first volume to be told of; what comes after that is dropped, or
\* has to wait for the answer of the dialog.
Passed(list, notes) == SelectInSeq(list, LAMBDA e : Shows(notes, e))
Skipped(list, notes) ==
  LET last == IF Passed(list, notes) = 0 THEN Len(list) ELSE Passed(list, notes) - 1
      Skip[n \in 0..last] ==
        IF n = 0 THEN notes
        ELSE LET e == list[n] IN
          IF Falls(notes, e) THEN Noted(Skip[n - 1], e, notes[e.volume].time)
          ELSE Skip[n - 1]
  IN Skip[last]

\* What the history says of the volumes that are known no more.
StillNoted(notes, history) == [v \in Volumes |-> IF notes[v] = None THEN None
    ELSE history[v]]

TooSoon(last, e) ==
  last # None /\ (clock <= last.time + Period \/ last.free <= e.free + Again)

Warn(list, notes, caller) ==
  LET at == Passed(list, notes)
      e == list[at]
      busy == shown # NoVolume
      history == StillNoted(notes, told)
  IN IF at = 0
     THEN /\ notified' = Skipped(list, notes) /\ told' = history /\ muted' = {v \in muted : notes[v] # None}
          /\ UNCHANGED <<shown, nagged>>
          /\ rest' = IF busy THEN rest ELSE <<>>
          /\ from' = IF busy THEN from ELSE "timer"
     ELSE /\ notified' = Noted(Skipped(list, notes), e, clock)
          /\ shown' = IF busy THEN shown ELSE e.volume
          /\ muted' = {v \in muted : notes[v] # None} \cup (IF busy THEN {e.volume} ELSE {})
          /\ told' = IF busy THEN history
                 ELSE [history EXCEPT ![e.volume] = Note(e.free, clock)]
          /\ nagged' = (nagged \/ (~busy /\ TooSoon(history[e.volume], e)))
          /\ rest' = IF busy THEN rest
                     ELSE IF hasActions THEN <<>> ELSE SubSeq(list, at + 1, Len(list))
          /\ from' = IF busy THEN from ELSE IF hasActions THEN "timer" ELSE caller

-----------------------------------------------------------------------------
(* The check.                                                              *)

Checked == mounted \ ignored
HasSpace(v) == free[v] > Low
FullMounts ==
  LET list == SetToSeq({v \in Checked : ~HasSpace(v)}) IN
    [n \in DOMAIN list |-> [volume |-> list[n], free |-> free[list[n]]]]

\* ldsm_check_all_mounts: one that has space is forgotten.
CheckAll(notes, caller) ==
  Warn(FullMounts, [v \in Volumes |-> IF v \in Checked
      /\ HasSpace(v) THEN None ELSE notes[v]], caller)

Timeout ==
  /\ timer /\ running /\ CheckAll(notified, "timer")
  /\ UNCHANGED <<running, timer, disks, stray, clock, disksEvents>>

\* ldsm_mounts_changed: the timer is set anew after the check, and so after a
\* dialog that the check may show.
MountsChanged ==
  /\ running /\ ~noticed /\ noticed' = TRUE
  /\ CheckAll([v \in Volumes |-> IF v \in mounted THEN notified[v] ELSE None], "mounts")
  /\ UNCHANGED <<hasActions, running, timer, mounted, free, ignored, stray, clock,
                 disksEvents>>

\* The dialog ends.  What the user does may help other volumes too, so that
\* the rest is dropped, but not where the user has cancelled or looks first.
Answer ==
  /\ shown # NoVolume /\ ~hasActions
  /\ \/ /\ shown' = NoVolume /\ rest' = <<>> /\ from' = "timer"
        /\ UNCHANGED <<notified, told, muted, nagged>>
     \/ LET at == Passed(rest, notified) IN
          /\ notified' = Skipped(rest, notified)
          /\ (at = 0) /\ shown' = NoVolume /\ rest' = <<>> /\ from' = "timer"
          /\ UNCHANGED <<told, muted, nagged>>
     \/ LET at == Passed(rest, notified)
            e == rest[at]
        IN /\ at # 0 /\ shown' = e.volume /\ rest' = SubSeq(rest, at + 1, Len(rest))
           /\ notified' = Noted(Skipped(rest, notified), e, clock)
           /\ told' = [told EXCEPT ![e.volume] = Note(e.free, clock)]
           /\ nagged' = (nagged \/ TooSoon(told[e.volume], e))
           /\ UNCHANGED <<from, muted>>
  /\ UNCHANGED <<running, timer, disks, stray, clock, disksEvents>>

\* on_notification_closed
Closed ==
  /\ shown # NoVolume /\ hasActions /\ shown' = NoVolume
  /\ UNCHANGED <<running, timer, disks, notified, rest, from, told, muted, nagged,
                 stray, clock, disksEvents>>

DiskHappens == disksEvents < DiskEvents /\ disksEvents' = disksEvents + 1
checks == <<notified, shown, rest, from, told, muted, nagged>>

\* gsd_ldsm_setup, unless something is left of the last time.
Setup ==
  /\ DiskHappens /\ ~running
  /\ IF timer THEN UNCHANGED <<running, timer>> ELSE running' = TRUE /\ timer' = TRUE
  /\ UNCHANGED <<disks, checks, stray, clock>>

\* gsd_ldsm_clean destroys a dialog: the check that showed it ends, and where
\* ldsm_mounts_changed had called it, that sets its timer.
Clean ==
  /\ DiskHappens /\ running /\ running' = FALSE
  /\ stray' = (~hasActions /\ shown # NoVolume /\ from = "mounts") /\ timer' = stray'
  /\ notified' = Nobody /\ shown' = NoVolume /\ rest' = <<>> /\ from' = "timer"
  /\ told' = Nobody /\ muted' = {} /\ UNCHANGED <<disks, nagged, clock>>

\* gsd_ldsm_get_config forgets what is ignored now.
Ignore(v) ==
  /\ DiskHappens /\ running
  /\ ignored' = IF v \in ignored THEN ignored \ {v} ELSE ignored \cup {v}
  /\ notified' = [u \in Volumes |-> IF u \in ignored' THEN None ELSE notified[u]]
  /\ told' = StillNoted(notified', told) /\ muted' = muted \ ignored'
  /\ UNCHANGED <<hasActions, running, timer, mounted, noticed, free, shown, rest,
                 from, nagged, stray, clock>>

\* The dialog's check button, update_ignore_paths: of the paths that are stored
\* only the first is read, so that others are lost.
Toggle ==
  /\ DiskHappens /\ running /\ shown # NoVolume /\ ~hasActions
  /\ \E read \in SUBSET ignored :
       /\ read # {} \/ ignored = {}
       /\ \A u, v \in read : u = v
       /\ ignored' = IF shown \notin ignored THEN read \cup {shown}
                     ELSE IF shown \in read THEN {} ELSE ignored
  /\ notified' = [v \in Volumes |-> IF v \in ignored' THEN None ELSE notified[v]]
  /\ told' = StillNoted(notified', told) /\ muted' = muted \ ignored'
  /\ UNCHANGED <<hasActions, running, timer, mounted, noticed, free, shown, rest,
                 from, nagged, stray, clock>>

TimePasses ==
  /\ clock < MaxTime /\ clock' = clock + 1
  /\ UNCHANGED <<running, timer, disks, checks, stray, disksEvents>>

Use(v) ==
  /\ DiskHappens /\ free' \in {[free EXCEPT ![v] = f] : f \in 0..MaxFree \ {free[v]}}
  /\ UNCHANGED <<hasActions, running, timer, mounted, noticed, ignored, checks,
                 stray, clock>>

Remount(v) ==
  /\ DiskHappens /\ noticed' = FALSE
  /\ mounted' = IF v \in mounted THEN mounted \ {v} ELSE mounted \cup {v}
  /\ UNCHANGED <<hasActions, running, timer, free, ignored, checks, stray, clock>>

DiskNext ==
  \/ Timeout \/ MountsChanged \/ Answer \/ Closed \/ Toggle \/ Setup \/ Clean \/ TimePasses
  \/ \E v \in Volumes : Ignore(v) \/ Use(v) \/ Remount(v)
DiskSpec == DiskInit /\ [][DiskNext]_diskVars

-----------------------------------------------------------------------------
(* NotNagged: while a volume stays low, the user is told of it again only  *)
(* when it has lost more than free-percent-notify-again since the last     *)
(* time, and not before the period has passed.                             *)
NotNagged == ~nagged

(* LowIsTold: when nothing is shown, a volume that is known to be low is   *)
(* one the user was told of, or that was noted while another was shown.    *)
LowIsTold == \A v \in Volumes : notified[v] # None => told[v] # None \/ v \in muted

(* StopsForGood: a plugin that was stopped has no timer, so that it can be *)
(* started again; excepted is a stop in a dialog about changed mounts.     *)
StopsForGood == ~running => (timer => stray) /\ shown = NoVolume /\ notified = Nobody

-----------------------------------------------------------------------------
(* What gsd-disk-space.c deletes from the trash and from directories for   *)
(* temporary files: it goes down the tree by asynchronous calls, several   *)
(* purges at a time, while others change the files.                        *)
CONSTANTS
  Entries, Dirs,  \* files and directories, and which are directories
  Root, Parent,   \* the tree: Root is none of Entries
  PurgeEvents       \* bound on what others do

VARIABLES
  trash,    \* the tree is the trash, or else a directory of temporary files
  exists, age,  \* when each was trashed or changed: the less, the longer ago
  mine,     \* the user's files
  tasks,    \* DeleteData: an entry, the age to purge, the next call
  wrong,    \* something was deleted that should not (history)
  purgeEvents

purgeVars == <<trash, exists, age, mine, tasks, wrong, purgeEvents>>
Ages == 0..2
Task(e, limit, step) == [entry |-> e, limit |-> limit, step |-> step]

PurgeTypeOK ==
  /\ {trash, wrong} \subseteq BOOLEAN /\ {exists, mine} \subseteq SUBSET Entries
  /\ age \in [Entries -> Ages] /\ purgeEvents \in 0..PurgeEvents
  /\ \A t \in tasks : /\ t.entry \in Entries \cup {Root} /\ t.limit \in Ages
                      /\ t.step \in {"enumerate", "batch", "end"}

Children(e) == {c \in exists : Parent[c] = e}
Depth[e \in Entries \cup {Root}] == IF e = Root THEN 0 ELSE Depth[Parent[e]] + 1
Top[e \in Entries] == IF Parent[e] = Root THEN e ELSE Top[Parent[e]]

PurgeInit ==
  /\ trash \in BOOLEAN /\ exists = Entries /\ age \in [Entries -> {0, 1}]
  /\ \A e \in Entries \ Dirs : age[e] = 0
  /\ mine \in {Entries, Entries \ {CHOOSE e \in Entries : Parent[e] = Root}}
  /\ trash => mine = Entries
  /\ tasks = {} /\ wrong = FALSE /\ purgeEvents = 0

-----------------------------------------------------------------------------
\* should_purge_file: what was trashed has a date of its own.
ShouldPurge(e, limit) ==
  e \in exists /\ (e \in mine \/ (trash /\ Depth[e] = 1)) /\ age[e] <= limit

\* Bug: what has been in the trash for a short time is gone into.
EntersAll(e, limit) == TRUE
\* delete_recursively_by_age
Enters(e, limit) == trash /\ Depth[e] = 1 => ShouldPurge(e, limit)

\* gsd_ldsm_purge_trash and gsd_ldsm_purge_temp_files, for the hourly timer
\* and for calls.  The dialog's gsd_ldsm_show_empty_trash is a dry run.
Purge(limit) ==
  /\ \A t \in tasks : t.limit # limit
  /\ tasks' = tasks \cup {Task(Root, limit, "enumerate")}
  /\ UNCHANGED <<trash, exists, age, mine, wrong, purgeEvents>>

\* delete_subdir: a file cannot be enumerated, and is left.
Enumerate(t) ==
  /\ t.step = "enumerate"
  /\ tasks' = (tasks \ {t}) \cup
       (IF t.entry = Root \/ t.entry \in exists \cap Dirs
        THEN {Task(t.entry, t.limit, "batch")} ELSE {})
  /\ UNCHANGED <<trash, exists, age, mine, wrong, purgeEvents>>

\* delete_batch begins with what is in a directory, without waiting for it.
Batch(t) ==
  /\ t.step = "batch"
  /\ tasks' = (tasks \ {t}) \cup {Task(t.entry, t.limit, "end")}
       \cup {Task(c, t.limit, "enumerate") :
             c \in {d \in Children(t.entry) : Enters(d, t.limit)}}
  /\ UNCHANGED <<trash, exists, age, mine, wrong, purgeEvents>>

\* Bug: a directory's age is not looked at again after its contents.
DeletesAll(t) == Depth[t.entry] > 0
\* The end of delete_batch.
Deletes(t) ==
  /\ Depth[t.entry] > 0
  /\ (trash /\ Depth[t.entry] > 1) \/ ShouldPurge(t.entry, t.limit)

\* g_file_delete removes no directory with something in it; a change to a
\* directory is a change of its time, but not of when it was trashed.
End(t) ==
  /\ t.step = "end" /\ tasks' = tasks \ {t}
  /\ IF Deletes(t) /\ t.entry \in exists /\ Children(t.entry) = {}
     THEN /\ exists' = exists \ {t.entry}
          /\ age' = IF trash \/ Parent[t.entry] = Root THEN age
                    ELSE [age EXCEPT ![Parent[t.entry]] = 2]
          /\ wrong' = (wrong \/ IF trash THEN age[Top[t.entry]] > t.limit
                                ELSE (age[t.entry] > t.limit \/ t.entry \notin mine))
     ELSE UNCHANGED <<exists, age, wrong>>
  /\ UNCHANGED <<trash, mine, purgeEvents>>

PurgeHappens == purgeEvents < PurgeEvents /\ purgeEvents' = purgeEvents + 1

\* Others make, change or remove files; in the trash, new ones come in.
Make(e) ==
  /\ PurgeHappens /\ e \notin exists /\ Parent[e] \in exists \cup {Root}
  /\ exists' = exists \cup {e}
  /\ age' = [f \in Entries |->
       IF f = e \/ (f = Parent[e] /\ ~trash) THEN 2 ELSE age[f]]
  /\ trash => Parent[e] = Root
  /\ UNCHANGED <<trash, mine, tasks, wrong>>

Touch(e) ==
  /\ PurgeHappens /\ ~trash /\ e \in exists /\ age' = [age EXCEPT ![e] = 2]
  /\ UNCHANGED <<trash, exists, mine, tasks, wrong>>

RemoveFile(e) ==
  /\ PurgeHappens /\ e \in exists /\ Children(e) = {} /\ exists' = exists \ {e}
  /\ UNCHANGED <<trash, age, mine, tasks, wrong>>

PurgeNext ==
  \/ \E limit \in {0, 1} : Purge(limit)
  \/ \E t \in tasks : Enumerate(t) \/ Batch(t) \/ End(t)
  \/ \E e \in Entries : Make(e) \/ Touch(e) \/ RemoveFile(e)
PurgeSpec == PurgeInit /\ [][PurgeNext]_purgeVars

-----------------------------------------------------------------------------
(* YoungKept: whatever others do meanwhile, nothing younger than the age   *)
(* is deleted, nothing of what was trashed lately loses its contents, and  *)
(* of temporary files none of another user or none that was changed while  *)
(* the purge went through it.                                              *)
YoungKept == ~wrong

-----------------------------------------------------------------------------
(* The thumbnails that gsd-housekeeping-manager.c keeps: two minutes after  *)
(* the start and after a change of setting, once a day, and at the end if a *)
(* limit is zero, those too old go, and then the oldest until all fit.      *)
CONSTANTS
  Files,            \* names of thumbnails
  MaxAge, MaxSize,  \* bounds on ages and sizes
  ThumbEvents         \* bound on what users do

VARIABLES
  started,    \* the plugin runs, with long_term_cb
  thumbsAge, size,  \* of each file; one of size 0 is not there
  ageLimit, sizeLimit,  \* the settings; below 0 for no limit
  soon,       \* short_term_cb
  before,     \* the files' sizes at the last clean-up (history)
  clean,      \* nothing has changed since (history)
  unread,     \* a setting has, while the plugin ran (history)
  thumbsEvents

thumbVars == <<started, thumbsAge, size, ageLimit, sizeLimit, soon, before, clean,
               unread, thumbsEvents>>
Limits == <<ageLimit, sizeLimit>>
There(sizes) == {f \in Files : sizes[f] > 0}

ThumbTypeOK ==
  /\ {started, soon, clean, unread} \subseteq BOOLEAN
  /\ thumbsAge \in [Files -> 0..MaxAge] /\ {size, before} \subseteq [Files -> 0..MaxSize]
  /\ ageLimit \in -1..MaxAge /\ sizeLimit \in -1..MaxSize /\ thumbsEvents \in 0..ThumbEvents

ThumbInit ==
  /\ started = FALSE /\ thumbsAge = [f \in Files |-> 0] /\ size = [f \in Files |-> 0]
  /\ ageLimit \in -1..1 /\ sizeLimit \in -1..1 /\ soon = FALSE
  /\ before = size /\ clean = FALSE /\ unread = FALSE /\ thumbsEvents = 0

-----------------------------------------------------------------------------
\* purge_old_thumbnails
Young(sizes) ==
  IF ageLimit < 0 THEN sizes ELSE
      [f \in Files |-> IF thumbsAge[f] > ageLimit THEN 0 ELSE sizes[f]]
\* total_size is counted with the ages, so that without a limit of age it is 0.
Counted(sizes) == IF ageLimit < 0 THEN 0 ELSE SumFunction(sizes)

\* Bug: the newest go first.
GoesNewest(f, files) == \A g \in files : thumbsAge[f] <= thumbsAge[g]
\* sort_file_mtime
GoesFirst(f, files) == \A g \in files : thumbsAge[f] >= thumbsAge[g]

\* The loop over the sorted files: after n of them, what is left and its total.
Fitted(sizes, total) ==
  LET Fit[n \in 0..Cardinality(Files)] ==
        IF n = 0 THEN [sizes |-> sizes, total |-> total]
        ELSE LET last == Fit[n - 1] IN
          IF last.total <= sizeLimit \/ There(last.sizes) = {} THEN last
          ELSE LET f == CHOOSE f \in There(last.sizes) : GoesFirst(f, There(last.sizes)) IN
            [sizes |-> [last.sizes EXCEPT ![f] = 0], total |-> last.total - last.sizes[f]]
  IN Fit[Cardinality(Files)].sizes

\* purge_thumbnail_cache
Purged ==
  LET young == Young(size) IN
    IF sizeLimit >= 0 /\ Counted(young) > sizeLimit THEN Fitted(young, Counted(young))
        ELSE young

Cleanup == size' = Purged /\ before' = size /\ clean' = TRUE /\ unread' = FALSE

-----------------------------------------------------------------------------
ThumbHappens == thumbsEvents < ThumbEvents /\ thumbsEvents' = thumbsEvents + 1

Start ==
  /\ ThumbHappens /\ ~started /\ started' = TRUE /\ soon' = TRUE
  /\ UNCHANGED <<thumbsAge, size, Limits, before, clean, unread>>

\* Once a day, or once two minutes after something.
Daily == started /\ Cleanup /\ UNCHANGED <<started, thumbsAge, Limits, soon,
                                           thumbsEvents>>
Once ==
  /\ started /\ soon /\ soon' = FALSE /\ Cleanup
  /\ UNCHANGED <<started, thumbsAge, Limits, thumbsEvents>>

Paranoid == ageLimit = 0 \/ sizeLimit = 0

\* gsd_housekeeping_manager_stop
Stop ==
  /\ ThumbHappens /\ started /\ started' = FALSE /\ soon' = FALSE
  /\ IF Paranoid THEN Cleanup ELSE UNCHANGED <<size, before, clean>> /\ unread' = FALSE
  /\ UNCHANGED <<thumbsAge, Limits>>

\* settings_changed_callback, do_cleanup_soon
SetLimit ==
  /\ ThumbHappens
  /\ \/ ageLimit' \in -1..MaxAge \ {ageLimit} /\ UNCHANGED sizeLimit
     \/ sizeLimit' \in -1..MaxSize \ {sizeLimit} /\ UNCHANGED ageLimit
  /\ soon' = started /\ unread' = started /\ clean' = FALSE
  /\ UNCHANGED <<started, thumbsAge, size, before>>

View(f) ==
  /\ ThumbHappens /\ size[f] = 0 /\ \E s \in 1..MaxSize : size' = [size EXCEPT ![f] = s]
  /\ thumbsAge' = [thumbsAge EXCEPT ![f] = 0] /\ clean' = FALSE
  /\ UNCHANGED <<started, Limits, soon, before, unread>>

Days ==
  /\ ThumbHappens /\ thumbsAge' =
         [f \in Files |-> IF thumbsAge[f] < MaxAge THEN thumbsAge[f] + 1 ELSE thumbsAge[f]]
  /\ clean' = FALSE /\ UNCHANGED <<started, size, Limits, soon, before, unread>>

ThumbNext ==
  \/ Start \/ Daily \/ Once \/ Stop \/ SetLimit \/ Days
  \/ \E f \in Files : View(f)
ThumbSpec == ThumbInit /\ [][ThumbNext]_thumbVars

-----------------------------------------------------------------------------
(* LimitsKept: after a clean-up no file is too old and all fit together,   *)
(* and one that went though it was not too old is not younger than one     *)
(* that stayed; a changed limit has a clean-up on its way.  Without a      *)
(* limit of age the code keeps to no other.                                *)
LimitsKept ==
  /\ unread => soon
  /\ clean =>
       \A f \in There(before) \ There(size) :
         \/ thumbsAge[f] > ageLimit /\ ageLimit >= 0
         \/ \A g \in There(size) : thumbsAge[g] <= thumbsAge[f]
  /\ clean /\ ageLimit >= 0 =>
       /\ \A f \in There(size) : thumbsAge[f] <= ageLimit
       /\ sizeLimit >= 0 => SumFunction(size) <= sizeLimit
=============================================================================
