------------------------------ MODULE Desktop -------------------------------
(* What follows the desktop's settings: the cache of sounds, animations    *)
(* while somebody looks on from afar, GConf, and the picture of the        *)
(* background.                                                             *)
EXTENDS Naturals, Sequences, TLC

-----------------------------------------------------------------------------
(* The samples a sound server has cached are flushed some time after the     *)
(* theme or its files changed, once for changes that come together.          *)
CONSTANTS
  Samples,     \* the events of a theme
  MaxTheme,    \* bounds the changes
  MaxSoundActs      \* bounds starts, stops and failures

VARIABLES
  soundRunning,
  theme,       \* how often the theme has changed
  soundSignals,     \* changes not yet heard of
  timeout,     \* the flush waits
  cached,      \* the theme each sample is of; 0 if it is not cached
  failed,      \* history: changes may have been lost: PulseAudio failed, or nobody listened
  soundActs

soundVars == <<soundRunning, theme, soundSignals, timeout, cached, failed, soundActs>>

SoundInit ==
  /\ soundRunning = FALSE /\ theme = 1 /\ soundSignals = 0 /\ timeout = FALSE
  /\ failed = FALSE
  /\ cached = [s \in Samples |-> 0] /\ soundActs = 0

SoundActs == soundActs < MaxSoundActs /\ soundActs' = soundActs + 1

SoundStart ==
  /\ SoundActs /\ ~soundRunning /\ soundRunning' = TRUE /\ UNCHANGED <<theme, soundSignals,
                                                                       timeout, cached,
                                                                       failed>>

SoundStop ==
  /\ SoundActs /\ soundRunning /\ soundRunning' = FALSE /\ timeout' = FALSE
  /\ soundSignals' = 0
  /\ failed' = (failed \/ timeout \/ soundSignals > 0) /\ UNCHANGED <<theme, cached>>

\* The setting, or a file of a directory that is watched.
ThemeChanges ==
  /\ theme < MaxTheme /\ theme' = theme + 1
  /\ soundSignals' = (IF soundRunning THEN soundSignals + 1 ELSE 0)
         /\ failed' = (failed \/ ~soundRunning)
  /\ UNCHANGED <<soundRunning, timeout, cached, soundActs>>

\* Applications play the sounds of the theme and so cache them.
Play(s) ==
  /\ cached[s] = 0 /\ cached' = [cached EXCEPT ![s] = theme]
  /\ UNCHANGED <<soundRunning, theme, soundSignals, timeout, failed, soundActs>>

\* A bug: the wait ends, and does not begin again.
TriggerOnce == timeout' = ~timeout

\* trigger_flush: the wait begins again.
TriggerFlush == timeout' = TRUE

Changed ==
  /\ soundSignals > 0 /\ soundSignals' = soundSignals - 1 /\ TriggerFlush
  /\ UNCHANGED <<soundRunning, theme, cached, failed, soundActs>>

\* flush_cb, flush_cache: the daemon waits for all that is asked to be sent.
Flush ==
  /\ timeout /\ timeout' = FALSE /\ cached' = [s \in Samples |-> 0]
  /\ UNCHANGED <<soundRunning, theme, soundSignals, failed, soundActs>>

\* The sound server is not there, or goes when some samples were removed.
FlushFails ==
  /\ SoundActs /\ timeout /\ timeout' = FALSE /\ failed' = TRUE
  /\ \E some \in SUBSET Samples : cached' =
         [s \in Samples |-> IF s \in some THEN 0 ELSE cached[s]]
  /\ UNCHANGED <<soundRunning, theme, soundSignals>>

SoundNext ==
  \/ SoundStart \/ SoundStop \/ ThemeChanges \/ Changed \/ Flush \/ FlushFails
  \/ \E s \in Samples : Play(s)

SoundSpec == SoundInit /\ [][SoundNext]_soundVars

-----------------------------------------------------------------------------
SoundTypeOK ==
  /\ {soundRunning, timeout, failed} \subseteq BOOLEAN /\ theme \in 1..MaxTheme
  /\ soundSignals \in 0..MaxTheme /\ cached \in [Samples -> 0..MaxTheme]
  /\ soundActs \in 0..MaxSoundActs

(* With nothing left to hear or to flush, no sample of an earlier theme is   *)
(* cached, unless the sound server failed or nobody listened: a flush that   *)
(* failed or was stopped is not tried again (flush_cb, 183).                 *)
NoOldSamples ==
  soundSignals = 0 /\ ~timeout /\ ~failed => \A s \in Samples : cached[s] \in {0, theme}

-----------------------------------------------------------------------------
(* Animations are off while somebody is connected to the screen from afar.   *)
CONSTANTS
  MaxRemoteActs      \* bounds what Vino, its clients and the plugin's users do

VARIABLES
  remote,      \* spice's port is there, or the X server is Xvnc: never changes
  remoteRunning,
  vino,        \* "gone", "idle" or "connected"
  wire,        \* what the bus has to say
  asked,       \* proxies being made
  proxies,     \* those that live, leaked ones included
  held,        \* manager->priv->vino_proxy is there
  animations,  \* enable-animations
  watches,     \* of the name: stopping leaves them
  remoteActs

remoteVars == <<remote, remoteRunning, vino, wire, asked, proxies, held, animations,
                watches, remoteActs>>

RemoteInit ==
  /\ remote \in BOOLEAN /\ remoteRunning = FALSE /\ vino = "gone" /\ wire = <<>>
  /\ asked = 0
  /\ proxies = 0 /\ held = FALSE /\ animations = TRUE /\ watches = 0 /\ remoteActs = 0

RemoteActs == remoteActs < MaxRemoteActs /\ remoteActs' = remoteActs + 1

\* Each watch tells of the name, and at once whether it is there.
Told(word, n) == wire' = wire \o [i \in 1..n |-> word]

RemoteStart ==
  /\ RemoteActs /\ ~remoteRunning /\ remoteRunning' = TRUE
  /\ IF remote THEN animations' = FALSE /\ UNCHANGED <<wire, watches>>
     ELSE /\ watches' = watches + 1 /\ UNCHANGED animations
          /\ Told(IF vino = "gone" THEN "vanished" ELSE "appeared", 1)
  /\ UNCHANGED <<remote, vino, asked, proxies, held>>

RemoteStop ==
  /\ RemoteActs /\ remoteRunning /\ remoteRunning' = FALSE /\ animations' = TRUE
  /\ held' = FALSE /\ proxies' = IF held THEN proxies - 1 ELSE proxies
  /\ UNCHANGED <<remote, vino, wire, asked, watches>>

-----------------------------------------------------------------------------
VinoStarts ==
  /\ RemoteActs /\ vino = "gone" /\ vino' = "idle" /\ Told("appeared", watches)
  /\ UNCHANGED <<remote, remoteRunning, asked, proxies, held, animations, watches>>

VinoExits ==
  /\ RemoteActs /\ vino # "gone" /\ vino' = "gone" /\ Told("vanished", watches)
  /\ UNCHANGED <<remote, remoteRunning, asked, proxies, held, animations, watches>>

\* A client connects or leaves; all proxies hear of it alike.
Client ==
  /\ RemoteActs /\ vino # "gone" /\ vino' = IF vino = "idle" THEN "connected" ELSE "idle"
  /\ Told(vino', IF watches = 0 THEN 0 ELSE 1)
  /\ UNCHANGED <<remote, remoteRunning, asked, proxies, held, animations, watches>>

\* Vino, or the bus in its stead, tells a new proxy of its properties.
Answer ==
  /\ asked > 0 /\ asked' = asked - 1 /\ wire' = Append(wire, "got " \o vino)
  /\ UNCHANGED <<remote, remoteRunning, vino, proxies, held, animations, watches,
                 remoteActs>>

-----------------------------------------------------------------------------
\* update_settings_from_variant; without settings nothing is stored.
Update(state) == animations' = IF remoteRunning THEN state # "connected" ELSE animations

\* A bug: who was connected before there was a proxy is not seen.
GotUnread(state) == UNCHANGED animations

\* got_vino_proxy: a name that is gone has no properties.
Got(state) == IF state = "gone" THEN UNCHANGED animations ELSE Update(state)

\* vino_appeared_cb
Appeared == asked' = asked + 1 /\ UNCHANGED <<proxies, held, animations>>

\* vino_vanished_cb: the proxies being made are not cancelled.
Vanished ==
  /\ held' = FALSE /\ proxies' = (IF held THEN proxies - 1 ELSE proxies)
  /\ animations' = (remoteRunning \/ animations) /\ UNCHANGED asked

GotVinoProxy(state) ==
  held' = TRUE /\ proxies' = proxies + 1 /\ Got(state) /\ UNCHANGED asked

PropsChanged(state) ==
  /\ IF proxies > 0 THEN Update(state) ELSE UNCHANGED animations
  /\ UNCHANGED <<asked, proxies, held>>

RemoteHear ==
  /\ wire # <<>> /\ wire' = Tail(wire)
  /\ LET word == Head(wire) IN
     \/ word = "appeared" /\ Appeared
     \/ word = "vanished" /\ Vanished
     \/ \E s \in {"gone", "idle", "connected"} : word = "got " \o s /\ GotVinoProxy(s)
     \/ word \in {"idle", "connected"} /\ PropsChanged(word)
  /\ UNCHANGED <<remote, remoteRunning, vino, watches, remoteActs>>

RemoteNext == RemoteStart \/ RemoteStop \/ VinoStarts \/ VinoExits \/ Client \/ Answer
    \/ RemoteHear

RemoteSpec == RemoteInit /\ [][RemoteNext]_remoteVars

-----------------------------------------------------------------------------
RemoteTypeOK ==
  /\ {remote, remoteRunning, held, animations} \subseteq BOOLEAN
  /\ remoteActs \in 0..MaxRemoteActs
  /\ vino \in {"gone", "idle", "connected"} /\ asked \in 0..MaxRemoteActs * MaxRemoteActs
  /\ proxies \in 0..MaxRemoteActs * MaxRemoteActs /\ watches \in 0..MaxRemoteActs

(* Once all was heard, animations are off exactly while somebody is          *)
(* connected: Vino may come and go while its proxy is being made, and the    *)
(* plugin start again with watches and proxies left by an earlier start      *)
(* (got_vino_proxy, vino_vanished_cb, gsd_remote_display_manager_stop).      *)
AnimationsFit ==
  remoteRunning /\ wire = <<>> /\ asked = 0 => animations = (~remote /\ vino # "connected")

-----------------------------------------------------------------------------
(* What changes in GSettings is stored in GConf, too, for the keys that the  *)
(* conversion files name.                                                    *)
CONSTANTS
  Files,       \* sequence of [whole, groups: schema -> (key -> GConf's key)]
  Keys,        \* what users change: [schema, key]
  Values,
  Fit,         \* keys with a type that GConf knows
  MaxGconfActs      \* bounds what the user does

VARIABLES
  gconfRunning,     \* "off", "on" or "failed"
  watchers,    \* schema -> (key -> GConf's key)
  setting,
  gconfSignals,     \* changes not yet heard of
  gconf,       \* key of GConf -> value
  changed,     \* history: keys that changed since the start, and are converted
  gconfActs

gconfVars == <<gconfRunning, watchers, setting, gconfSignals, gconf, changed, gconfActs>>

Nothing == "nothing"
GconfNames == UNION {UNION {{Files[i].groups[s][k] : k \in DOMAIN Files[i].groups[s]} :
                        s \in DOMAIN Files[i].groups} : i \in DOMAIN Files}

GconfInit ==
  /\ gconfRunning = "off" /\ watchers = <<>> /\ gconfSignals = <<>> /\ changed = {}
  /\ gconfActs = 0
  /\ setting = [k \in Keys |-> CHOOSE v \in Values : TRUE]
         /\ gconf = [n \in GconfNames |-> Nothing]

GconfActs == gconfActs < MaxGconfActs /\ gconfActs' = gconfActs + 1

\* Files that are read before one that is broken.
WholeBefore == {n \in 0..Len(Files) : \A i \in 1..n : Files[i].whole}
Read == CHOOSE n \in WholeBefore : \A m \in WholeBefore : m <= n

\* A schema of two files has the watcher of the last.
FromFiles[n \in 0..Len(Files)] ==
  IF n = 0 THEN <<>> ELSE Files[n].groups @@ FromFiles[n - 1]

\* gsd_gconf_manager_start: it fails with the first broken file, and the
\* watchers made so far stay.
GconfStart ==
  /\ GconfActs /\ gconfRunning # "on" /\ watchers' = FromFiles[Read]
  /\ gconfRunning' = IF Read = Len(Files) /\ Read > 0 THEN "on" ELSE "failed"
  /\ changed' = {} /\ gconfSignals' = <<>> /\ UNCHANGED <<setting, gconf>>

GconfStop ==
  /\ GconfActs /\ gconfRunning = "on" /\ gconfRunning' = "off" /\ watchers' = <<>>
  /\ gconfSignals' = <<>>
  /\ changed' = {} /\ UNCHANGED <<setting, gconf>>

Converted(k) == IF k.schema \notin DOMAIN watchers THEN FALSE
                ELSE k.key \in DOMAIN watchers[k.schema]

UserSets(k, v) ==
  /\ GconfActs /\ v # setting[k] /\ setting' = [setting EXCEPT ![k] = v]
  /\ gconfSignals' = IF k.schema \in DOMAIN watchers THEN Append(gconfSignals, k)
         ELSE gconfSignals
  /\ changed' = IF Converted(k) /\ k \in Fit THEN changed \cup {k} ELSE changed
  /\ UNCHANGED <<gconfRunning, watchers, gconf>>

Store(k) == gconf' = [gconf EXCEPT ![watchers[k.schema][k.key]] = setting[k]]

\* A bug: changes that come together are taken for one.
SettingsChangedOnce ==
  /\ gconfSignals # <<>> /\ gconfSignals' = <<>>
  /\ IF Converted(Head(gconfSignals)) THEN Store(Head(gconfSignals)) ELSE UNCHANGED gconf
  /\ UNCHANGED <<gconfRunning, watchers, setting, changed, gconfActs>>

\* settings_changed_cb: the value is that of by now.
SettingsChanged ==
  /\ gconfSignals # <<>> /\ gconfSignals' = Tail(gconfSignals)
  /\ IF Converted(Head(gconfSignals))
         /\ Head(gconfSignals) \in Fit THEN Store(Head(gconfSignals))
     ELSE UNCHANGED gconf
  /\ UNCHANGED <<gconfRunning, watchers, setting, changed, gconfActs>>

GconfNext == GconfStart \/ GconfStop \/ SettingsChanged
    \/ \E k \in Keys, v \in Values : UserSets(k, v)

GconfSpec == GconfInit /\ [][GconfNext]_gconfVars

-----------------------------------------------------------------------------
GconfTypeOK ==
  /\ gconfRunning \in {"off", "on", "failed"} /\ setting \in [Keys -> Values]
  /\ gconf \in [GconfNames -> Values \cup {Nothing}] /\ changed \subseteq Keys
  /\ gconfActs \in 0..MaxGconfActs

(* A key that was changed has its value in GConf once all was heard, also if *)
(* the plugin's start failed on a later file, and unless another key that is *)
(* stored in the same place was changed (settings_changed_cb).               *)
GconfFollows ==
  gconfSignals = <<>> =>
    \A k \in changed :
      \/ gconf[watchers[k.schema][k.key]] = setting[k]
      \/ \E other \in changed \ {k} :
           watchers[other.schema][other.key] = watchers[k.schema][k.key]

-----------------------------------------------------------------------------
(* The picture of the background: Deepin's setting and GNOME's follow each   *)
(* other, the account has it for the greeter, and a helper blurs it.         *)
CONSTANTS
  Pictures,    \* files, by their paths
  MaxPictureActs,     \* bounds what the user does
  MaxTime      \* bounds the modification times

VARIABLES
  backgroundRunning,
  current,     \* current-picture: [pic, uri]: a path, or GNOME's URI
  uris,        \* picture-uris: the pictures in it
  gnome,       \* picture-uri
  backgroundSignals,     \* of "current" and "gnome", unread
  prev,        \* prev_pict_path
  account,     \* what the greeter shows
  file,        \* of each picture: its mtime, which tells what is in it
  helpers,     \* command lines of those about to start
  working,     \* the one that holds the socket: its picture and how far it is
  cache,       \* of each picture the blurred one: what it was made of, the mtime in it
  lost,        \* history: another helper was at work, or it was killed, or the file changed
  backgroundActs

pictureVars == <<backgroundRunning, current, uris, gnome, backgroundSignals, prev,
                 account, file, helpers, working, cache, lost, backgroundActs>>

None == [of |-> 0, mtime |-> 0]
Idle == [pic |-> "none", at |-> "none", mtime |-> 0, of |-> 0]
Path(p) == [pic |-> p, uri |-> FALSE]
Uri(p) == [pic |-> p, uri |-> TRUE]

PictureInit ==
  /\ backgroundRunning = FALSE /\ backgroundSignals = <<>> /\ helpers = <<>>
  /\ working = Idle /\ lost = {}
  /\ LET p == CHOOSE q \in Pictures : TRUE IN
     current = Path(p) /\ gnome = p /\ prev = Path("none") /\ account = Path("none")
  /\ uris \in {{}, Pictures \ {CHOOSE q \in Pictures : q # gnome}}
         /\ cache = [p \in Pictures |-> None] /\ backgroundActs = 0
  /\ file = [p \in Pictures |-> 1]

PictureActs == backgroundActs < MaxPictureActs /\ backgroundActs' = backgroundActs + 1
Helping == <<working, cache, lost>>

-----------------------------------------------------------------------------
\* start_gaussian_helper; register_account_service_background_path
Show(p) == account' = p /\ helpers' = Append(helpers, p)

\* bg_util_init: the picture before is forgotten.
PictureStart ==
  /\ PictureActs /\ ~backgroundRunning /\ backgroundRunning' = TRUE
  /\ prev' = Path("none") /\ Show(current)
  /\ UNCHANGED <<current, uris, gnome, backgroundSignals, file, Helping>>

PictureStop ==
  /\ PictureActs /\ backgroundRunning /\ backgroundRunning' = FALSE
  /\ backgroundSignals' = <<>>
  /\ UNCHANGED <<current, uris, gnome, prev, account, file, helpers, Helping>>

Tell(what) == IF backgroundRunning THEN Append(backgroundSignals, what)
    ELSE backgroundSignals

UserSetsCurrent(p) ==
  /\ PictureActs /\ current # Path(p) /\ current' = Path(p)
  /\ backgroundSignals' = Tell("current")
  /\ UNCHANGED <<backgroundRunning, uris, gnome, prev, account, file, helpers, Helping>>

UserSetsGnome(p) ==
  /\ PictureActs /\ gnome # p /\ gnome' = p /\ backgroundSignals' = Tell("gnome")
  /\ UNCHANGED <<backgroundRunning, current, uris, prev, account, file, helpers, Helping>>

\* A bug: the account is left.
CurrentChangedLess ==
  /\ prev' = current /\ helpers' =
         (IF prev = current THEN helpers ELSE Append(helpers, current))
  /\ UNCHANGED account

\* update_prev_pict_path
CurrentChanged ==
  IF prev = current THEN UNCHANGED <<prev, account, helpers>>
  ELSE prev' = current /\ Show(current)

\* bg_settings_cur_pict_changed: what is no path has no URI to store.
HearCurrent ==
  /\ CurrentChanged
  /\ IF current.uri \/ gnome = current.pic THEN UNCHANGED gnome
         /\ backgroundSignals' = Tail(backgroundSignals)
     ELSE gnome' = current.pic /\ backgroundSignals' =
         Append(Tail(backgroundSignals), "gnome")
  /\ UNCHANGED <<current, uris>>

\* gnome_bg_settings_cur_pict_changed: a list of one is replaced, a longer one
\* grows, and the current picture becomes a URI.
HearGnome ==
  /\ uris' = IF \E p, q \in uris : p # q THEN uris \cup {gnome} ELSE {gnome}
  /\ IF (\E p, q \in uris : p # q) /\ gnome \notin uris /\ current # Uri(gnome)
     THEN current' = Uri(gnome) /\ backgroundSignals' =
         Append(Tail(backgroundSignals), "current")
     ELSE UNCHANGED current /\ backgroundSignals' = Tail(backgroundSignals)
  /\ UNCHANGED <<prev, account, helpers, gnome>>

PictureHear ==
  /\ backgroundSignals # <<>>
  /\ IF Head(backgroundSignals) = "current" THEN HearCurrent ELSE HearGnome
  /\ UNCHANGED <<backgroundRunning, file, Helping, backgroundActs>>

-----------------------------------------------------------------------------
\* main of the helper: one that is not alone, or is given a URI, is of no use.
Helper ==
  /\ helpers # <<>> /\ helpers' = Tail(helpers)
  /\ IF Head(helpers).uri \/ working # Idle
     THEN lost' = lost \cup {Head(helpers).pic} /\ UNCHANGED working
     ELSE /\ working' = [pic |-> Head(helpers).pic, at |-> "stat",
                        mtime |-> file[Head(helpers).pic], of |-> 0]
          /\ lost' = lost \ {Head(helpers).pic}
  /\ UNCHANGED <<backgroundRunning, current, uris, gnome, backgroundSignals, prev,
                 account, file, cache, backgroundActs>>

\* bg_blur_pict_factory_lookup, and else the picture is loaded.
Lookup ==
  /\ working.at = "stat"
  /\ working' = IF cache[working.pic].mtime = working.mtime THEN Idle
                ELSE [working EXCEPT !.at = "blur", !.of = file[working.pic]]
  /\ UNCHANGED <<helpers, cache, lost>>

\* A bug: the time is that of when the picture was done.
BlurredOf(w) == [of |-> w.of, mtime |-> file[w.pic]]

\* bg_blur_pict_generate: the time is from before the picture was read.
Blurred(w) == [of |-> w.of, mtime |-> w.mtime]

\* A finished file takes the place of the earlier one.
Generate ==
  /\ working.at = "blur" /\ working' = Idle
  /\ cache' = [cache EXCEPT ![working.pic] = Blurred(working)]
  /\ UNCHANGED <<helpers, lost>>

Killed ==
  /\ working # Idle /\ working' = Idle /\ lost' = lost \cup {working.pic}
  /\ UNCHANGED <<helpers, cache>>

Help ==
  /\ Lookup \/ Generate \/ Killed
  /\ UNCHANGED <<backgroundRunning, current, uris, gnome, backgroundSignals, prev,
                 account, file, backgroundActs>>

FileChanges(p) ==
  /\ file[p] < MaxTime /\ file' = [file EXCEPT ![p] = @ + 1] /\ lost' = lost \cup {p}
  /\ UNCHANGED <<backgroundRunning, current, uris, gnome, backgroundSignals, prev,
                 account, helpers, working, cache, backgroundActs>>

PictureNext ==
  \/ PictureStart \/ PictureStop \/ PictureHear \/ Helper \/ Help
  \/ \E p \in Pictures : UserSetsCurrent(p) \/ UserSetsGnome(p) \/ FileChanges(p)

PictureSpec == PictureInit /\ [][PictureNext]_pictureVars

-----------------------------------------------------------------------------
PictureTypeOK ==
  /\ backgroundRunning \in BOOLEAN /\ gnome \in Pictures /\ uris \subseteq Pictures
  /\ file \in [Pictures -> 1..MaxTime] /\ lost \subseteq Pictures
  /\ backgroundActs \in 0..MaxPictureActs

(* Once all was heard, the greeter has the current picture, which is also    *)
(* GNOME's if it was set as a path after GNOME's (update_prev_pict_path).    *)
AccountShows == backgroundRunning /\ backgroundSignals = <<>> => account = current

(* What a helper takes for the blurred picture is made of what is in the     *)
(* file, whenever that changed; and once all helpers are done the current    *)
(* picture has one, unless another was at work when it was asked for         *)
(* (bg_blur_pict_generate, is_app_running).                                  *)
BlurTrue ==
  /\ \A p \in Pictures : cache[p].mtime = file[p] => cache[p].of = file[p]
  /\ backgroundRunning /\ backgroundSignals = <<>> /\ helpers = <<>> /\ working = Idle
       /\ current.pic \notin lost => cache[current.pic].mtime = file[current.pic]
=============================================================================
