----------------------------- MODULE MediaKeys ------------------------------
(* The media-keys plugin: keys that are grabbed, the sound device and the  *)
(* volume they act on, and the players they go to.                         *)
EXTENDS Naturals, Sequences, SequencesExt, Integers, Functions

-----------------------------------------------------------------------------
(* The keys that gsd-media-keys-manager.c grabs: some are hard-coded, some *)
(* are settings, and the user's own shortcuts are directories of GConf     *)
(* with a command and a binding that are written one after the other.      *)
(* Several may name one binding, and other clients grab keys too.          *)
CONSTANTS
  HardCoded,  \* keys with a binding of their own
  Settings,   \* keys with a setting
  Customs,    \* directories of GConf
  Bindings,   \* what can be grabbed
  MaxChanges  \* bound on the changes made by others

VARIABLES
  running,   \* between start and stop
  idle,      \* start_media_keys_idle_cb is due
  setting,   \* the settings; "none" is empty or cannot be parsed
  command,   \* custom shortcuts with an "action"
  binding,   \* their "binding", "unset" if there is none
  notices,   \* changes that have not been told
  keys,      \* priv->keys
  grabbed,   \* by this client
  taken,     \* by others
  lost,      \* bindings that were refused, or let go with another key's (history)
  late,      \* the idle callback has run after stop
  changes

grabVars == <<running, idle, setting, command, binding, notices, keys, grabbed,
              taken, lost, late, changes>>

GrabNone == "none"

GrabTypeOK ==
  /\ {running, idle, late} \subseteq BOOLEAN
  /\ setting \in [Settings -> Bindings \cup {GrabNone}]
  /\ command \in SUBSET Customs
  /\ binding \in [Customs -> Bindings \cup {GrabNone, "unset"}]
  /\ notices \in SUBSET (Settings \cup Customs)
  /\ \A n \in DOMAIN keys : /\ keys[n].id \in HardCoded \cup Settings \cup Customs
                            /\ keys[n].key \in Bindings \cup {GrabNone}
  /\ \A m, n \in DOMAIN keys : keys[m].id = keys[n].id => m = n
  /\ grabbed \in SUBSET Bindings /\ taken \in SUBSET Bindings
  /\ lost \in SUBSET Bindings /\ changes \in 0..MaxChanges

GrabInit ==
  /\ running = FALSE /\ idle = FALSE /\ setting \in [Settings -> Bindings]
  /\ command = Customs /\ binding = [c \in Customs |-> "unset"]
  /\ notices = {} /\ keys = <<>> /\ grabbed = {} /\ taken = {} /\ lost = {}
  /\ late = FALSE /\ changes = 0

Change == changes < MaxChanges /\ changes' = changes + 1

\* get_key_string and parse_key: hard-coded keys are all the first binding.
Parsed(id) ==
  IF id \in HardCoded THEN CHOOSE b \in Bindings : TRUE
  ELSE IF id \in Settings THEN setting[id]
  ELSE IF binding[id] = "unset" THEN GrabNone ELSE binding[id]

\* media_key_new_for_gconf: a directory with neither is no shortcut.
IsShortcut(dir) == dir \in command \/ binding[dir] # "unset"

InUse(list) == {list[n].key : n \in DOMAIN list} \ {GrabNone}
At(id) == CHOOSE n \in DOMAIN keys : keys[n].id = id
Has(id) == \E n \in DOMAIN keys : keys[n].id = id

-----------------------------------------------------------------------------
(* The X server.  A binding is grabbed once by a client, however many keys *)
(* have it: the grab that is dropped for one is dropped for all.           *)

Grabbed(set, bind) == IF bind = GrabNone \/ bind \in taken THEN set ELSE set \cup {bind}

\* Bug: the old binding is let go last, though it may be the new one.
RegrabbedLate(old, new) == Grabbed(grabbed, new) \ {old}
Regrabbed(old, new) == Grabbed(grabbed \ {old}, new)

\* priv->keys becomes list; the key at this place had another binding.
Become(list, at, old) ==
  LET new == IF at = 0 THEN GrabNone ELSE list[at].key
      others == {list[n].key : n \in DOMAIN list \ {at}}
  IN /\ keys' = list /\ grabbed' = Regrabbed(old, new)
     /\ lost' = (lost \cup (others \cap {old}) \cup (taken \cap {new}))
                 \ (grabbed' \cup {GrabNone})

\* grab_media_key: first what it had is let go.
GrabMediaKey(id) ==
  Become([keys EXCEPT ![At(id)].key = Parsed(id)], At(id), keys[At(id)].key)

OtherGrabs(bind) ==
  /\ Change /\ IF bind \in taken THEN taken' = taken \ {bind}
               ELSE bind \notin grabbed /\ taken' = taken \cup {bind}
  /\ UNCHANGED <<running, idle, setting, command, binding, notices, keys, grabbed,
                 lost, late>>

-----------------------------------------------------------------------------
(* The user and the programs that write settings.                          *)

GrabTold(id) == notices' = IF keys # <<>> THEN notices \cup {id} ELSE notices

SetSetting(id, bind) ==
  /\ Change /\ bind # setting[id] /\ setting' = [setting EXCEPT ![id] = bind]
  /\ GrabTold(id)
  /\ UNCHANGED <<running, idle, command, binding, keys, grabbed, taken, lost, late>>

SetCommand(dir) ==
  /\ Change /\ command' = (command \ {dir}) \cup ({dir} \ command) /\ GrabTold(dir)
  /\ UNCHANGED <<running, idle, setting, binding, keys, grabbed, taken, lost, late>>

SetBinding(dir, bind) ==
  /\ Change /\ bind # binding[dir] /\ binding' = [binding EXCEPT ![dir] = bind]
  /\ GrabTold(dir)
  /\ UNCHANGED <<running, idle, setting, command, keys, grabbed, taken, lost, late>>

-----------------------------------------------------------------------------
Same == UNCHANGED <<setting, command, binding, taken, changes>>

GSettingsChanged(id) ==
  /\ id \in notices \cap Settings /\ notices' = notices \ {id}
  /\ GrabMediaKey(id)
  /\ Same /\ UNCHANGED <<running, idle, late>>

\* g_ptr_array_remove_index_fast: the last one takes its place.
Removed(at) ==
  LET last == Len(keys) IN Front([keys EXCEPT ![at] = keys[last]])

\* The old one is removed and let go, and a new one is made if there is any.
GConfChanged(dir) ==
  /\ dir \in notices \cap Customs /\ notices' = notices \ {dir}
  /\ LET rest == IF Has(dir) THEN Removed(At(dir)) ELSE keys
         old == IF Has(dir) THEN keys[At(dir)].key ELSE GrabNone
         new == Append(rest, [id |-> dir, key |-> Parsed(dir)])
     IN IF IsShortcut(dir) THEN Become(new, Len(new), old)
        ELSE Become(rest, 0, old)
  /\ Same /\ UNCHANGED <<running, idle, late>>

\* init_kbd adds hard-coded ones first, so that they are found first.
InitKbd ==
  LET ids == SetToSeq(HardCoded) \o SetToSeq(Settings)
               \o SetToSeq({c \in Customs : IsShortcut(c)})
      list == [n \in DOMAIN ids |-> [id |-> ids[n], key |-> Parsed(ids[n])]]
  IN /\ keys' = list /\ grabbed' = InUse(list) \ taken
     /\ lost' = InUse(list) \cap taken

Start ==
  /\ ~running /\ ~idle /\ keys = <<>> /\ Change /\ running' = TRUE /\ idle' = TRUE
  /\ UNCHANGED <<setting, command, binding, notices, keys, grabbed, taken, lost, late>>

\* start_media_keys_idle_cb; stop does not remove the source: it may run on a manager that is stopped.
StartIdle ==
  /\ idle /\ keys = <<>> /\ idle' = FALSE /\ InitKbd /\ late' = ~running
  /\ Same /\ UNCHANGED <<running, notices>>

\* Bug: only the keys with a setting are let go.
StopUngrabsSettings == grabbed \ {setting[s] : s \in Settings}
StopUngrabs == grabbed \ InUse(keys)

Stop ==
  /\ running /\ Change /\ running' = FALSE /\ notices' = {}
  /\ keys' = <<>> /\ grabbed' = StopUngrabs /\ lost' = {}
  /\ UNCHANGED <<idle, setting, command, binding, taken, late>>

\* filter_key_events: the first key that has the binding.
ActsOn(bind) == LET n == SelectInSeq(keys, LAMBDA k : k.key = bind) IN keys[n].id

GrabNext ==
  \/ \E b \in Bindings : OtherGrabs(b)
  \/ \E s \in Settings, b \in Bindings \cup {GrabNone} : SetSetting(s, b)
  \/ \E c \in Customs : SetCommand(c)
  \/ \E c \in Customs, b \in Bindings \cup {GrabNone, "unset"} : SetBinding(c, b)
  \/ \E s \in Settings : GSettingsChanged(s)
  \/ \E c \in Customs : GConfChanged(c)
  \/ Start \/ StartIdle \/ Stop
GrabSpec == GrabInit /\ [][GrabNext]_grabVars

-----------------------------------------------------------------------------
(* GrabsFollow: nothing is grabbed but for a key that is listed, so that   *)
(* some key acts, a hard-coded one before others; every key has its grab,  *)
(* unless it was refused or let go with another's; and once changes were   *)
(* told each key has the binding of its setting or directory, though these *)
(* were written in parts.  A stopped manager has no keys, unless its idle  *)
(* callback was still due.                                                 *)
GrabsFollow ==
  /\ grabbed \subseteq InUse(keys) /\ InUse(keys) \subseteq grabbed \cup lost
  /\ (keys # <<>> => running \/ late)
  /\ \A b \in grabbed : (\E h \in HardCoded : Parsed(h) = b) => ActsOn(b) \in HardCoded
  /\ notices = {} /\ keys # <<>> =>
       /\ \A n \in DOMAIN keys : keys[n].key = Parsed(keys[n].id)
       /\ {keys[n].id : n \in DOMAIN keys}
            = HardCoded \cup Settings \cup {c \in Customs : IsShortcut(c)}

-----------------------------------------------------------------------------
(* What gvc-mixer-control.c knows of PulseAudio's sinks, and on which of   *)
(* them gsd-media-keys-manager.c lets a volume key act: the one of the USB *)
(* device with the key, if it has one, or else the default.  The server    *)
(* tells that something changed and is asked what; it may crash.           *)
CONSTANTS
  Names,      \* of sinks
  Usb,        \* the one that belongs to the device with volume keys
  MaxIndex,   \* bound on sinks that appear, for one server
  MaxQueue,   \* bound on messages under way
  MaxMoves    \* bound on what the server and the user do

VARIABLES
  here, chosen,  \* the server's sinks, by index, and its default's name
  index,         \* its last index
  link,          \* "ready" or "failed"
  asked, told,   \* requests and messages under way
  sinks, streams,\* control->priv->sinks: ids by index; all_streams: names by id
  serial,        \* the last id
  mixerWanted,        \* default_sink_name
  defaultId,     \* default_sink_id, 0 if none is set
  stream,        \* manager->priv->stream, an id or 0
  cached,        \* manager->priv->streams, for the device
  blind,         \* a key was pressed when its sink was not there (history)
  moves

serverVars == <<here, chosen, index>>
linkVars == <<link, asked, told>>
controlVars == <<sinks, streams, serial, mixerWanted, defaultId>>
keyVars == <<stream, cached, blind>>
mixerVars == <<serverVars, linkVars, controlVars, keyVars, moves>>

MixerNone == "none"
MaxId == MaxMoves * MaxIndex
Message(type, at, name) == [type |-> type, at |-> at, name |-> name]

MixerTypeOK ==
  /\ DOMAIN here \subseteq 1..MaxIndex /\ Range(here) \subseteq Names
  /\ chosen \in Names \cup {MixerNone} /\ index \in 0..MaxIndex
  /\ link \in {"ready", "failed"}
  /\ \A n \in DOMAIN asked : asked[n] \in 0..MaxIndex
  /\ \A n \in DOMAIN told : told[n].type \in
         {"changed", "removed", "server", "sink", "default"}
  /\ DOMAIN sinks \subseteq 1..MaxIndex /\ Range(sinks) = DOMAIN streams
  /\ Range(streams) \subseteq Names /\ mixerWanted \in Names \cup {MixerNone}
  /\ serial \in 0..MaxId /\ defaultId \in {0} \cup DOMAIN streams
  /\ cached \in -2..MaxId /\ blind \in BOOLEAN /\ moves \in 0..MaxMoves

\* gvc_mixer_control_ready: the default and all sinks are asked for.
Everything == <<0>> \o [n \in 1..MaxIndex |-> n]

MixerInit ==
  /\ \E n \in Names : here = (1 :> n) /\ chosen = n
  /\ index = 1 /\ link = "ready" /\ asked = Everything /\ told = <<>>
  /\ sinks = <<>> /\ streams = <<>> /\ serial = 0 /\ mixerWanted = MixerNone
  /\ defaultId = 0 /\ stream = 0 /\ cached = -2 /\ blind = FALSE /\ moves = 0

-----------------------------------------------------------------------------
(* PulseAudio.  It answers with what it has when it gets to a request.     *)

Move == moves < MaxMoves /\ moves' = moves + 1
Tell(messages) ==
  /\ told' = IF link = "ready" THEN told \o messages ELSE told
  /\ Len(told') <= MaxQueue

SinkAppears(name) ==
  /\ Move /\ name \notin Range(here) /\ index < MaxIndex /\ index' = index + 1
  /\ here' = (index' :> name) @@ here
  /\ chosen' = IF chosen = MixerNone THEN name ELSE chosen
  /\ Tell(<<Message("changed", index', MixerNone)>>
            \o IF chosen = MixerNone THEN <<Message("server", 0, MixerNone)>> ELSE <<>>)
  /\ UNCHANGED <<link, asked, controlVars, keyVars>>

SinkGoes(at) ==
  /\ Move /\ at \in DOMAIN here /\ here' = Restrict(here, DOMAIN here \ {at})
  /\ chosen' \in IF chosen # here[at] THEN {chosen}
                 ELSE IF Range(here') = {} THEN {MixerNone} ELSE Range(here')
  /\ LET removed == <<Message("removed", at, MixerNone)>>
         server == <<Message("server", 0, MixerNone)>>
     IN IF chosen' = chosen THEN Tell(removed)
        ELSE Tell(removed \o server) \/ Tell(server \o removed)
  /\ UNCHANGED <<index, link, asked, controlVars, keyVars>>

DefaultChanges(name) ==
  /\ Move /\ name \in Range(here) \ {chosen} /\ chosen' = name
  /\ Tell(<<Message("server", 0, MixerNone)>>)
  /\ UNCHANGED <<here, index, link, asked, controlVars, keyVars>>

Answers ==
  /\ link = "ready" /\ asked # <<>> /\ asked' = Tail(asked)
  /\ LET at == Head(asked) IN
       Tell(IF at = 0 THEN <<Message("default", 0, chosen)>>
            ELSE IF at \in DOMAIN here THEN <<Message("sink", at, here[at])>>
            ELSE <<>>)
  /\ UNCHANGED <<serverVars, link, controlVars, keyVars, moves>>

Crashes ==
  /\ Move /\ link = "ready" /\ link' = "failed" /\ asked' = <<>> /\ told' = <<>>
  /\ UNCHANGED <<serverVars, controlVars, keyVars>>

-----------------------------------------------------------------------------
(* The control, and the manager that its signals reach at once.            *)

\* gvc_mixer_control_get_default_sink
DefaultOf(id, all) == IF id \in DOMAIN all THEN id ELSE 0

\* Bug: the signal is not emitted when the default is gone.
UpdateDefaultSinkKept(id) == IF id = 0 THEN stream ELSE id
\* _set_default_sink and, on its signal, update_default_sink.
UpdateDefaultSink(id) == id

\* _stream_has_name and find_stream_for_name
FindStream(name, all) ==
  IF \E id \in DOMAIN all : all[id] = name
  THEN CHOOSE id \in DOMAIN all : all[id] = name ELSE 0

Next0(message) == /\ told # <<>> /\ Head(told).type = message
                  /\ told' = Tail(told)

\* _pa_context_subscribe_cb, but for sinks that are removed.
Changed ==
  /\ told # <<>> /\ Head(told).type \in {"changed", "server"} /\ told' = Tail(told)
  /\ asked' = Append(asked, Head(told).at) /\ Len(asked') <= MaxQueue
  /\ UNCHANGED <<serverVars, link, controlVars, keyVars, moves>>

\* update_server
DefaultTold ==
  /\ Next0("default")
  /\ LET name == Head(told).name IN
       IF name \in {MixerNone, mixerWanted}
           THEN UNCHANGED <<mixerWanted, defaultId, stream>>
       ELSE /\ mixerWanted' = name /\ defaultId' = FindStream(name, streams)
            /\ stream' = UpdateDefaultSink(DefaultOf(defaultId', streams))
  /\ UNCHANGED <<serverVars, link, asked, sinks, streams, serial, cached, blind,
                 moves>>

\* Bug: only the server's word makes a sink the default.
IsWantedNot(name) == FALSE
IsWanted(name) == name = mixerWanted

\* update_sink
SinkTold ==
  /\ Next0("sink")
  /\ LET at == Head(told).at
         name == Head(told).name
         new == at \notin DOMAIN sinks
         id == IF new THEN serial + 1 ELSE sinks[at]
     IN /\ serial' = IF new THEN serial + 1 ELSE serial
        /\ sinks' = IF new THEN (at :> id) @@ sinks ELSE sinks
        /\ streams' = (id :> name) @@ streams
        /\ IF IsWanted(name)
           THEN defaultId' = id /\ stream' = UpdateDefaultSink(id)
           ELSE UNCHANGED <<defaultId, stream>>
  /\ UNCHANGED <<serverVars, link, asked, mixerWanted, cached, blind, moves>>

\* Bug: what was found for a device stays.
ForgetNot(ids) == cached
\* on_control_stream_removed
Forget(ids) == IF cached \in ids THEN -2 ELSE cached

\* remove_stream, for some of the sinks.
RemoveStreams(ats) ==
  LET ids == {sinks[at] : at \in ats \cap DOMAIN sinks} IN
    /\ sinks' = Restrict(sinks, DOMAIN sinks \ ats)
    /\ streams' = Restrict(streams, DOMAIN streams \ ids)
    /\ defaultId' = IF defaultId \in ids THEN 0 ELSE defaultId
    /\ stream' = IF defaultId \in ids THEN UpdateDefaultSink(0)
                 ELSE IF stream \in ids THEN 0 ELSE stream
    /\ cached' = Forget(ids)

SinkRemoved ==
  /\ Next0("removed") /\ RemoveStreams({Head(told).at})
  /\ UNCHANGED <<serverVars, link, asked, serial, mixerWanted, blind, moves>>

\* idle_reconnect; the server that was started has other indices.
Reconnect ==
  /\ link = "failed" /\ Move /\ link' = "ready" /\ RemoveStreams(DOMAIN sinks)
  /\ \E first \in Names : /\ here' = (1 :> first) /\ chosen' = first /\ index' = 1
  /\ asked' = Everything
  /\ UNCHANGED <<told, serial, mixerWanted, blind>>

\* get_stream_for_device_id; nothing else forgets that there was no sink.
OwnSink == FindStream(Usb, streams)
StreamForDevice ==
  IF cached = -2 THEN OwnSink
  ELSE IF cached \in DOMAIN streams THEN cached ELSE 0

\* do_sound_action, as far as it chooses.
KeyStream == IF StreamForDevice # 0 THEN StreamForDevice ELSE stream

PressKey ==
  /\ cached = -2
  /\ cached' = IF OwnSink = 0 THEN -1 ELSE OwnSink
  /\ blind' = (blind \/ OwnSink = 0)
  /\ UNCHANGED <<serverVars, linkVars, controlVars, stream, moves>>

MixerNext ==
  \/ \E n \in Names : SinkAppears(n) \/ DefaultChanges(n)
  \/ \E at \in 1..MaxIndex : SinkGoes(at)
  \/ Answers \/ Crashes \/ Changed \/ DefaultTold \/ SinkTold \/ SinkRemoved
  \/ Reconnect \/ PressKey
MixerSpec == MixerInit /\ [][MixerNext]_mixerVars

-----------------------------------------------------------------------------
(* KeyActsOnSink: a key never acts on a sink that is known to be gone; and *)
(* once all is told it acts on the server's default, or on the one of its  *)
(* own device if that is there and was there when it was first pressed,    *)
(* though sinks come, go and change places or the server was restarted.    *)
KeyActsOnSink ==
  /\ KeyStream \in {0} \cup DOMAIN streams
  /\ link = "ready" /\ asked = <<>> /\ told = <<>> =>
       /\ (DOMAIN here = {}) = (KeyStream = 0)
       /\ KeyStream # 0 => streams[KeyStream] =
            IF Usb \in Range(here) /\ ~blind THEN Usb ELSE chosen

-----------------------------------------------------------------------------
(* The volume keys and one sink: do_sound_action computes from what        *)
(* gvc-mixer-control.c last heard, sends what is to be, and hears of it    *)
(* when PulseAudio has told that something changed and was asked what.     *)
CONSTANTS
  Step, MaxVolume,
  VolumeQueue,  \* bound on messages under way
  MaxPresses \* bound on keys, and on what other clients do

VARIABLES
  volume, muted, \* of the server's sink
  known, silent, \* of the stream: its channel map and is_muted
  op,            \* change_volume_op, 0 if there is none
  sent, heard,   \* requests and messages under way
  volumeWanted,        \* what the keys have made of the volume (for the property)
  presses

volumeVars == <<volume, muted, known, silent, op, sent, heard, volumeWanted, presses>>

VolumeRange == 0..MaxVolume
Requests == [type : {"volume"}, value : VolumeRange, op : 1..MaxPresses]
  \cup [type : {"mute"}, value : BOOLEAN] \cup [type : {"info"}]
Messages == [type : {"done"}, op : 1..MaxPresses] \cup [type : {"changed"}]
  \cup [type : {"info"}, volume : VolumeRange, muted : BOOLEAN]

VolumeTypeOK ==
  /\ volume \in VolumeRange /\ known \in VolumeRange /\ volumeWanted \in VolumeRange
  /\ {muted, silent} \subseteq BOOLEAN /\ op \in 0..MaxPresses
  /\ ToSet(sent) \subseteq Requests /\ ToSet(heard) \subseteq Messages
  /\ presses \in 0..MaxPresses

VolumeInit ==
  /\ volume \in VolumeRange /\ muted \in BOOLEAN /\ known = volume /\ silent = muted
  /\ op = 0 /\ sent = <<>> /\ heard = <<>> /\ volumeWanted = volume /\ presses = 0

Press == presses < MaxPresses /\ presses' = presses + 1

-----------------------------------------------------------------------------
Down(v) == IF v <= Step THEN 0 ELSE v - Step
Up(v) == IF v + Step > MaxVolume THEN MaxVolume ELSE v + Step

\* do_sound_action: what a key makes of a volume and of being muted.
NewVolume(key, v) ==
  CASE key = "down" -> Down(v)
    [] key = "up" -> IF ~silent \/ v = 0 THEN Up(v) ELSE v
    [] OTHER -> v
NewMuted(key) ==
  CASE key = "mute" -> ~silent
    [] key = "down" -> silent \/ known <= Step
    [] OTHER -> FALSE

\* Bug: the new volume is known only when the server has told it.
KnownNot(v) == known
\* gvc_mixer_stream_set_volume
KnownAtOnce(v) == v

\* gvc_mixer_stream_change_is_muted, which leaves is_muted to the server,
\* and gvc_mixer_stream_push_volume, whose operation takes the other's place.
Key(key) ==
  /\ Press
  /\ LET v == NewVolume(key, known)
         m == NewMuted(key)
         mute == IF m # silent THEN <<[type |-> "mute", value |-> m]>> ELSE <<>>
         set == IF v # known
                THEN <<[type |-> "volume", value |-> v, op |-> presses']>> ELSE <<>>
     IN /\ sent' = sent \o mute \o set /\ Len(sent') <= VolumeQueue
        /\ known' = KnownAtOnce(v)
        /\ op' = IF v # known THEN presses' ELSE op
  /\ volumeWanted' = NewVolume(key, volumeWanted)
  /\ UNCHANGED <<volume, muted, silent, heard>>

OtherMutes ==
  /\ Press /\ muted' = ~muted
  /\ heard' = Append(heard, [type |-> "changed"]) /\ Len(heard') <= VolumeQueue
  /\ UNCHANGED <<volume, known, silent, op, sent, volumeWanted>>

\* PulseAudio takes requests in order and tells of what has changed.
Serve ==
  /\ sent # <<>> /\ sent' = Tail(sent)
  /\ LET r == Head(sent) IN
       /\ volume' = IF r.type = "volume" THEN r.value ELSE volume
       /\ muted' = IF r.type = "mute" THEN r.value ELSE muted
       /\ heard' = heard
            \o (IF r.type = "volume" THEN <<[type |-> "done", op |-> r.op]>> ELSE <<>>)
            \o (IF volume' # volume \/ muted' # muted
                THEN <<[type |-> "changed"]>> ELSE <<>>)
            \o (IF r.type = "info"
                THEN <<[type |-> "info", volume |-> volume, muted |-> muted]>>
                ELSE <<>>)
  /\ Len(heard') <= VolumeQueue
  /\ UNCHANGED <<known, silent, op, volumeWanted, presses>>

-----------------------------------------------------------------------------
\* _pa_context_subscribe_cb and req_update_sink_info
Ask(message) == sent' = Append(sent, [type |-> "info"]) /\ Len(sent') <= VolumeQueue

\* Bug: what is told is taken though a volume is still to be set.
IsRunningNot == FALSE
\* gvc_mixer_stream_is_running
IsRunning == op # 0

\* update_sink
Hear ==
  /\ heard # <<>> /\ heard' = Tail(heard)
  /\ LET m == Head(heard) IN
       /\ IF m.type = "changed" THEN Ask(m) ELSE UNCHANGED sent
       /\ op' = IF m.type = "done" /\ m.op = op THEN 0 ELSE op
       /\ IF m.type = "info" /\ ~IsRunning
          THEN known' = m.volume /\ silent' = m.muted
          ELSE UNCHANGED <<known, silent>>
  /\ UNCHANGED <<volume, muted, volumeWanted, presses>>

VolumeNext == (\E key \in {"mute", "down", "up"} : Key(key)) \/ OtherMutes \/ Serve \/ Hear
VolumeSpec == VolumeInit /\ [][VolumeNext]_volumeVars

-----------------------------------------------------------------------------
(* StepsCount: once all is told, every step that was asked for has been    *)
(* made, however fast the keys were pressed, and what the next key goes by *)
(* is what the server has, muted or not.                                   *)
StepsCount ==
  sent = <<>> /\ heard = <<>> =>
    volume = volumeWanted /\ known = volume /\ silent = muted

-----------------------------------------------------------------------------
(* The players that gsd-media-keys-manager.c gives the media keys to: each *)
(* application registers with a time and is dropped when its connection    *)
(* ends.  Calls and the ends of connections reach the manager later.       *)
CONSTANTS
  Apps, Connections,  \* applications and connections to the bus
  MaxWire,      \* bound on what the bus has not delivered
  MaxTime       \* bound on the calls, each made at a time of its own

VARIABLES
  alive,    \* connections
  wire,     \* calls and ends of connections, in the bus's order
  players,  \* priv->media_players
  playersAsked,    \* what each application has registered (history)
  both,     \* connections that had two players at once (history)
  clock

playerVars == <<alive, wire, players, playersAsked, both, clock>>

Player(app, name, time) == [app |-> app, name |-> name, time |-> time]
Nobody == Player("none", "none", 0)

PlayerTypeOK ==
  /\ alive \in SUBSET Connections /\ both \in SUBSET Connections
  /\ \A n \in DOMAIN wire : wire[n].type \in {"grab", "release", "left"}
  /\ ToSet(players) \subseteq [app : Apps, name : Connections, time : 0..MaxTime]
  /\ \A m, n \in DOMAIN players : players[m].app = players[n].app => m = n
  /\ DOMAIN playersAsked = Apps /\ clock \in 0..MaxTime

PlayerInit ==
  /\ alive = Connections /\ wire = <<>> /\ players = <<>>
  /\ playersAsked = [a \in Apps |-> Nobody] /\ both = {} /\ clock = 0

-----------------------------------------------------------------------------
(* Applications and the bus.                                               *)

Send(type, player) ==
  wire' = Append(wire, [type |-> type, player |-> player]) /\ Len(wire') <= MaxWire
Later == clock < MaxTime /\ clock' = clock + 1

\* With GDK_CURRENT_TIME, or with a time that may be an older one.
Register(app, name, age) ==
  /\ Later /\ name \in alive /\ age <= clock
  /\ Send("grab", Player(app, name, clock' - age))
  /\ UNCHANGED <<alive, players, playersAsked, both>>

Unregister(app, name) ==
  /\ Later /\ name \in alive /\ Send("release", Player(app, name, 0))
  /\ UNCHANGED <<alive, players, playersAsked, both>>

Leave(name) ==
  /\ name \in alive /\ alive' = alive \ {name} /\ Send("left", Player("none", name, 0))
  /\ UNCHANGED <<players, playersAsked, both, clock>>

-----------------------------------------------------------------------------
Deliver(type) == wire # <<>> /\ Head(wire).type = type /\ wire' = Tail(wire)
PlayerTold == Head(wire).player

\* find_by_application and find_by_name; 0 if there is none.
ByApp(list, app) == SelectInSeq(list, LAMBDA p : p.app = app)
ByName(list, name) == SelectInSeq(list, LAMBDA p : p.name = name)
Without(list, at) == IF at = 0 THEN list ELSE RemoveAt(list, at)

\* find_by_time: g_list_insert_sorted goes on while the new one is older.
Inserted(list, new) ==
  LET at == SelectInSeq(list, LAMBDA p : new.time >= p.time) IN
    IF at = 0 THEN Append(list, new) ELSE InsertAt(list, at, new)

\* Bug: a later time is noted, but not who gives it.
ReplacedInPlace(list, new) ==
  LET at == ByApp(list, new.app) IN
    IF at = 0 THEN Inserted(list, new)
    ELSE Inserted(RemoveAt(list, at), [new EXCEPT !.name = list[at].name])
\* The old one is freed with the watch of its name, and the new one is put in.
Replaced(list, new) == Inserted(Without(list, ByApp(list, new.app)), new)

\* gsd_media_keys_manager_grab_media_player_keys
Grab ==
  /\ Deliver("grab")
  /\ LET at == ByApp(players, PlayerTold.app)
         later == at = 0 \/ players[at].time < PlayerTold.time
     IN players' = IF later THEN Replaced(players, PlayerTold) ELSE players
  /\ playersAsked' = [playersAsked EXCEPT ![PlayerTold.app] =
       IF @ = Nobody \/ @.time < PlayerTold.time THEN PlayerTold ELSE @]
  /\ both' = both \cup {n \in Connections : \E p, q \in ToSet(players') :
                                      p.name = n /\ q.name = n /\ p # q}
  /\ UNCHANGED <<alive, clock>>

\* Bug: whatever the caller has registered is released.
ReleasedByName(app, name) == ByName(players, name)
\* gsd_media_keys_manager_release_media_player_keys
Released(app, name) ==
  IF ByApp(players, app) # 0 THEN ByApp(players, app) ELSE ByName(players, name)

Release ==
  /\ Deliver("release")
  /\ LET at == Released(PlayerTold.app, PlayerTold.name) IN players' = Without(players, at)
  /\ playersAsked' = [a \in Apps |->
       IF \/ a = PlayerTold.app
          \/ playersAsked[PlayerTold.app] = Nobody /\ playersAsked[a].name = PlayerTold.name
       THEN Nobody ELSE playersAsked[a]]
  /\ UNCHANGED <<alive, both, clock>>

\* name_vanished_handler, once for each watch that is left of the name: the
\* first player with the name goes, with a watch that may be another's.
Left ==
  /\ Deliver("left")
  /\ players' = Without(players, ByName(players, PlayerTold.name))
  /\ playersAsked' = [a \in Apps |-> IF playersAsked[a].name = PlayerTold.name THEN Nobody
         ELSE playersAsked[a]]
  /\ UNCHANGED <<alive, both, clock>>

\* gsd_media_keys_manager_stop; the next start begins with none.
Restart ==
  /\ Later /\ players # <<>> /\ players' = <<>> /\ playersAsked' = [a \in Apps |-> Nobody]
  /\ UNCHANGED <<alive, wire, both>>

PlayerNext ==
  \/ \E a \in Apps, n \in Connections : Unregister(a, n)
         \/ \E age \in 0..2 : Register(a, n, age)
  \/ \E n \in Connections : Leave(n)
  \/ Grab \/ Release \/ Left \/ Restart
PlayerSpec == PlayerInit /\ [][PlayerNext]_playerVars

-----------------------------------------------------------------------------
(* KeysToLast: once all calls have arrived, a media key goes to a player   *)
(* that is there and has registered with the latest time, if any has,      *)
(* though it did so anew from another connection before the old one ended. *)
(* A connection that registered two applications at once is excepted: the  *)
(* watch that is dropped with the first may be the other's.                *)
KeysToLast ==
  wire = <<>> /\ both = {} =>
    LET there == {playersAsked[a] : a \in Apps} \ {Nobody} IN
      /\ (players = <<>>) = (there = {})
      /\ players # <<>> => /\ Head(players) \in there /\ Head(players).name \in alive
                           /\ \A p \in there : p.time <= Head(players).time
=============================================================================
