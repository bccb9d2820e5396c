------------------------------ MODULE DateTime ------------------------------
(* The datetime mechanism (plugins/datetime): the time zone that is stored *)
(* in several files, and the calls it serves.                              *)
EXTENDS Naturals, Sequences, FiniteSets, SequencesExt

-----------------------------------------------------------------------------
(* The system's time zone as system-timezone.c finds and sets it, and the  *)
(* mechanism's call that sets it: /etc/localtime and the configuration     *)
(* files of all distributions, each written by a step that may fail.       *)
CONSTANTS
  Zones,      \* names with a zone file
  Plain,      \* those made of the characters that are expected of a name
  Data,       \* what is in each zone's file; aliases have the same
  MaxChanges  \* bound on calls and on changes others make

VARIABLES
  localtime,  \* /etc/localtime: a link to, or a copy of, a zone file
  config,     \* what each configuration file says
  call,       \* the zone that is being set and the step that comes next
  told,       \* how the last call ended, and for which zone (history)
  before,     \* what was found when it was made, if all files agreed (history)
  changes

zoneVars == <<localtime, config, call, told, before, changes>>

\* In the order of get_system_timezone_methods, and of the writers.
Methods == <<"timezone", "ZONE", "TIMEZONE", "TZ", "rc.conf", "conf.d">>
Steps == {"idle", "localtime", "symlink", "copy"} \cup ToSet(Methods)
\* A file may lack the setting, or have it in a form that is not understood.
Unset == {"absent", "unreadable"}
Idle == [zone |-> "UTC", step |-> "idle"]
Alike(zone) == {z \in Zones : Data[z] = Data[zone]}

ZoneTypeOK ==
  /\ localtime \in [kind : {"link", "copy"}, zone : Zones] \cup {[kind |-> "none"]}
  /\ config \in [ToSet(Methods) -> Zones \cup Unset]
  /\ call \in [zone : Zones \cup {"UTC"}, step : Steps]
  /\ told.reply \in {"none", "ok", "error", "lost"}
  /\ before \subseteq Zones \cup {"UTC"} /\ changes \in 0..MaxChanges

IsValid(zone) == zone \in Plain

\* strip_path_if_valid for a link, each reader in turn, and at last
\* recursive_compare: any zone may be met first that has the same data.
Linked == IF localtime.kind = "link" THEN {localtime.zone} ELSE {}
Configured == {n \in DOMAIN Methods : IsValid(config[Methods[n]])}
Compared == IF localtime.kind = "copy" THEN Alike(localtime.zone) ELSE {}
\* system_timezone_find: what it may return.
Found ==
  IF \E zone \in Linked : IsValid(zone) THEN Linked
  ELSE IF Configured # {} THEN {config[Methods[Min(Configured)]]}
  ELSE (Compared \cap Plain) \cup
         (IF Compared \subseteq Plain /\ Compared # {} THEN {} ELSE {"UTC"})

Agreed ==
  /\ localtime.kind # "none"
  /\ \A m \in ToSet(Methods) : config[m] \in {"absent", localtime.zone}

ZoneInit ==
  /\ localtime \in [kind : {"link", "copy"}, zone : Zones]
  /\ config \in [ToSet(Methods) -> {"absent", localtime.zone}]
  /\ Cardinality({m \in ToSet(Methods) : config[m] # "absent"}) <= 1
  /\ call = Idle /\ told = [reply |-> "none", zone |-> "UTC"]
  /\ before = {} /\ changes = 0

-----------------------------------------------------------------------------
ZoneGoes(step) == call' = [call EXCEPT !.step = step]
ZoneEnds(reply) == call' = Idle /\ told' = [reply |-> reply, zone |-> call.zone]
Changes == changes < MaxChanges /\ changes' = changes + 1

\* gsd_datetime_mechanism_set_timezone, up to system_timezone_set's first
\* change: polkit, check_tz_name and is_zone_file_valid may end the call.
SetTimezone(zone) ==
  /\ call = Idle /\ Changes
  /\ before' = IF Agreed THEN Found ELSE {}
  /\ \/ /\ told' = [reply |-> "error", zone |-> zone] /\ UNCHANGED call
     \/ /\ call' = [zone |-> zone, step |-> "localtime"] /\ UNCHANGED told
  /\ UNCHANGED <<localtime, config>>

\* system_timezone_set_etc_timezone: the link goes before the new one comes.
Localtime ==
  /\ call.step = "localtime"
  /\ IF localtime.kind = "link"
     THEN \/ localtime' = [kind |-> "none"] /\ ZoneGoes("symlink")
          \/ UNCHANGED localtime /\ ZoneGoes("copy")
     ELSE UNCHANGED localtime /\ ZoneGoes("copy")
  /\ UNCHANGED <<config, told, before, changes>>

Symlink ==
  /\ call.step = "symlink"
  /\ \/ localtime' = [kind |-> "link", zone |-> call.zone] /\ ZoneGoes(Head(Methods))
     \/ UNCHANGED localtime /\ ZoneGoes("copy")
  /\ UNCHANGED <<config, told, before, changes>>

\* g_file_set_contents replaces the file, or the link, at once.
Copy ==
  /\ call.step = "copy"
  /\ \/ /\ localtime' = [kind |-> "copy", zone |-> call.zone] /\ ZoneGoes(Head(Methods))
        /\ UNCHANGED told
     \/ UNCHANGED localtime /\ ZoneEnds("error")
  /\ UNCHANGED <<config, before, changes>>

\* Bug: as if the deprecated file were not read.
WrittenNoFallback(file, old, zone) == IF old = "absent"
    \/ file = "conf.d" THEN old ELSE zone
\* write_etc_timezone and write_key_file: only what is there is replaced.
Written(file, old, zone) == IF old = "absent" THEN old ELSE zone

\* system_timezone_update_config: one that cannot be written ends it all.
Update ==
  /\ call.step \in ToSet(Methods)
  /\ LET file == call.step
         at == CHOOSE n \in DOMAIN Methods : Methods[n] = file
     IN \/ /\ config' = [config EXCEPT ![file] = Written(file, @, call.zone)]
           /\ IF at = Len(Methods) THEN ZoneEnds("ok")
              ELSE ZoneGoes(Methods[at + 1]) /\ UNCHANGED told
        \/ config[file] # "absent" /\ ZoneEnds("error") /\ UNCHANGED config
  /\ UNCHANGED <<localtime, before, changes>>

\* The machine may stop at any step.
Crash ==
  /\ call # Idle /\ ZoneEnds("lost")
  /\ UNCHANGED <<localtime, config, before, changes>>

\* An administrator, or a package, changes a file.
OtherWrites ==
  /\ call = Idle /\ Changes
  /\ \/ /\ \E m \in ToSet(Methods),
               z \in Zones \cup Unset : config' = [config EXCEPT ![m] = z]
        /\ UNCHANGED localtime
     \/ /\ localtime' \in [kind : {"link", "copy"}, zone : Zones] /\ UNCHANGED config
  /\ told' = [told EXCEPT !.reply = "none"] /\ UNCHANGED <<call, before>>

ZoneNext ==
  \/ \E z \in Zones : SetTimezone(z)
  \/ Localtime \/ Symlink \/ Copy \/ Update \/ Crash \/ OtherWrites
ZoneSpec == ZoneInit /\ [][ZoneNext]_zoneVars

-----------------------------------------------------------------------------
(* ZoneTold: a zone that was said to be set is the one that is found,      *)
(* whatever files there are and whatever they said, or at least, where     *)
(* nothing but a copy tells, one with the same data.  A zone whose name    *)
(* is_valid does not accept is excepted: it is set and not found.          *)
ZoneTold ==
  told.reply = "ok" /\ call = Idle /\ Alike(told.zone) \subseteq Plain =>
    /\ Found \subseteq Alike(told.zone)
    /\ Linked # {} \/ Configured # {} => Found = {told.zone}

(* ZoneKept: where a call failed, or the machine stopped in it, and all    *)
(* files agreed before, what is found is the old zone or the new one; only *)
(* when /etc/localtime got lost may it be the default.                     *)
ZoneKept ==
  told.reply \in {"error", "lost"} /\ call = Idle /\ before # {} =>
    Found \subseteq before \cup Alike(told.zone) \cup
      (IF localtime.kind = "none" \/ ~ Alike(told.zone) \subseteq Plain THEN {"UTC"}
          ELSE {})

-----------------------------------------------------------------------------
(* The calls of gsd-datetime-mechanism.c that set clocks and NTP: one at a  *)
(* time, waiting for polkit and for commands, in a process that ends when   *)
(* it has had nothing to do for a while.                                    *)
CONSTANTS
  Clients,
  Timeout,    \* the kill timer's 30 seconds, in ticks
  HasHwclock, \* /sbin/hwclock is there
  MaxClock    \* bound on calls and on ticks

VARIABLES
  alive, left,  \* the process, and what is left of its timer
  queue,        \* clients whose calls have not been read
  asked,        \* what each client has called last
  answer,       \* and what it has got
  twice,        \* someone was answered twice (history)
  work,         \* the call that is being handled, and its step
  script,       \* ntpdate's script: where it is
  ntpd,         \* ntpd: not installed, stopped or running
  silent,       \* a command failed and only its exit status says so (history)
  promised,     \* what the last call about NTP has achieved, it said (history)
  clock

clockVars == <<alive, left, queue, asked, answer, twice, work, script, ntpd, silent,
               promised, clock>>
ntp == <<script, ntpd, silent, promised>>
process == <<alive, left>>

\* "time" stands for adjust_time too, "ask" for what is answered at once:
\* sync_time, what only reads, and check_can_do.
Ops == {"time", "date", "utc", "ntp on", "ntp off", "ask"}
NoWork == [client |-> "none", step |-> "none"]

ClockTypeOK ==
  /\ {alive, twice, silent} \subseteq BOOLEAN /\ left \in 0..Timeout
  /\ ToSet(queue) \subseteq Clients
  /\ asked \in [Clients -> Ops \cup {"none"}]
  /\ answer \in [Clients -> {"none", "wait", "ok", "error", "gone"}]
  /\ work.step \in {"none", "polkit", "set", "hwclock", "ntpdate", "ntpd", "ntpd failed"}
  /\ script \in SUBSET {"enabled", "disabled"} /\ ntpd \in {"none", "stopped", "running"}
  /\ promised \in {"none", "ntp on", "ntp off"} /\ clock \in 0..MaxClock

ClockInit ==
  /\ alive = FALSE /\ left = 0 /\ queue = <<>>
  /\ asked = [c \in Clients |-> "none"] /\ answer = [c \in Clients |-> "none"]
  /\ twice = FALSE /\ work = NoWork
  /\ script \in SUBSET {"enabled", "disabled"} /\ ntpd \in {"none", "stopped", "running"}
  /\ silent = FALSE /\ promised = "none" /\ clock = 0

-----------------------------------------------------------------------------
Later == clock < MaxClock /\ clock' = clock + 1

\* The bus starts the mechanism, which starts its timer (register_mechanism).
Call(c, op) ==
  /\ Later /\ answer[c] # "wait"
  /\ asked' = [asked EXCEPT ![c] = op] /\ answer' = [answer EXCEPT ![c] = "wait"]
  /\ queue' = Append(queue, c) /\ alive' = TRUE
  /\ left' = IF alive THEN left ELSE Timeout
  /\ UNCHANGED <<twice, work, ntp>>

TimePasses ==
  /\ Later /\ alive /\ left > 0 /\ left' = left - 1
  /\ UNCHANGED <<alive, queue, asked, answer, twice, work, ntp>>

\* do_exit: the timer is not looked at while a call is handled.  The bus
\* answers for a process that is gone.
Exit ==
  /\ alive /\ left = 0 /\ work = NoWork /\ alive' = FALSE /\ queue' = <<>>
  /\ answer' = [c \in Clients |-> IF answer[c] = "wait" THEN "gone" ELSE answer[c]]
  /\ UNCHANGED <<left, asked, twice, work, ntp, clock>>

-----------------------------------------------------------------------------
(* One call at a time.                                                     *)

Answers(c, list) ==
  /\ answer' = IF list = <<>> THEN answer ELSE [answer EXCEPT ![c] = Head(list)]
  /\ twice' = (twice \/ Len(list) > 1 \/ (list # <<>> /\ answer[c] # "wait"))
ClockEnds(list) == Answers(work.client, list) /\ work' = NoWork
ClockGoes(step) == work' = [work EXCEPT !.step = step] /\ UNCHANGED <<answer, twice>>
Op == asked[work.client]
On == Op = "ntp on"

\* reset_killtimer is called by those that set the clock, and not by all.
Resets(op) == op \in {"time", "date"}
\* set_date asks nobody for permission.
Handle ==
  /\ alive /\ work = NoWork /\ queue # <<>> /\ queue' = Tail(queue)
  /\ LET c == Head(queue)
         op == asked[c]
     IN /\ left' = IF Resets(op) THEN Timeout ELSE left
        /\ IF op = "ask"
           THEN (\E what \in {"ok", "error"} : Answers(c, <<what>>)) /\ UNCHANGED work
           ELSE /\ work' = [client |-> c, step |-> IF op = "date" THEN "set" ELSE "polkit"]
                /\ UNCHANGED <<answer, twice>>
  /\ UNCHANGED <<alive, asked, ntp, clock>>

\* _check_polkit_for_action has answered where it says no; settimeofday, or
\* /bin/date, comes before hwclock.
Polkit ==
  /\ work.step = "polkit"
  /\ \/ ClockEnds(<<"error">>)
     \/ Op = "time" /\ ClockGoes("set")
     \/ Op = "utc" /\ ClockGoes("hwclock")
     \/ Op \in {"ntp on", "ntp off"} /\ ClockGoes("ntpdate")
  /\ silent' = FALSE /\ UNCHANGED <<process, queue, asked, script, ntpd, promised, clock>>

SetClock ==
  /\ work.step = "set" /\ (ClockGoes("hwclock") \/ ClockEnds(<<"error">>))
  /\ UNCHANGED <<process, queue, asked, ntp, clock>>

\* Bug: the caller of _sync_hwclock goes on where it has answered.
AnswersTwice(ok) ==
  IF Op = "date" THEN <<>> ELSE IF ok THEN <<"ok">> ELSE <<"error", "ok">>
\* _sync_hwclock answers where it fails; _set_date does not where it succeeds.
HwclockAnswers(ok) ==
  IF ~ok THEN <<"error">> ELSE IF Op = "date" THEN <<>> ELSE <<"ok">>

\* _sync_hwclock, and the command of set_hardware_clock_using_utc; where there
\* is no /sbin/hwclock all is well.
Hwclock ==
  /\ work.step = "hwclock"
  /\ \E ok \in {TRUE, ~HasHwclock} : ClockEnds(HwclockAnswers(ok))
  /\ UNCHANGED <<process, queue, asked, ntp, clock>>

\* Bug: NTP goes off where there is no other copy of the script, only.
MovedOnce(on) ==
  IF on /\ "disabled" \in script THEN {"enabled"}
  ELSE IF ~on /\ script = {"enabled"} THEN {"disabled"} ELSE script
\* The mv of _set_using_ntpdate, if there is something to move.
Moved(on) ==
  IF on /\ "disabled" \in script THEN {"enabled"}
  ELSE IF ~on /\ "enabled" \in script THEN {"disabled"} ELSE script

\* _set_using_ntpdate: an error is kept for the end; mv's status is not read.
Ntpdate ==
  /\ work.step = "ntpdate"
  /\ \/ script' = Moved(On) /\ ClockGoes("ntpd") /\ UNCHANGED silent
     \/ /\ Moved(On) # script /\ script' \in {script, Moved(On)}
        /\ ClockGoes("ntpd failed") /\ UNCHANGED silent
     \/ Moved(On) # script /\ UNCHANGED script /\ ClockGoes("ntpd") /\ silent' = TRUE
  /\ UNCHANGED <<process, queue, asked, ntpd, promised, clock>>

\* _set_using_ntpd, and the end of _set_using_ntp_debian.  Where update-rc.d
\* or service cannot be started there is an error; their status is not read.
Ntpd ==
  /\ work.step \in {"ntpd", "ntpd failed"}
  /\ LET goal == IF On THEN "running" ELSE "stopped"
         mayFail == ntpd \notin {"none", goal}
     IN \E works, started \in BOOLEAN :
          LET ok == started /\ work.step = "ntpd" IN
            /\ ~works \/ ~started => mayFail
            /\ ntpd' = IF mayFail /\ works /\ started THEN goal ELSE ntpd
            /\ silent' = (silent \/ ~works)
            /\ ClockEnds(IF ok THEN <<"ok">> ELSE <<"error">>)
            /\ promised' = IF ok /\ ~silent' THEN Op ELSE "none"
  /\ UNCHANGED <<process, queue, asked, script, clock>>

ClockNext ==
  \/ \E c \in Clients, op \in Ops : Call(c, op)
  \/ TimePasses \/ Exit \/ Handle \/ Polkit \/ SetClock \/ Hwclock
  \/ Ntpdate \/ Ntpd
ClockSpec == ClockInit /\ [][ClockNext]_clockVars

-----------------------------------------------------------------------------
(* Answered: every call is answered, and once: a client that waits is in   *)
(* the queue or being served, and none waits for a process that has ended. *)
(* SetDate is excepted: the code has no answer for one that has gone well. *)
Answered ==
  /\ ~twice
  /\ \A c \in Clients : answer[c] = "wait" =>
       alive /\ (c \in ToSet(queue) \/ work.client = c \/ asked[c] = "date")

\* _get_using_ntp_debian
Using == "enabled" \in script \/ ntpd = "running"
CanUse == script # {} \/ ntpd # "none"

(* NtpTold: NTP that was said to be off is off in both its forms, and what *)
(* was said to be on is, where it is installed, unless a command failed    *)
(* and only its exit status told.                                          *)
NtpTold ==
  promised # "none" /\ work.step \notin {"ntpdate", "ntpd", "ntpd failed"} =>
    Using = (CanUse /\ promised = "ntp on")
=============================================================================
