-------------------------- MODULE SettingsManager --------------------------
(***************************************************************************)
(* The plugin manager of the daemon (gnome-settings-manager.c) and the     *)
(* plugins it keeps (gnome-settings-plugin-info.c): which plugin files are *)
(* taken, in which order they are activated, how a plugin follows its      *)
(* "active" key at run time, what is said about it on the bus, and what    *)
(* stopping the manager does.                                              *)
(*                                                                         *)
(* The manager runs in the main loop of one process, so a handler is one   *)
(* action.  GSettings notifies of a change some time after it was made,    *)
(* and the connection to the session bus arrives some time after the start.*)
(***************************************************************************)
EXTENDS Naturals, SequencesExt

CONSTANTS
  Files,       \* the plugin files in the plugin directory that can be read
  Locations,   \* the modules these name
  Location,    \* [Files -> Locations], the key "Module"
  Priority,    \* [Files -> Nat], from the settings or else the file
  Whitelist,   \* "whitelisted-plugins": locations; {} stands for all
  Schemas,     \* locations with a settings schema
  Unreadable   \* plugins whose module may turn out not to load

ASSUME FilesAssumption ==
  /\ IsFiniteSet(Files) /\ Location \in [Files -> Locations]
  /\ Priority \in [Files -> Nat] /\ Unreadable \subseteq Files
  /\ Whitelist \subseteq Locations /\ Schemas \subseteq Locations

VARIABLES
  phase,       \* "new", "started" or "stopped"
  key,         \* the "active" key of each schema
  changed,     \* locations whose change has not been notified of
  plugins,     \* manager->priv->plugins
  info,        \* the GnomeSettingsPluginInfo of each file
  connection,  \* manager->priv->connection # NULL
  heard        \* history: the last signal on the bus about each file

vars == <<phase, key, changed, plugins, info, connection, heard>>

\* object is info->priv->plugin # NULL.
Infos == [enabled : BOOLEAN, active : BOOLEAN, available : BOOLEAN,
          object : BOOLEAN]
Signals == {"none", "PluginActivated", "PluginDeactivated"}

TypeOK ==
  /\ phase \in {"new", "started", "stopped"}
  /\ key \in [Schemas -> BOOLEAN] /\ changed \subseteq Schemas
  /\ plugins \in Seq(Files)
  /\ info \in [Files -> Infos]
  /\ connection \in BOOLEAN
  /\ heard \in [Files -> Signals]
  /\ \A f \in Files : info[f].active => info[f].object /\ info[f].available

-----------------------------------------------------------------------------
(* One plugin: gnome-settings-plugin-info.c                                *)

\* load_plugin_module, where missing is the set of modules that cannot be
\* loaded at present: such a plugin is unavailable for good.
LoadModule(f, i, missing) ==
  IF f \in missing THEN [i EXCEPT !.available = FALSE]
                   ELSE [i EXCEPT !.object = TRUE]

\* Mutant of Activated: a module that did not load is not noticed.
ActivatedUnchecked(f, i, missing) ==
  IF ~i.available THEN i
  ELSE [(IF i.object THEN i ELSE LoadModule(f, i, missing))
          EXCEPT !.active = TRUE]

\* gnome_settings_plugin_info_activate
Activated(f, i, missing) ==
  IF ~i.available \/ i.active THEN i
  ELSE LET j == IF i.object THEN i ELSE LoadModule(f, i, missing)
       IN [j EXCEPT !.active = j.object]

\* gnome_settings_plugin_info_deactivate
Deactivated(i) == IF i.available THEN [i EXCEPT !.active = FALSE] ELSE i

\* The signals "activated" and "deactivated" of a plugin that changed, as
\* emit_signal sends them: it names PluginActivated whatever its argument.
Emitted ==
  heard' = [f \in Files |->
              IF connection /\ info'[f].active # info[f].active
                THEN "PluginActivated" ELSE heard[f]]

-----------------------------------------------------------------------------
(* The manager                                                             *)

IsWhitelisted(f) == Whitelist = {} \/ Location[f] \in Whitelist

\* Mutant of Prepended: a second file for the same module is not noticed.
PrependedAlways(list, f) ==
  IF IsWhitelisted(f) /\ Location[f] \in Schemas THEN <<f>> \o list ELSE list

\* _load_file
Prepended(list, f) ==
  IF /\ \A n \in DOMAIN list : Location[list[n]] # Location[f]
     /\ IsWhitelisted(f) /\ Location[f] \in Schemas
    THEN <<f>> \o list ELSE list

\* _load_dir: the directory is read in any order.
Listings == {FoldLeft(Prepended, <<>>, order) : order \in SetToSeqs(Files)}

\* g_slist_sort with compare_priority; it is stable.
SortedByPriority(list) ==
  CHOOSE s \in SetToSeqs(ToSet(list)) :
    \A m, n \in DOMAIN s :
      m < n => \/ Priority[s[m]] < Priority[s[n]]
               \/ /\ Priority[s[m]] = Priority[s[n]]
                  /\ \E a, b \in DOMAIN list :
                       a < b /\ list[a] = s[m] /\ list[b] = s[n]

\* gnome_settings_plugin_info_set_settings_prefix, maybe_activate_plugin
Begun(f, missing) ==
  LET i == [enabled |-> key[Location[f]], active |-> FALSE,
            available |-> TRUE, object |-> FALSE]
  IN IF i.enabled THEN Activated(f, i, missing) ELSE i

\* gnome_settings_manager_start
Start ==
  /\ phase = "new" /\ phase' = "started"
  /\ \E list \in Listings : plugins' = SortedByPriority(list)
  /\ \E missing \in SUBSET Unreadable :
       info' = [f \in Files |-> IF f \in ToSet(plugins') THEN Begun(f, missing)
                                                        ELSE info[f]]
  /\ Emitted
  /\ UNCHANGED <<key, changed, connection>>

\* on_bus_gotten
BusGotten ==
  /\ phase # "stopped" /\ ~connection /\ connection' = TRUE
  /\ UNCHANGED <<phase, key, changed, plugins, info, heard>>

\* Somebody writes an "active" key; the plugin's GSettings will notice.
WriteKey ==
  /\ \E l \in Schemas :
       /\ key' = [key EXCEPT ![l] = ~@]
       /\ changed' = IF phase = "started" THEN changed \cup {l} ELSE changed
  /\ UNCHANGED <<phase, plugins, info, connection, heard>>

\* Mutants of EnabledChanged: the key counts as it was when the plugin was
\* loaded; a plugin can be switched on but not off.
EnabledChangedCached(l) ==
  /\ phase = "started" /\ l \in changed /\ changed' = changed \ {l}
  /\ \E missing \in SUBSET Unreadable :
       info' = [f \in Files |->
                  IF f \notin ToSet(plugins) \/ Location[f] # l THEN info[f]
                  ELSE IF info[f].enabled THEN Activated(f, info[f], missing)
                  ELSE Deactivated(info[f])]
  /\ Emitted
  /\ UNCHANGED <<phase, key, plugins, connection>>

EnabledChangedOn(l) ==
  /\ phase = "started" /\ l \in changed /\ changed' = changed \ {l}
  /\ \E missing \in SUBSET Unreadable :
       info' = [f \in Files |->
                  IF f \notin ToSet(plugins) \/ Location[f] # l THEN info[f]
                  ELSE IF TRUE THEN Activated(f, info[f], missing)
                  ELSE Deactivated(info[f])]
  /\ Emitted
  /\ UNCHANGED <<phase, key, plugins, connection>>

\* plugin_enabled_cb: reads the key as it is now.
EnabledChanged(l) ==
  /\ phase = "started" /\ l \in changed /\ changed' = changed \ {l}
  /\ \E missing \in SUBSET Unreadable :
       info' = [f \in Files |->
                  IF f \notin ToSet(plugins) \/ Location[f] # l THEN info[f]
                  ELSE IF key[l] THEN Activated(f, info[f], missing)
                  ELSE Deactivated(info[f])]
  /\ Emitted
  /\ UNCHANGED <<phase, key, plugins, connection>>

\* gnome_settings_manager_stop: _unload_plugin deactivates what was enabled
\* when it was loaded.
Stop ==
  /\ phase = "started" /\ phase' = "stopped"
  /\ info' = [f \in Files |->
                IF f \in ToSet(plugins) /\ info[f].enabled
                  THEN Deactivated(info[f]) ELSE info[f]]
  /\ Emitted
  /\ plugins' = <<>> /\ changed' = {}
  /\ UNCHANGED <<key, connection>>

-----------------------------------------------------------------------------
Init ==
  /\ phase = "new" /\ key \in [Schemas -> BOOLEAN] /\ changed = {}
  /\ plugins = <<>> /\ connection = FALSE
  /\ info = [f \in Files |-> [enabled |-> FALSE, active |-> FALSE,
                              available |-> TRUE, object |-> FALSE]]
  /\ heard = [f \in Files |-> "none"]

Next ==
  \/ Start \/ BusGotten \/ Stop
  \/ WriteKey \/ \E l \in Schemas : EnabledChanged(l)

Spec == Init /\ [][Next]_vars

\* GSettings delivers its notifications.
FairSpec == Spec /\ \A l \in Schemas : WF_vars(EnabledChanged(l))

-----------------------------------------------------------------------------
(* Properties                                                              *)

\* A plugin runs exactly while its key is set, but for changes that have not
\* been notified of: quick changes back and forth, or one made between the
\* reading of the key and the activation, leave no plugin in the wrong state
\* (plugin_enabled_cb, maybe_activate_plugin).
FollowsKey ==
  \A f \in Files :
    f \in ToSet(plugins) /\ Location[f] \in Schemas \ changed
      => (info[f].available => info[f].active = key[Location[f]])

\* The plugins are listed by priority, each module once, whichever order the
\* directory is read in ("A lower number means higher priority",
\* gnome-settings-plugin-info.c:67).
InOrder ==
  \A m, n \in DOMAIN plugins :
    m < n => /\ Priority[plugins[m]] <= Priority[plugins[n]]
             /\ Location[plugins[m]] # Location[plugins[n]]

\* A key that is left alone is obeyed in the end, unless the module of the
\* plugin turned out not to load or the manager was stopped.
KeyIsObeyed ==
  \A f \in Files :
    <>[](phase = "started" /\ f \in ToSet(plugins) /\ key[Location[f]])
      => <>[](info[f].active \/ ~info[f].available)

\* The bus interface has a signal PluginDeactivated beside PluginActivated
\* (gnome-settings-manager.c:54): the last signal about a plugin says whether
\* it runs.
HeardRight ==
  \A f \in Files :
    heard[f] # "none" => (heard[f] = "PluginActivated") = info[f].active
=============================================================================
