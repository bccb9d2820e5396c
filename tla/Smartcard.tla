----------------------------- MODULE Smartcard -----------------------------
(***************************************************************************)
(* The smartcard plugin (plugins/smartcard/): a worker thread that waits   *)
(* for NSS to report a slot, looks at the slot and writes insertions and   *)
(* removals to a pipe; the main loop, which reads the pipe, keeps the table*)
(* of inserted cards and acts when the login card is removed.              *)
(*                                                                         *)
(* The thread reads the slot's series and its presence by separate calls,  *)
(* and the card may be pulled or changed at any time in between.  NSS is   *)
(* external: every insertion has a series number of its own in its slot    *)
(* ("the slot id and series together uniquely identify a card").           *)
(***************************************************************************)
EXTENDS Integers, Sequences

CONSTANTS
  Slots,      \* the slots of the one module with removable slots
  Cards,      \* names of cards
  NoCard,     \* no card, and its name
  LoginCard,  \* the environment variable PKCS11_LOGIN_TOKEN_NAME
  Settings,   \* values of "removal-action" the user chooses from
  SeriesMax,  \* bound of the model: series of the last insertion
  PipeSize    \* messages the pipe holds before a write blocks

ASSUME CardsAssumption == LoginCard \in Cards /\ NoCard \notin Cards
ASSUME SettingsAssumption ==
  Settings \subseteq {"none", "lock-screen", "force-logout"}
ASSUME SizeAssumption == SeriesMax \in Nat \ {0} /\ PipeSize \in Nat

VARIABLES
  inSlot,    \* the card in each slot
  name,      \* PK11_GetTokenName: the card that is or was in it
  series,    \* PK11_GetSlotSeries
  reported,  \* series and presence NSS reported last
  pc,        \* where the thread is
  slot,      \* its local variable
  seen,      \* its local variable slot_series
  tracked,   \* worker->smartcards
  pipe,      \* messages written and not read
  phase,     \* "off", "starting", "active", "stopped" or "crashed"
  table,     \* manager->priv->smartcards, whose keys are names
  told,      \* history: last signal of the manager about each slot
  flip,      \* history: changes with every signal
  setting,   \* "removal-action"
  acted      \* last action process_smartcard_removal asked for

nss    == <<inSlot, name, series>>
worker == <<reported, pc, slot, seen, tracked>>
plugin == <<phase, table, told, flip, acted>>
vars   == <<nss, worker, pipe, plugin, setting>>

MaybeCards == Cards \cup {NoCard}
AllSeries == 1 .. SeriesMax
Nothing == [series |-> 0, card |-> NoCard]
Tracked == {Nothing} \cup [series : AllSeries, card : Cards]

\* A message names a card.  Its slot is a history variable of the message.
Messages == [type : {"I", "R"}, card : Cards, slot : Slots]

TypeOK ==
  /\ inSlot \in [Slots -> MaybeCards] /\ name \in [Slots -> MaybeCards]
  /\ series \in [Slots -> AllSeries]
  /\ reported \in [Slots -> [series : AllSeries, present : BOOLEAN]]
  /\ pc \in {"none", "wait", "series", "look", "unkeyed", "ended"}
  /\ slot \in Slots /\ seen \in AllSeries
  /\ tracked \in [Slots -> Tracked]
  /\ pipe \in Seq(Messages) /\ Len(pipe) <= PipeSize
  /\ phase \in {"off", "starting", "active", "stopped", "crashed"}
  /\ table \subseteq MaybeCards
  /\ told \in [Slots -> MaybeCards] /\ flip \in BOOLEAN
  /\ setting \in Settings
  /\ acted \in {"none", "lock_screen", "force_logout"}
  /\ \A s \in Slots : /\ inSlot[s] # NoCard => name[s] = inSlot[s]
                      /\ tracked[s] # Nothing => name[s] # NoCard

-----------------------------------------------------------------------------
(* The user and NSS                                                        *)

Present(s) == inSlot[s] # NoCard

Insert(s, card) ==
  /\ phase # "off" /\ ~Present(s) /\ series[s] < SeriesMax
  /\ \A other \in Slots : inSlot[other] # card
  /\ inSlot' = [inSlot EXCEPT ![s] = card]
  /\ name' = [name EXCEPT ![s] = card]
  /\ series' = [series EXCEPT ![s] = @ + 1]
  /\ UNCHANGED <<worker, pipe, plugin, setting>>

Pull(s) ==
  /\ phase # "off" /\ Present(s)
  /\ inSlot' = [inSlot EXCEPT ![s] = NoCard]
  /\ UNCHANGED <<name, series, worker, pipe, plugin, setting>>

ChangeSetting ==
  /\ setting' \in Settings
  /\ UNCHANGED <<nss, worker, pipe, plugin>>

-----------------------------------------------------------------------------
(* The thread: gsd_smartcard_manager_worker_run                            *)

Runs == phase # "crashed"

\* SECMOD_WaitForAnyTokenEvent finds a slot that differs from what it
\* reported of it.
Wait ==
  /\ Runs /\ pc = "wait" /\ pc' = "series"
  /\ \E s \in Slots :
       LET now == [series |-> series[s], present |-> Present(s)]
       IN /\ now # reported[s]
          /\ reported' = [reported EXCEPT ![s] = now]
          /\ slot' = s
  /\ UNCHANGED <<nss, seen, tracked, pipe, plugin, setting>>

\* It fails, or was cancelled: the thread frees its structure and ends,
\* and nobody is told.
WaitFails ==
  /\ Runs /\ pc = "wait" /\ pc' = "ended"
  /\ UNCHANGED <<nss, reported, slot, seen, tracked, pipe, plugin, setting>>

\* PK11_GetSlotSeries
ReadSeries ==
  /\ Runs /\ pc = "series" /\ pc' = "look"
  /\ seen' = series[slot]
  /\ UNCHANGED <<nss, reported, slot, tracked, pipe, plugin, setting>>

Removed(card, s) == [type |-> "R", card |-> card, slot |-> s]
Inserted(card, s) == [type |-> "I", card |-> card, slot |-> s]

\* PK11_IsPresent said yes.  A card of another series was there before.
LookPresent ==
  LET old == tracked[slot]
      before == IF old # Nothing /\ old.series # seen
                  THEN Append(pipe, Removed(old.card, slot)) ELSE pipe
  IN /\ Present(slot)
     /\ pipe' = Append(before, Inserted(name[slot], slot))
     /\ tracked' = [tracked EXCEPT ![slot] = [series |-> seen,
                                              card |-> name[slot]]]

\* It said no, and nothing is tracked: the event is discarded.
LookSpurious ==
  /\ ~Present(slot) /\ tracked[slot] = Nothing
  /\ UNCHANGED <<pipe, tracked>>

LookRemoved ==
  LET old == tracked[slot]
  IN /\ ~Present(slot) /\ old # Nothing /\ seen - old.series <= 1
     /\ pipe' = Append(pipe, Removed(old.card, slot))
     /\ tracked' = [tracked EXCEPT ![slot] = Nothing]

\* Cards came and went unseen: one of them is told for all.
LookMissed ==
  LET old == tracked[slot]
      new == name[slot]
  IN /\ ~Present(slot) /\ old # Nothing /\ seen - old.series > 1
     /\ pipe' = Append(Append(Append(pipe, Removed(old.card, slot)),
                              Inserted(new, slot)), Removed(new, slot))
     /\ tracked' = [tracked EXCEPT ![slot] = [series |-> seen, card |-> new]]

\* Mutants of Look: a removal is told of a slot that nothing is tracked of;
\* the card stays tracked after its removal; a card that is present is not
\* compared with the one before; a write does not wait for room.
LookUnpaired ==
  /\ Runs /\ pc = "look" /\ pc' = "wait"
  /\ \/ LookPresent \/ LookRemoved
     \/ /\ ~Present(slot) /\ tracked[slot] = Nothing /\ name[slot] # NoCard
        /\ pipe' = Append(pipe, Removed(name[slot], slot))
        /\ UNCHANGED tracked
  /\ Len(pipe') <= PipeSize
  /\ UNCHANGED <<nss, reported, slot, seen, plugin, setting>>

LookKeeps ==
  /\ Runs /\ pc = "look" /\ pc' = "wait"
  /\ \/ LookPresent \/ LookSpurious
     \/ /\ ~Present(slot) /\ tracked[slot] # Nothing
        /\ seen - tracked[slot].series <= 1
        /\ pipe' = Append(pipe, Removed(tracked[slot].card, slot))
        /\ UNCHANGED tracked
  /\ Len(pipe') <= PipeSize
  /\ UNCHANGED <<nss, reported, slot, seen, plugin, setting>>

LookSame ==
  /\ Runs /\ pc = "look" /\ pc' = "wait"
  /\ \/ tracked[slot] = Nothing /\ LookPresent
     \/ tracked[slot] # Nothing /\ Present(slot) /\ UNCHANGED <<pipe, tracked>>
     \/ LookSpurious \/ LookRemoved
  /\ Len(pipe') <= PipeSize
  /\ UNCHANGED <<nss, reported, slot, seen, plugin, setting>>

LookNoWait ==
  /\ Runs /\ pc = "look" /\ pc' = "wait"
  /\ LookPresent \/ LookSpurious \/ LookRemoved
  /\ UNCHANGED <<nss, reported, slot, seen, plugin, setting>>

\* The rest of gsd_smartcard_manager_worker_watch_for_and_process_event; a
\* write to a full pipe waits.
Look ==
  /\ Runs /\ pc = "look"
  /\ \/ pc' = "wait" /\ (LookPresent \/ LookSpurious \/ LookRemoved)
     \/ pc' = "unkeyed" /\ LookMissed
  /\ Len(pipe') <= PipeSize
  /\ UNCHANGED <<nss, reported, slot, seen, plugin, setting>>

\* After LookMissed the code removes the key that it has just set to NULL,
\* and slot_id_hash dereferences it.
RemoveNoKey ==
  /\ Runs /\ pc = "unkeyed" /\ phase' = "crashed"
  /\ UNCHANGED <<nss, worker, pipe, table, told, flip, setting, acted>>

-----------------------------------------------------------------------------
(* The main loop                                                           *)

\* get_configured_remove_action: the nicks of the schema's enumeration are
\* spelt with hyphens, the strings it compares with are not.
ConfiguredAction ==
  IF setting \in {"lock_screen", "force_logout"} THEN setting ELSE "none"

\* process_smartcard_removal
ProcessRemoval ==
  acted' = IF ConfiguredAction = "none" THEN acted ELSE ConfiguredAction

\* gsd_smartcard_manager_start: NSS is loaded and the thread created.
StartWorkers ==
  /\ phase = "off" /\ phase' = "starting" /\ pc' = "wait"
  /\ UNCHANGED <<nss, reported, slot, seen, tracked, pipe, table, told,
                 flip, setting, acted>>

\* NSS or its driver does not load: the plugin is active all the same, and
\* the login card is not in its empty table.
StartFails ==
  /\ phase = "off" /\ phase' = "active"
  /\ ProcessRemoval
  /\ UNCHANGED <<nss, worker, pipe, table, told, flip, setting>>

\* The rest of impl_activate, from gsd_smartcard_manager_get_all_cards on:
\* the table gets the name of every slot, whether a card is in it or not.
Activate ==
  /\ phase = "starting" /\ phase' = "active"
  /\ table' = {name[s] : s \in Slots}
  /\ IF LoginCard \in table' THEN UNCHANGED acted ELSE ProcessRemoval
  /\ UNCHANGED <<nss, worker, pipe, told, flip, setting>>

\* gsd_smartcard_manager_check_for_and_process_events: 'I'
HandleInserted ==
  /\ phase = "active" /\ pipe # <<>> /\ Head(pipe).type = "I"
  /\ pipe' = Tail(pipe)
  /\ table' = table \cup {Head(pipe).card}
  /\ told' = [told EXCEPT ![Head(pipe).slot] = Head(pipe).card]
  /\ flip' = ~flip
  /\ UNCHANGED <<nss, worker, phase, setting, acted>>

\* 'R', with smartcard_removed_cb
HandleRemoved ==
  /\ phase = "active" /\ pipe # <<>> /\ Head(pipe).type = "R"
  /\ pipe' = Tail(pipe)
  /\ table' = table \ {Head(pipe).card}
  /\ told' = [told EXCEPT ![Head(pipe).slot] = NoCard]
  /\ flip' = ~flip
  /\ IF Head(pipe).card = LoginCard THEN ProcessRemoval ELSE UNCHANGED acted
  /\ UNCHANGED <<nss, worker, phase, setting>>

\* Reading the pipe, or deactivating, with a structure that the thread has
\* freed: the process may not survive that.
HandleFreed ==
  /\ phase = "active" /\ pc = "ended"
  /\ phase' = "crashed"
  /\ UNCHANGED <<nss, worker, pipe, table, told, flip, setting, acted>>

\* impl_deactivate: the source of the pipe is destroyed.
Deactivate ==
  /\ phase = "active" /\ phase' = "stopped"
  /\ UNCHANGED <<nss, worker, pipe, table, told, flip, setting, acted>>

-----------------------------------------------------------------------------
\* NSS reports no card before its first look ("on startup NSS will generate
\* an insertion event if a card is already inserted").
Init ==
  /\ inSlot \in [Slots -> MaybeCards]
  /\ \A s, t \in Slots : s # t /\ Present(s) => inSlot[s] # inSlot[t]
  /\ name = inSlot /\ series = [s \in Slots |-> 1]
  /\ reported = [s \in Slots |-> [series |-> 1, present |-> FALSE]]
  /\ pc = "none" /\ slot \in Slots /\ seen = 1
  /\ tracked = [s \in Slots |-> Nothing] /\ pipe = <<>>
  /\ phase = "off" /\ table = {}
  /\ told = [s \in Slots |-> NoCard] /\ flip = FALSE
  /\ setting \in Settings /\ acted = "none"

Next ==
  \/ \E s \in Slots, card \in Cards : Insert(s, card)
  \/ \E s \in Slots : Pull(s)
  \/ ChangeSetting
  \/ Wait \/ WaitFails \/ ReadSeries \/ Look \/ RemoveNoKey
  \/ StartWorkers \/ StartFails \/ Activate
  \/ HandleInserted \/ HandleRemoved \/ HandleFreed \/ Deactivate

Spec == Init /\ [][Next]_vars

\* The thread runs, and the main loop goes on and dispatches the pipe.
FairSpec ==
  /\ Spec
  /\ WF_vars(Wait \/ ReadSeries \/ Look \/ RemoveNoKey)
  /\ WF_vars(Activate) /\ WF_vars(HandleInserted \/ HandleRemoved)

-----------------------------------------------------------------------------
(* Properties                                                              *)

\* Slot s is told or about to be told inserted once the first n - 1 messages
\* of a queue are handled, where last was told of each slot before.
InBefore(queue, last, s, n) ==
  \/ \E m \in 1 .. n - 1 :
       /\ queue[m].slot = s /\ queue[m].type = "I"
       /\ \A k \in m + 1 .. n - 1 : queue[k].slot # s
  \/ /\ \A k \in 1 .. n - 1 : queue[k].slot # s
     /\ last[s] # NoCard

\* "We don't want unpaired remove events" (gsd-smartcard-manager.c:1327):
\* every removal on its way follows an insertion of the same slot, whatever
\* happened to the slot between the calls of the thread.
RemovalsArePaired ==
  \A n \in DOMAIN pipe :
    pipe[n].type = "R" => InBefore(pipe, told, pipe[n].slot, n)

Watching == phase = "active" /\ pc \notin {"none", "ended"}

Watch == INSTANCE CardWatch WITH watching <- Watching

\* The plugin implements CardWatch: each step tells an insertion or a paired
\* removal, or changes the world, or neither.
Watched == Watch!Spec

\* A slot that is left alone is told right in the end, also when the card
\* was pulled or changed between two calls of the thread, unless the process
\* crashed, the thread ended or the plugin was deactivated.
SettlesInTheEnd == Watch!Settles

\* "The action will get performed when the smartcard used for log in is
\* removed" (peripherals.gschema.xml.in.in:14): a login card that was told
\* inserted and is out for good has led to the action of the setting.
RemovalIsActedOn ==
  (\E s \in Slots : told[s] = LoginCard /\ setting # "none")
    ~> \/ \E s \in Slots : inSlot[s] = LoginCard
       \/ setting = "none" \/ acted # "none" \/ ~Watching
=============================================================================
