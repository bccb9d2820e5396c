----------------------------- MODULE Clipboard ------------------------------
(* The clipboard plugin (plugins/clipboard): it saves what an application  *)
(* that exits has in the clipboard, and serves it to others from then on.  *)
EXTENDS Naturals, Sequences, SequencesExt, FiniteSets

-----------------------------------------------------------------------------
(* An application that exits asks the clipboard plugin to save what it has  *)
(* in the clipboard.  The plugin asks the clipboard's owner for its targets,*)
(* then for all of them at once, and becomes the owner itself.  Big data    *)
(* comes in pieces, each one after the last was deleted.                    *)
CONSTANTS
  Apps,               \* applications
  Targets, Big,       \* what they have, and what of it is sent in pieces
  Pieces,             \* the number of pieces
  MaxTakes            \* bounds how often the clipboard is taken

VARIABLES
  alive,              \* applications that run
  owner, changed,     \* the server: the owner of CLIPBOARD, since when
  takes,
  asked,              \* what each application is asked to convert
  sending,            \* the pieces each one has yet to send, 0 the empty last one
  deletions,          \* how often each one has been told of a deleted property
  property,           \* the properties of the plugin's window
  wire,               \* events on their way to the plugin
  answer,             \* what each application was told
  requestor, time,    \* priv
  contents,
  kept,               \* history: contents left by a request that failed, or came late
  mixed               \* history: two have been asked for all at the same time

server == <<owner, changed, takes>>
clients == <<alive, asked, sending>>
plugin == <<requestor, time, contents>>
saveVars == <<alive, owner, changed, takes, asked, sending, deletions, property,
              wire, answer, requestor, time, contents, kept, mixed>>

None == "none"
Idle == Pieces + 1
Manager == "manager"
Incr == <<"incr">>
Nothing == [t \in {} |-> None]

SaveInit ==
  /\ alive = Apps /\ owner \in Apps \cup {None} /\ changed = 0 /\ takes = 0
  /\ asked = [a \in Apps |-> <<>>] /\ sending = [a \in Apps |-> Idle]
  /\ deletions = [a \in Apps |-> 0] /\ property = [t \in Targets |-> <<>>]
  /\ wire = <<>> /\ answer = [a \in Apps |-> None]
  /\ requestor = None /\ time = 0 /\ contents = Nothing
  /\ kept = FALSE /\ mixed = FALSE

-----------------------------------------------------------------------------
(* Applications                                                            *)

\* The plugin, when it is the owner, is told.
SaveLost(events) == IF owner = Manager THEN Append(events, [type |-> "clear"]) ELSE events

Take(a) ==
  /\ a \in alive /\ owner # a /\ takes < MaxTakes /\ answer[a] # "asked"
  /\ takes' = takes + 1 /\ owner' = a /\ changed' = takes'
  /\ wire' = SaveLost(wire)
  /\ UNCHANGED <<deletions, property, answer, kept, mixed>>
  /\ UNCHANGED clients /\ UNCHANGED plugin

\* With or without a list of the targets.
Save(a) ==
  /\ a \in alive /\ owner = a /\ answer[a] = None
  /\ answer' = [answer EXCEPT ![a] = "asked"]
  /\ \E list \in BOOLEAN :
       wire' = Append(wire, [type |-> "save", app |-> a, time |-> takes, list |-> list])
  /\ UNCHANGED <<deletions, property, kept, mixed>>
  /\ UNCHANGED server /\ UNCHANGED clients /\ UNCHANGED plugin

\* An application that has lost the clipboard may refuse.
Convert(a) ==
  /\ a \in alive /\ asked[a] # <<>> /\ asked' = [asked EXCEPT ![a] = Tail(@)]
  /\ \/ /\ owner # a /\ wire' = Append(wire, [type |-> "notify", property |-> None])
        /\ UNCHANGED <<property, sending, deletions>>
     \/ /\ wire' = Append(wire, [type |-> "notify", property |-> Head(asked[a])])
        /\ IF Head(asked[a]) = "MULTIPLE"
           THEN /\ property' = [t \in Targets |-> IF t \in Big THEN Incr ELSE <<a>>]
                /\ sending' = [sending EXCEPT ![a] = IF Big = {} THEN Idle ELSE Pieces]
                /\ deletions' = [deletions EXCEPT ![a] = 0]
           ELSE UNCHANGED <<property, sending, deletions>>
  /\ UNCHANGED <<alive, answer, kept, mixed>> /\ UNCHANGED server /\ UNCHANGED plugin

\* Two applications may send pieces in the same property.
SendPiece(a, t) ==
  /\ a \in alive /\ t \in Big /\ sending[a] # Idle /\ deletions[a] > 0
  /\ deletions' = [deletions EXCEPT ![a] = @ - 1]
  /\ sending' = [sending EXCEPT ![a] = IF @ = 0 THEN Idle ELSE @ - 1]
  /\ property' = [property EXCEPT ![t] = IF sending[a] = 0 THEN @ ELSE Append(@, a)]
  /\ wire' = Append(wire, [type |-> "property", target |-> t])
  /\ UNCHANGED <<alive, asked, answer, kept, mixed>> /\ UNCHANGED server /\ UNCHANGED plugin

\* When it is answered, or at any time.
Exit(a) ==
  /\ a \in alive /\ answer[a] # None /\ alive' = alive \ {a}
  /\ owner' = IF owner = a THEN None ELSE owner
  /\ wire' = (IF asked[a] = <<>> THEN wire
              ELSE Append(wire, [type |-> "notify", property |-> None]))
             \o IF requestor = a THEN <<[type |-> "destroy", app |-> a]>> ELSE <<>>
  /\ asked' = [asked EXCEPT ![a] = <<>>] /\ sending' = [sending EXCEPT ![a] = Idle]
  /\ deletions' = [deletions EXCEPT ![a] = 0]
  /\ UNCHANGED <<changed, takes, property, answer, kept, mixed>> /\ UNCHANGED plugin

-----------------------------------------------------------------------------
(* The plugin                                                              *)

\* XConvertSelection: the server asks the owner, which can be the plugin itself.
ConvertSelection(target, events) ==
  /\ asked' = IF owner \in Apps THEN [asked EXCEPT ![owner] = Append(@, target)] ELSE asked
  /\ wire' = CASE owner = None -> Append(events, [type |-> "notify", property |-> None])
               [] owner = Manager /\ target = "TARGETS" ->
                    Append(events, [type |-> "notify", property |-> target])
               [] OTHER -> events

\* An answer to an earlier request is outstanding.
Outstanding(events) ==
  \/ \E a \in Apps : sending[a] # Idle \/ "MULTIPLE" \in ToSet(asked[a])
  \/ \E e \in ToSet(events) : \/ e.type = "property"
                            \/ (e.type = "notify" /\ e.property = "MULTIPLE")

\* All targets are asked for at once.
SaveTargets(events) ==
  /\ mixed' = (mixed \/ Outstanding(events))
  /\ contents' = [t \in Targets |-> [type |-> None, data |-> <<>>]]
  /\ ConvertSelection("MULTIPLE", events)

\* Of a property that is deleted all are told that send pieces.
Deleted(T) ==
  deletions' = [a \in Apps |-> IF sending[a] # Idle /\ T \cap Big # {}
                               THEN deletions[a] + 1 ELSE deletions[a]]

SendSelectionNotify(success) ==
  answer' = IF requestor = None THEN answer
            ELSE [answer EXCEPT ![requestor] = IF success THEN "yes" ELSE "no"]

\* While another request is served, or the plugin has contents, it is refused.
ConvertClipboardManager(e, events) ==
  /\ IF e.app \notin alive THEN wire' = events /\ UNCHANGED <<requestor, time,
                                                              contents, answer,
                                                              asked, mixed>>
     ELSE IF requestor # None \/ contents # Nothing
     THEN /\ answer' = [answer EXCEPT ![e.app] = "no"] /\ wire' = events
          /\ UNCHANGED <<requestor, time, contents, asked, mixed>>
     ELSE /\ requestor' = e.app /\ time' = e.time /\ UNCHANGED answer
          /\ IF e.list THEN SaveTargets(events)
             ELSE ConvertSelection("TARGETS", events) /\ UNCHANGED <<contents, mixed>>
  /\ UNCHANGED <<deletions, property, owner, changed, kept>>

\* get_property, for each of the contents.
GetProperty(t) ==
  IF property[t] = Incr THEN [type |-> "INCR", data |-> <<>>]
  ELSE [type |-> "done", data |-> property[t]]

\* The clipboard is taken, if nobody has done so since the request.
Converted(events) ==
  LET got == {t \in DOMAIN contents : property[t] # <<>>}
      new == [t \in got |-> GetProperty(t)]
      whole == \A t \in got : new[t].type # "INCR"
  IN /\ contents' = new /\ property' = [t \in Targets |-> <<>>] /\ Deleted(got)
     /\ IF changed <= time THEN owner' = Manager /\ changed' = time /\ kept' = kept
        ELSE UNCHANGED <<owner, changed>> /\ kept' = TRUE
     /\ IF whole THEN SendSelectionNotify(TRUE) /\ requestor' = None
        ELSE UNCHANGED <<answer, requestor>>
     /\ wire' = events /\ UNCHANGED <<time, asked, mixed>>

\* What was asked for is kept although it does not come.
Refused(events) ==
  /\ SendSelectionNotify(FALSE) /\ requestor' = None /\ wire' = events
  /\ kept' = (kept \/ contents # Nothing)
  /\ UNCHANGED <<deletions, property, owner, changed, time, contents, asked, mixed>>

\* A bug: pieces are taken for the end when there is one of them.
EndsEarly(t) == Len(property[t]) < 2
Ends(t) == property[t] = <<>>

\* The property is read as it is now; empty, it is the end.
ReceiveIncrementally(t, events) ==
  /\ wire' = events
  /\ IF t \notin DOMAIN contents \/ contents[t].type # "INCR"
     THEN UNCHANGED <<contents, property, deletions, answer, requestor>>
     ELSE /\ property' = [property EXCEPT ![t] = <<>>] /\ Deleted({t})
          /\ IF Ends(t)
             THEN /\ contents' = [contents EXCEPT ![t].type = "done"]
                  /\ IF \A u \in Targets : contents'[u].type # "INCR"
                     THEN SendSelectionNotify(TRUE) /\ requestor' = None
                     ELSE UNCHANGED <<answer, requestor>>
             ELSE /\ contents' = [contents EXCEPT ![t].data =
                                    @ \o SelectSeq(property[t], LAMBDA p : p # "incr")]
                  /\ UNCHANGED <<answer, requestor>>
  /\ UNCHANGED <<owner, changed, time, asked, kept, mixed>>

Forget(events) ==
  /\ contents' = Nothing /\ requestor' = None /\ wire' = events
  /\ UNCHANGED <<deletions, property, owner, changed, time, asked, answer, kept, mixed>>

SaveProcessEvent ==
  /\ wire # <<>>
  /\ LET e == Head(wire)
         events == Tail(wire)
     IN \/ e.type = "save" /\ ConvertClipboardManager(e, events)
        \/ /\ e.type = "notify" /\ e.property = "TARGETS" /\ SaveTargets(events)
           /\ kept' = (kept \/ requestor = None)
           /\ UNCHANGED <<deletions, property, owner, changed, requestor, time, answer>>
        \/ e.type = "notify" /\ e.property = "MULTIPLE" /\ Converted(events)
        \/ e.type = "notify" /\ e.property = None /\ Refused(events)
        \/ e.type = "property" /\ ReceiveIncrementally(e.target, events)
        \/ e.type = "clear" /\ Forget(events)
        \/ e.type = "destroy" /\ requestor = e.app /\ Forget(events)
        \/ /\ e.type = "destroy" /\ requestor # e.app /\ wire' = events
           /\ UNCHANGED <<deletions, property, owner, changed, answer, asked, kept,
                          mixed>>
           /\ UNCHANGED plugin
  /\ UNCHANGED <<alive, sending, takes>>

SaveNext ==
  \/ \E a \in Apps : Take(a) \/ Save(a) \/ Convert(a) \/ Exit(a)
  \/ \E a \in Apps, t \in Targets : SendPiece(a, t)
  \/ SaveProcessEvent

SaveSpec == SaveInit /\ [][SaveNext]_saveVars

SaveTypeOK ==
  /\ alive \subseteq Apps /\ {owner, requestor} \subseteq Apps \cup {None, Manager}
  /\ changed \in 0..MaxTakes /\ time \in 0..MaxTakes /\ takes \in 0..MaxTakes
  /\ DOMAIN contents \subseteq Targets /\ {kept, mixed} \subseteq BOOLEAN
  /\ answer \in [Apps -> {None, "asked", "yes", "no"}]

\* What the plugin has in the clipboard once an application was told so is all of
\* one application's - unless one was asked for it before another had
\* answered, whose data are taken together (clipboard_manager_process_event).
SavedWhole ==
  owner = Manager /\ ~mixed =>
    \A t \in DOMAIN contents :
      contents[t].type = "done" =>
        \E a \in Apps : contents[t].data =
            [i \in 1..(IF t \in Big THEN Pieces ELSE 1) |-> a]

\* A request that is alone is not refused, and nobody waits for an answer to a
\* request that is not being served: as long as no contents were kept of one that
\* failed, after which all requests are refused (convert_clipboard_manager).
RequestsServed ==
  ~kept /\ wire = <<>> /\ contents # Nothing /\ requestor = None => owner = Manager

-----------------------------------------------------------------------------
(* What the clipboard plugin has saved is pasted: at once, or in pieces that *)
(* are sent whenever the requestor has deleted the last one.  The data may  *)
(* have been replaced by then, so that they are counted.                    *)
CONSTANTS
  Windows,            \* of applications that paste
  PasteTargets, PasteBig,       \* what is saved, and what of it is sent in pieces
  MaxSaves            \* bounds how often the clipboard is saved

VARIABLES
  servingContents,           \* priv->contents: what was saved last, 0 if nothing
  partial,            \* targets of it of type INCR, yet to be received
  saves,
  conversions,        \* priv->conversions
  refs,               \* the reference counts of what was saved
  running,            \* the plugin has a window
  servingEvents,             \* on their way to the plugin
  servingProperty,           \* the properties of windows
  wants,              \* what each window waits for
  refused,            \* what it was told not to wait for
  serveGot                 \* the pieces it has read

manager == <<servingContents, partial, saves, conversions, refs, running>>
requestors == <<wants, refused, serveGot>>
serveVars == <<servingContents, partial, saves, conversions, refs, running,
               servingEvents, servingProperty, wants, refused, serveGot>>

Saves == 1..MaxSaves
Absent == [kind |-> "none", data |-> <<>>]
Exists(w, t) == servingProperty[w][t].kind # "none"
Length(t) == IF t \in PasteBig THEN Pieces ELSE 1

ServeInit ==
  /\ servingContents = 0 /\ partial = {} /\ saves = 0 /\ conversions = <<>>
  /\ running = TRUE
  /\ refs = [s \in Saves |-> [t \in PasteTargets |-> 0]] /\ servingEvents = <<>>
  /\ servingProperty = [w \in Windows |-> [t \in PasteTargets |-> Absent]]
  /\ wants = [w \in Windows |-> {}] /\ refused = [w \in Windows |-> {}]
  /\ serveGot = [w \in Windows |-> [t \in PasteTargets |-> <<>>]]

-----------------------------------------------------------------------------
(* Applications                                                            *)

\* One target, or several with MULTIPLE; not while it waits for what it has asked.
Request(w, T) ==
  /\ running /\ wants[w] = {} /\ T # {}
  /\ wants' = [wants EXCEPT ![w] = T] /\ refused' = [refused EXCEPT ![w] = {}]
  /\ serveGot' = [serveGot EXCEPT ![w] = [t \in PasteTargets |-> <<>>]]
  /\ servingEvents' = Append(servingEvents,
         [type |-> "request", window |-> w, targets |-> T])
  /\ UNCHANGED servingProperty /\ UNCHANGED manager

\* A property is read and deleted: it tells that pieces come, or it is a piece
\* of them, or all there is; an empty one ends the pieces.
Read(w, t) ==
  /\ t \in wants[w] /\ Exists(w, t)
  /\ serveGot' = [serveGot EXCEPT ![w][t] = @ \o servingProperty[w][t].data]
  /\ wants' = IF servingProperty[w][t].kind = "whole" \/
                 (servingProperty[w][t].kind = "piece" /\ servingProperty[w][t].data = <<>>)
              THEN [wants EXCEPT ![w] = @ \ {t}] ELSE wants
  /\ servingProperty' = [servingProperty EXCEPT ![w][t] = Absent]
  /\ servingEvents' = Append(servingEvents,
         [type |-> "deleted", window |-> w, target |-> t])
  /\ UNCHANGED refused /\ UNCHANGED manager

-----------------------------------------------------------------------------
(* The plugin                                                              *)

Unref(counts, s, T) ==
  IF s = 0 THEN counts ELSE [counts EXCEPT ![s] = [t \in PasteTargets |->
                               IF t \in T THEN @[t] - 1 ELSE @[t]]]

\* Something is saved; large data come later.
Saved ==
  /\ running /\ servingContents = 0 /\ saves < MaxSaves
  /\ saves' = saves + 1 /\ servingContents' = saves' /\ partial' \in {{}, PasteBig}
  /\ refs' = [refs EXCEPT ![saves'] = [t \in PasteTargets |-> 1]]
  /\ UNCHANGED <<conversions, running, servingEvents, servingProperty>>
  /\ UNCHANGED requestors

Received ==
  /\ partial # {} /\ partial' = {}
  /\ UNCHANGED <<servingContents, saves, conversions, refs, running, servingEvents,
                 servingProperty>>
  /\ UNCHANGED requestors

\* SelectionClear: another application has taken the clipboard.
ServeLost ==
  /\ running /\ servingContents # 0 /\ servingContents' = 0 /\ partial' = {}
  /\ refs' = Unref(refs, servingContents, PasteTargets)
  /\ UNCHANGED <<saves, conversions, running, servingEvents, servingProperty>>
  /\ UNCHANGED requestors

\* What is not complete is not given; of the rest a reference is held, for as
\* long as pieces of it are sent.
Available(T) == IF servingContents = 0 THEN {} ELSE T \ partial

\* A bug: no reference is held.
ConversionsUnheld(w, T) ==
  [counts |-> refs,
   list |-> SetToSeq({[window |-> w, target |-> t, data |-> servingContents, offset |-> 0] :
                        t \in Available(T) \cap PasteBig})]

ConversionsOf(w, T) ==
  LET held == Available(T) \cap PasteBig
  IN [counts |-> IF servingContents = 0 THEN refs
                 ELSE [refs EXCEPT ![servingContents] = [t \in PasteTargets |->
                         IF t \in held THEN @[t] + 1 ELSE @[t]]],
      list |-> SetToSeq({[window |-> w, target |-> t, data |-> servingContents,
          offset |-> 0] :
                           t \in held})]

\* A target that is not there is passed over, and the request is answered as if
\* it had been converted; one that is not complete is refused, as are others only
\* when MULTIPLE was not asked for.
ConvertClipboard(w, T) ==
  LET new == ConversionsOf(w, T)
      done == Available(T)
  IN /\ conversions' = new.list \o conversions /\ refs' = new.counts
     /\ servingProperty' = [servingProperty EXCEPT ![w] = [t \in PasteTargets |->
          IF t \notin done THEN @[t]
          ELSE IF t \in PasteBig THEN [kind |-> "incr", data |-> <<>>]
          ELSE [kind |-> "whole", data |-> <<[save |-> servingContents, piece |-> 1]>>]]]
     /\ refused' = [refused EXCEPT ![w] = T \ done]
     /\ wants' = [wants EXCEPT ![w] = done]

Sent(c) ==
  IF c.offset = Pieces THEN <<>>
  ELSE <<[save |-> IF refs[c.data][c.target] = 0 THEN 0 ELSE c.data,
      piece |-> c.offset + 1]>>

\* The newest transfer of this property goes on; it is over when nothing was sent.
SendIncrementally(w, t) ==
  LET mine == {i \in DOMAIN conversions : /\ conversions[i].window = w
                                          /\ conversions[i].target = t}
      i == CHOOSE i \in mine : \A j \in mine : i <= j
      c == conversions[i]
  IN IF mine = {} THEN UNCHANGED <<conversions, refs, servingProperty>>
     ELSE /\ servingProperty' = [servingProperty EXCEPT ![w][t] =
                            [kind |-> "piece", data |-> @.data \o Sent(c)]]
          /\ IF c.offset = Pieces
             THEN conversions' = RemoveAt(conversions, i)
                 /\ refs' = Unref(refs, c.data, {t})
             ELSE /\ conversions' = [conversions EXCEPT ![i].offset = @ + 1]
                  /\ UNCHANGED refs

ServeProcessEvent ==
  /\ servingEvents # <<>> /\ servingEvents' = Tail(servingEvents)
  /\ LET e == Head(servingEvents)
     IN \/ /\ ~running /\ UNCHANGED <<conversions, refs, servingProperty, refused, wants>>
        \/ /\ running /\ e.type = "request" /\ ConvertClipboard(e.window, e.targets)
        \/ /\ running /\ e.type = "deleted" /\ SendIncrementally(e.window, e.target)
           /\ UNCHANGED <<wants, refused>>
  /\ UNCHANGED <<servingContents, partial, saves, running, serveGot>>

\* All is given up: the pieces that are to come as well.
Stop ==
  /\ running /\ running' = FALSE
  /\ conversions' = <<>> /\ servingContents' = 0 /\ partial' = {}
  /\ refs' = [s \in Saves |-> [t \in PasteTargets |-> refs[s][t]
       - (IF servingContents = s THEN 1 ELSE 0)
       - Cardinality({i \in DOMAIN conversions : /\ conversions[i].data = s
                                                 /\ conversions[i].target = t})]]
  /\ UNCHANGED <<saves, servingEvents, servingProperty>> /\ UNCHANGED requestors

ServeNext ==
  \/ \E w \in Windows : \E T \in SUBSET PasteTargets : Request(w, T)
  \/ \E w \in Windows, t \in PasteTargets : Read(w, t)
  \/ Saved \/ Received \/ ServeLost \/ ServeProcessEvent \/ Stop

ServeSpec == ServeInit /\ [][ServeNext]_serveVars

ServeTypeOK ==
  /\ servingContents \in 0..MaxSaves /\ partial \subseteq PasteBig /\ saves \in 0..MaxSaves
  /\ refs \in [Saves -> [PasteTargets -> 0..(Cardinality(Windows) + 1)]]
  /\ running \in BOOLEAN
  /\ \A i \in DOMAIN conversions : conversions[i].offset \in 0..Pieces
  /\ \A w \in Windows : wants[w] \cup refused[w] \subseteq PasteTargets

\* What was asked for and comes to its end is whole, and all of one thing that was
\* saved, whatever has become of the clipboard in between (the comment at 100).
ServedWhole ==
  \A w \in Windows, t \in PasteTargets :
    t \notin wants[w] /\ serveGot[w][t] # <<>> =>
      \E s \in Saves : serveGot[w][t] = [i \in 1..Length(t) |-> [save |-> s, piece |-> i]]

\* Data are freed when nobody is going to be sent them, and not before.
FreedLast ==
  \A s \in Saves, t \in PasteTargets :
    refs[s][t] = Cardinality({i \in DOMAIN conversions : /\ conversions[i].data = s
                                                         /\ conversions[i].target = t})
                 + (IF servingContents = s THEN 1 ELSE 0)
=============================================================================
