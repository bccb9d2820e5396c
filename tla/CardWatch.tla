----------------------------- MODULE CardWatch -----------------------------
(***************************************************************************)
(* What the smartcard plugin promises (plugins/smartcard/): it tells which *)
(* card is in which slot.  The removal of a card is only told after its    *)
(* insertion, and what was told last becomes true of a slot that is left   *)
(* alone.  Smartcard implements this with a thread and a pipe.             *)
(***************************************************************************)
CONSTANTS Slots, Cards, NoCard

VARIABLES
  inSlot,    \* the card in each slot, or NoCard
  told,      \* the card whose insertion was told last, or NoCard
  flip,      \* changes with every signal, so that none is taken for a stutter
  watching   \* the plugin is active

vars == <<inSlot, told, flip, watching>>

Init ==
  /\ inSlot \in [Slots -> Cards \cup {NoCard}]
  /\ told = [s \in Slots |-> NoCard]
  /\ flip = FALSE /\ watching = FALSE

\* Cards come and go, and so does the plugin.
WorldChanges ==
  /\ inSlot' \in [Slots -> Cards \cup {NoCard}]
  /\ watching' \in BOOLEAN
  /\ UNCHANGED <<told, flip>>

\* "smartcard-inserted"; also when a card took the place of another.
TellInserted(s) ==
  /\ \E card \in Cards : told' = [told EXCEPT ![s] = card]
  /\ flip' = ~flip /\ UNCHANGED <<inSlot, watching>>

\* "smartcard-removed": never without an insertion before.
TellRemoved(s) ==
  /\ told[s] # NoCard /\ told' = [told EXCEPT ![s] = NoCard]
  /\ flip' = ~flip /\ UNCHANGED <<inSlot, watching>>

Next == WorldChanges \/ \E s \in Slots : TellInserted(s) \/ TellRemoved(s)

Spec == Init /\ [][Next]_vars

\* A slot that is left alone while the plugin watches is told right.
Settles ==
  \A s \in Slots, card \in Cards \cup {NoCard} :
    <>[](watching /\ inSlot[s] = card) => <>[](told[s] = card)
=============================================================================
