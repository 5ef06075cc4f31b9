----------------------------- MODULE OutputGate -----------------------------
(***************************************************************************)
(* What SynchronizedBuffer promises to the renderer, without threads, locks *)
(* or sizes.  Items are numbered in the order in which write() took them.   *)
(* An accepted item is held back or sent off alone; what is held back is    *)
(* sent off as one batch; a batch appears on the screen in one piece and in *)
(* its order.  An item can be refused when it is written, or dropped while  *)
(* it is held back, and otherwise never gets lost.                          *)
(***************************************************************************)
EXTENDS Integers, Sequences

VARIABLES
  held,     \* items held back, in order
  batches,  \* batches on their way to the screen
  shown,    \* the screen: items in the order of their appearance
  dropped,  \* items thrown away by clear()
  refused,  \* items for which write() returned false
  next      \* number of the next item

gateVars == <<held, batches, shown, dropped, refused, next>>

Elements(s) == {s[i] : i \in DOMAIN s}

Init ==
  /\ held = <<>>
  /\ batches = {}
  /\ shown = <<>>
  /\ dropped = {}
  /\ refused = {}
  /\ next = 1

Hold ==
  /\ held' = held \o <<next>>
  /\ next' = next + 1
  /\ UNCHANGED <<batches, shown, dropped, refused>>

Pass ==
  /\ batches' = batches \cup {<<next>>}
  /\ next' = next + 1
  /\ UNCHANGED <<held, shown, dropped, refused>>

Refuse ==
  /\ refused' = refused \cup {next}
  /\ next' = next + 1
  /\ UNCHANGED <<held, batches, shown, dropped>>

Release ==
  /\ held # <<>>
  /\ batches' = batches \cup {held}
  /\ held' = <<>>
  /\ UNCHANGED <<shown, dropped, refused, next>>

Show(batch) ==
  /\ shown' = shown \o batch
  /\ batches' = batches \ {batch}
  /\ UNCHANGED <<held, dropped, refused, next>>

Drop ==
  /\ dropped' = dropped \cup Elements(held)
  /\ held' = <<>>
  /\ UNCHANGED <<batches, shown, refused, next>>

Next ==
  Hold \/ Pass \/ Refuse \/ Release \/ Drop \/ \E batch \in batches : Show(batch)

Spec == Init /\ [][Next]_gateVars
=============================================================================
