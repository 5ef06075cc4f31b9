---------------------------- MODULE TerminalMode ----------------------------
(***************************************************************************)
(* Terminal/TerminalMode: the set of enabled terminal modes and the batch  *)
(* notification of its changes.  A method changes m_enabledModes and notes *)
(* the change in m_pendingChanges in one critical section; then, unlocked, *)
(* it calls emitModeChanges, which takes all pending changes in a second   *)
(* critical section and emits them, unlocked again.                        *)
(*                                                                         *)
(* No signal is emitted under the lock, so a critical section is one step. *)
(***************************************************************************)
EXTENDS Naturals, FiniteSets

CONSTANTS
  Threads,   \* the threads that call the object
  Modes,     \* the values of enum Mode
  Sync,      \* SYNCHRONIZED_OUTPUT
  AutoWrap,  \* AUTO_WRAP, the only mode enabled by default
  MaxCalls   \* bound: the number of calls

ASSUME ModesAssumption ==
  /\ Sync \in Modes
  /\ AutoWrap \in Modes
  /\ Sync # AutoWrap
  /\ MaxCalls \in Nat

VARIABLES
  enabled,     \* m_enabledModes
  saved,       \* m_savedModes
  pending,     \* m_pendingChanges: "none" for a mode that is not a key
  pc,          \* what each thread does next
  arg,         \* the mode of a toggleMode() in progress, else AutoWrap
  changes,     \* the changes emitModeChanges has taken and not yet emitted
  needFlush,   \* the call will emit flushRequested at its end
  view,        \* what the slot of modeChanged was last told of each mode
  syncView,    \* what the slot of synchronizedOutputChanged was last told
  silent,      \* history: modes whose value resetAllModes changed in silence
  calls,       \* history: the number of calls so far
  overlapped   \* history: two calls have run at the same time

vars == <<enabled, saved, pending, pc, arg, changes, needFlush, view, syncView,
          silent, calls, overlapped>>

Change   == {"none", "on", "off"}
NoChange == [m \in Modes |-> "none"]
PCs == {"idle", "toggleOn", "toggleOff", "take", "deliver", "announce",
        "flushRequest"}

ChangeTo(on) == IF on THEN "on" ELSE "off"

-----------------------------------------------------------------------------
\* The constructor calls resetAllModes: AUTO_WRAP is on and its change is
\* pending, nothing is emitted.
Init ==
  /\ enabled = {AutoWrap}
  /\ saved = {}
  /\ pending = [NoChange EXCEPT ![AutoWrap] = "on"]
  /\ pc = [t \in Threads |-> "idle"]
  /\ arg = [t \in Threads |-> AutoWrap]
  /\ changes = [t \in Threads |-> NoChange]
  /\ needFlush = [t \in Threads |-> FALSE]
  /\ view = [m \in Modes |-> FALSE]
  /\ syncView = FALSE
  /\ silent = {AutoWrap}
  /\ calls = 0
  /\ overlapped = FALSE

Call(t) ==
  /\ pc[t] = "idle"
  /\ calls < MaxCalls
  /\ calls' = calls + 1
  /\ overlapped' = (overlapped \/ \E u \in Threads \ {t} : pc[u] # "idle")

Goto(t, l) == pc' = [pc EXCEPT ![t] = l]

\* The critical section of setMode and resetMode for a mode that changes.
ChangeMode(t, m, on) ==
  /\ (m \in enabled) # on
  /\ enabled' = IF on THEN enabled \cup {m} ELSE enabled \ {m}
  /\ pending' = [pending EXCEPT ![m] = ChangeTo(on)]
  /\ needFlush' = [needFlush EXCEPT ![t] = ~on /\ m = Sync]
  /\ Goto(t, "take")

\* setMode(m) (on) and resetMode(m) (off).  They return false at once when
\* the mode has that value already.
SetMode(t, m, on) ==
  /\ Call(t)
  /\ ChangeMode(t, m, on)
  /\ UNCHANGED <<saved, arg, changes, view, syncView, silent>>

\* Faulty: the two calls are swapped.
ToggleModeSwapped(t, m) ==
  /\ Call(t)
  /\ arg' = [arg EXCEPT ![t] = m]
  /\ Goto(t, IF m \in enabled THEN "toggleOn" ELSE "toggleOff")
  /\ UNCHANGED <<enabled, saved, pending, changes, needFlush, view, syncView,
                 silent>>

\* toggleMode(m): read the mode, unlock, then call setMode or resetMode ...
ToggleMode(t, m) ==
  /\ Call(t)
  /\ arg' = [arg EXCEPT ![t] = m]
  /\ Goto(t, IF m \in enabled THEN "toggleOff" ELSE "toggleOn")
  /\ UNCHANGED <<enabled, saved, pending, changes, needFlush, view, syncView,
                 silent>>

\* ... whose critical section finds what other threads made of it meanwhile.
ToggleApply(t) ==
  LET on == pc[t] = "toggleOn"
  IN
  /\ pc[t] \in {"toggleOn", "toggleOff"}
  /\ \/ ChangeMode(t, arg[t], on)
     \/ /\ (arg[t] \in enabled) = on
        /\ Goto(t, "idle")
        /\ UNCHANGED <<enabled, pending, needFlush>>
  /\ arg' = [arg EXCEPT ![t] = AutoWrap]
  /\ UNCHANGED <<saved, changes, view, syncView, silent, calls,
                 overlapped>>

\* saveModes(): one critical section.
SaveModes(t) ==
  /\ Call(t)
  /\ saved' = enabled
  /\ UNCHANGED <<enabled, pending, pc, arg, changes, needFlush, view, syncView,
                 silent>>

\* Faulty: the modes to enable and to disable are swapped.
RestoreModesSwapped(t) ==
  /\ Call(t)
  /\ saved # enabled
  /\ enabled' = saved
  /\ pending' = [m \in Modes |->
                   IF m \in saved \ enabled THEN "off"
                   ELSE IF m \in enabled \ saved THEN "on"
                   ELSE pending[m]]
  /\ needFlush' = [needFlush EXCEPT ![t] = Sync \in enabled \ saved]
  /\ Goto(t, "take")
  /\ UNCHANGED <<saved, arg, changes, view, syncView, silent>>

\* Faulty: the changes are emitted only when synchronized output ends.
RestoreModesSyncOnly(t) ==
  /\ Call(t)
  /\ saved # enabled
  /\ enabled' = saved
  /\ pending' = [m \in Modes |->
                   IF m \in saved \ enabled THEN "on"
                   ELSE IF m \in enabled \ saved THEN "off"
                   ELSE pending[m]]
  /\ needFlush' = [needFlush EXCEPT ![t] = Sync \in enabled \ saved]
  /\ Goto(t, IF Sync \in enabled \ saved THEN "take" ELSE "idle")
  /\ UNCHANGED <<saved, arg, changes, view, syncView, silent>>

\* restoreModes() up to the unlock; nothing happens when the sets are equal.
RestoreModes(t) ==
  /\ Call(t)
  /\ saved # enabled
  /\ enabled' = saved
  /\ pending' = [m \in Modes |->
                   IF m \in saved \ enabled THEN "on"
                   ELSE IF m \in enabled \ saved THEN "off"
                   ELSE pending[m]]
  /\ needFlush' = [needFlush EXCEPT ![t] = Sync \in enabled \ saved]
  /\ Goto(t, "take")
  /\ UNCHANGED <<saved, arg, changes, view, syncView, silent>>

\* resetAllModes() up to the unlock: it drops the pending changes, leaves
\* AUTO_WRAP's pending, and emits at most flushRequested.
ResetAllModes(t) ==
  /\ Call(t)
  /\ enabled' = {AutoWrap}
  /\ pending' = [NoChange EXCEPT ![AutoWrap] = "on"]
  /\ Goto(t, IF Sync \in enabled THEN "flushRequest" ELSE "idle")
  /\ silent' = silent \cup {m \in Modes : \/ (m \in enabled) # (m = AutoWrap)
                                          \/ pending[m] # "none"}
  /\ UNCHANGED <<saved, arg, changes, needFlush, view, syncView>>

\* emitModeChanges: take all pending changes in one critical section ...
TakeChanges(t) ==
  /\ pc[t] = "take"
  /\ changes' = [changes EXCEPT ![t] = pending]
  /\ pending' = NoChange
  /\ Goto(t, "deliver")
  /\ UNCHANGED <<enabled, saved, arg, needFlush, view, syncView, silent,
                 calls, overlapped>>

\* ... and emit modeChanged for each of them, in the order of the QHash, which
\* is any order.  A change of SYNCHRONIZED_OUTPUT has a second signal.
Deliver(t, m) ==
  /\ pc[t] = "deliver"
  /\ changes[t][m] # "none"
  /\ view' = [view EXCEPT ![m] = (changes[t][m] = "on")]
  /\ IF m = Sync
     THEN Goto(t, "announce") /\ UNCHANGED <<changes, silent>>
     ELSE /\ changes' = [changes EXCEPT ![t][m] = "none"]
          /\ silent' = silent \ {m}
          /\ UNCHANGED pc
  /\ UNCHANGED <<enabled, saved, pending, arg, needFlush, syncView, calls,
                 overlapped>>

\* emit synchronizedOutputChanged.
Announce(t) ==
  /\ pc[t] = "announce"
  /\ syncView' = (changes[t][Sync] = "on")
  /\ changes' = [changes EXCEPT ![t][Sync] = "none"]
  /\ silent' = silent \ {Sync}
  /\ Goto(t, "deliver")
  /\ UNCHANGED <<enabled, saved, pending, arg, needFlush, view, calls,
                 overlapped>>

\* Faulty: the loop may stop before the last change.
DeliveredEarly(t) ==
  /\ pc[t] = "deliver"
  /\ changes[t][Sync] = "none"
  /\ changes' = [changes EXCEPT ![t] = NoChange]
  /\ Goto(t, IF needFlush[t] THEN "flushRequest" ELSE "idle")
  /\ UNCHANGED <<enabled, saved, pending, arg, needFlush, view, syncView,
                 silent, calls, overlapped>>

\* Faulty: the call waits until nobody has anything pending.
DeliveredWhenDrained(t) ==
  /\ pc[t] = "deliver"
  /\ changes[t] = NoChange
  /\ pending = NoChange
  /\ Goto(t, IF needFlush[t] THEN "flushRequest" ELSE "idle")
  /\ UNCHANGED <<enabled, saved, pending, arg, changes, needFlush, view,
                 syncView, silent, calls, overlapped>>

\* The loop is over: emit flushRequested if the call owes it, and return.
Delivered(t) ==
  /\ pc[t] = "deliver"
  /\ changes[t] = NoChange
  /\ Goto(t, IF needFlush[t] THEN "flushRequest" ELSE "idle")
  /\ UNCHANGED <<enabled, saved, pending, arg, changes, needFlush, view,
                 syncView, silent, calls, overlapped>>

\* emit flushRequested; nothing in the repository is connected to it.
FlushRequest(t) ==
  /\ pc[t] = "flushRequest"
  /\ Goto(t, "idle")
  /\ needFlush' = [needFlush EXCEPT ![t] = FALSE]
  /\ UNCHANGED <<enabled, saved, pending, arg, changes, view, syncView, silent,
                 calls, overlapped>>

Continue(t) ==
  \/ ToggleApply(t) \/ TakeChanges(t) \/ Announce(t) \/ Delivered(t)
  \/ FlushRequest(t)
  \/ \E m \in Modes : Deliver(t, m)

Next ==
  \E t \in Threads :
    \/ \E m \in Modes : ToggleMode(t, m) \/ \E on \in BOOLEAN : SetMode(t, m, on)
    \/ SaveModes(t) \/ RestoreModes(t) \/ ResetAllModes(t)
    \/ Continue(t)

Spec == Init /\ [][Next]_vars

\* Fairness: a thread inside a call is scheduled again and again.
FairSpec == Spec /\ \A t \in Threads : WF_vars(Continue(t))

-----------------------------------------------------------------------------
TypeOK ==
  /\ enabled \subseteq Modes
  /\ saved \subseteq Modes
  /\ pending \in [Modes -> Change]
  /\ pc \in [Threads -> PCs]
  /\ arg \in [Threads -> Modes]
  /\ changes \in [Threads -> [Modes -> Change]]
  /\ needFlush \in [Threads -> BOOLEAN]
  /\ view \in [Modes -> BOOLEAN]
  /\ syncView \in BOOLEAN
  /\ silent \subseteq Modes
  /\ calls \in Nat
  /\ overlapped \in BOOLEAN

\* A pending change names the value the mode has now, whatever set, reset,
\* toggle, restore and reset-all calls interleaved: later calls overwrite the
\* entry, so a batch taken now is never out of date when it is taken.
PendingIsCurrent ==
  \A m \in Modes : pending[m] # "none" => pending[m] = ChangeTo(m \in enabled)

\* No change is forgotten in m_pendingChanges: some thread is about to take
\* it.  AUTO_WRAP is the exception: resetAllModes leaves its entry behind.
NoChangeForgotten ==
  \A m \in Modes \ {AutoWrap} :
    pending[m] # "none" => \E t \in Threads : pc[t] = "take"

\* While calls do not overlap, a slot that was told of every change and was
\* not bypassed by resetAllModes knows each mode when no call is running, and
\* the slots of modeChanged and of synchronizedOutputChanged were told the
\* same.  A call that disables SYNCHRONIZED_OUTPUT (not through resetAllModes)
\* emits flushRequested only after every slot was told: the renderer is not
\* asked to flush while its gate is still closed.
Quiet == \A t \in Threads : pc[t] = "idle"
SerialViewAgrees ==
  ~overlapped =>
    /\ Quiet => /\ \A m \in Modes \ silent : view[m] = (m \in enabled)
                /\ syncView = view[Sync]
    /\ \A t \in Threads :
         pc[t] = "flushRequest" /\ needFlush[t] => ~view[Sync] /\ ~syncView

\* toggleMode reads the mode in one critical section and changes it in another.
\* After the second the mode has the value toggleMode chose, whoever changed it
\* in between; when no other call overlapped it, that is the other value.
ToggleTakesEffect ==
  [][\A t \in Threads :
       pc[t] \in {"toggleOn", "toggleOff"} /\ pc'[t] # pc[t] =>
         /\ arg[t] \in enabled' <=> pc[t] = "toggleOn"
         /\ ~overlapped => (arg[t] \in enabled' <=> arg[t] \notin enabled)]_vars

\* Every change is taken and every call returns, although several threads
\* take each other's changes.
EveryCallReturns == \A t \in Threads : (pc[t] # "idle") ~> (pc[t] = "idle")
=============================================================================
