------------------------- MODULE TerminalModeProofs -------------------------
(***************************************************************************)
(* TerminalMode for any set of threads and of modes: type correctness, and *)
(* the two facts that make the batch notification trustworthy: a pending   *)
(* change names the present value, and none is forgotten.                  *)
(***************************************************************************)
EXTENDS TerminalMode, TLAPS

\* No change at all, and the one pending after resetAllModes, are changes.
LEMMA NoChangeType ==
  /\ NoChange \in [Modes -> Change]
  /\ [NoChange EXCEPT ![AutoWrap] = "on"] \in [Modes -> Change]
  BY ModesAssumption DEF NoChange, Change

LEMMA InitTypeOK == Init => TypeOK
<1> SUFFICES ASSUME Init
             PROVE  TypeOK
  OBVIOUS
<1>1. /\ enabled \subseteq Modes /\ saved \subseteq Modes
      /\ silent \subseteq Modes /\ calls \in Nat
      /\ overlapped \in BOOLEAN /\ syncView \in BOOLEAN
  BY ModesAssumption DEF Init
<1>2. pending \in [Modes -> Change] /\ changes \in [Threads -> [Modes -> Change]]
  BY NoChangeType DEF Init
<1>3. /\ pc \in [Threads -> PCs]
      /\ arg \in [Threads -> Modes]
      /\ needFlush \in [Threads -> BOOLEAN]
      /\ view \in [Modes -> BOOLEAN]
  BY ModesAssumption DEF Init, PCs
<1> QED
  BY <1>1, <1>2, <1>3 DEF TypeOK

LEMMA ChangeModeType ==
  ASSUME TypeOK, NEW t \in Threads, NEW m \in Modes, NEW on \in BOOLEAN,
         ChangeMode(t, m, on)
  PROVE  /\ (enabled \subseteq Modes)'
         /\ (pending \in [Modes -> Change])'
         /\ (needFlush \in [Threads -> BOOLEAN])'
         /\ (pc \in [Threads -> PCs])'
  BY DEF TypeOK, ChangeMode, ChangeTo, Change, PCs, Goto

LEMMA NextTypeOK == TypeOK /\ [Next]_vars => TypeOK'
<1> SUFFICES ASSUME TypeOK, [Next]_vars
             PROVE  TypeOK'
  OBVIOUS
<1> USE ModesAssumption DEF TypeOK, Goto, Change, NoChange, PCs
<1>1. ASSUME NEW t \in Threads, NEW m \in Modes, NEW on \in BOOLEAN,
             SetMode(t, m, on)
      PROVE  TypeOK'
  BY <1>1, ChangeModeType DEF SetMode, Call
<1>2. ASSUME NEW t \in Threads, NEW m \in Modes, ToggleMode(t, m)
      PROVE  TypeOK'
  BY <1>2 DEF ToggleMode, Call
<1>3. ASSUME NEW t \in Threads, ToggleApply(t)
      PROVE  TypeOK'
  <2> DEFINE on == pc[t] = "toggleOn"
  <2>1. on \in BOOLEAN /\ arg[t] \in Modes
    OBVIOUS
  <2>2. CASE ChangeMode(t, arg[t], on)
    BY <1>3, <2>1, <2>2, ChangeModeType DEF ToggleApply
  <2>3. CASE Goto(t, "idle") /\ UNCHANGED <<enabled, pending, needFlush>>
    BY <1>3, <2>3 DEF ToggleApply
  <2> QED
    BY <1>3, <2>2, <2>3 DEF ToggleApply
<1>4. ASSUME NEW t \in Threads, SaveModes(t)
      PROVE  TypeOK'
  BY <1>4 DEF SaveModes, Call
<1>5. ASSUME NEW t \in Threads, RestoreModes(t)
      PROVE  TypeOK'
  BY <1>5 DEF RestoreModes, Call
<1>6. ASSUME NEW t \in Threads, ResetAllModes(t)
      PROVE  TypeOK'
  <2>1. pending' \in [Modes -> Change]
    BY <1>6, NoChangeType DEF ResetAllModes
  <2>2. silent' \subseteq Modes
    BY <1>6 DEF ResetAllModes
  <2> QED
    BY <1>6, <2>1, <2>2 DEF ResetAllModes, Call
<1>7. ASSUME NEW t \in Threads, TakeChanges(t)
      PROVE  TypeOK'
  BY <1>7 DEF TakeChanges
<1>8. ASSUME NEW t \in Threads, NEW m \in Modes, Deliver(t, m)
      PROVE  TypeOK'
  <2>1. view' \in [Modes -> BOOLEAN] /\ silent' \subseteq Modes
    BY <1>8 DEF Deliver
  <2>2. changes' \in [Threads -> [Modes -> Change]]
    <3>1. [changes[t] EXCEPT ![m] = "none"] \in [Modes -> Change]
      OBVIOUS
    <3>2. \/ changes' = changes
          \/ changes' = [changes EXCEPT ![t] = [changes[t] EXCEPT ![m] = "none"]]
      BY <1>8 DEF Deliver
    <3> QED
      BY <3>1, <3>2
  <2>3. pc' \in [Threads -> PCs]
    BY <1>8 DEF Deliver
  <2> QED
    BY <1>8, <2>1, <2>2, <2>3 DEF Deliver
<1>9. ASSUME NEW t \in Threads, Announce(t)
      PROVE  TypeOK'
  BY <1>9 DEF Announce
<1>10. ASSUME NEW t \in Threads, Delivered(t)
       PROVE  TypeOK'
  BY <1>10 DEF Delivered
<1>11. ASSUME NEW t \in Threads, FlushRequest(t)
       PROVE  TypeOK'
  BY <1>11 DEF FlushRequest
<1>12. CASE UNCHANGED vars
  BY <1>12 DEF vars
<1> QED
  BY <1>1, <1>2, <1>3, <1>4, <1>5, <1>6, <1>7, <1>8, <1>9, <1>10, <1>11,
     <1>12 DEF Next, Continue

\* The variables keep their types, for any threads and any modes.
THEOREM TypeCorrect == Spec => []TypeOK
  BY InitTypeOK, NextTypeOK, PTL DEF Spec

-----------------------------------------------------------------------------
(* Pending changes.                                                        *)

LEMMA InitPendingIsCurrent == Init => PendingIsCurrent
  BY ModesAssumption DEF Init, PendingIsCurrent, NoChange, ChangeTo

LEMMA ChangeModePending ==
  ASSUME TypeOK, PendingIsCurrent, NEW t \in Threads, NEW m \in Modes,
         NEW on \in BOOLEAN, ChangeMode(t, m, on)
  PROVE  PendingIsCurrent'
<1> SUFFICES ASSUME NEW k \in Modes, pending'[k] # "none"
             PROVE  pending'[k] = ChangeTo(k \in enabled')
  BY DEF PendingIsCurrent
<1>1. CASE k = m
  BY <1>1 DEF TypeOK, ChangeMode, ChangeTo
<1>2. CASE k # m
  <2>1. pending'[k] = pending[k] /\ (k \in enabled' <=> k \in enabled)
    BY <1>2 DEF TypeOK, ChangeMode
  <2> QED
    BY <2>1 DEF PendingIsCurrent, ChangeTo
<1> QED
  BY <1>1, <1>2

LEMMA NextPendingIsCurrent ==
  TypeOK /\ PendingIsCurrent /\ [Next]_vars => PendingIsCurrent'
<1> SUFFICES ASSUME TypeOK, PendingIsCurrent, [Next]_vars
             PROVE  PendingIsCurrent'
  OBVIOUS
<1>1. ASSUME NEW t \in Threads, NEW m \in Modes, NEW on \in BOOLEAN,
             SetMode(t, m, on)
      PROVE  PendingIsCurrent'
  BY <1>1, ChangeModePending DEF SetMode
<1>2. ASSUME NEW t \in Threads, ToggleApply(t)
      PROVE  PendingIsCurrent'
  <2>1. (pc[t] = "toggleOn") \in BOOLEAN /\ arg[t] \in Modes
    BY DEF TypeOK
  <2>2. CASE ChangeMode(t, arg[t], pc[t] = "toggleOn")
    BY <2>1, <2>2, ChangeModePending
  <2>3. CASE UNCHANGED <<enabled, pending>>
    BY <2>3 DEF PendingIsCurrent
  <2> QED
    BY <1>2, <2>2, <2>3 DEF ToggleApply
<1>3. ASSUME NEW t \in Threads, RestoreModes(t)
      PROVE  PendingIsCurrent'
  BY <1>3 DEF RestoreModes, PendingIsCurrent, ChangeTo
<1>4. ASSUME NEW t \in Threads, ResetAllModes(t)
      PROVE  PendingIsCurrent'
  BY <1>4, ModesAssumption DEF ResetAllModes, PendingIsCurrent, ChangeTo,
     NoChange
<1>5. ASSUME NEW t \in Threads, TakeChanges(t)
      PROVE  PendingIsCurrent'
  BY <1>5 DEF TakeChanges, PendingIsCurrent, NoChange
<1>6. CASE UNCHANGED <<enabled, pending>>
  BY <1>6 DEF PendingIsCurrent
<1> QED
  BY <1>1, <1>2, <1>3, <1>4, <1>5, <1>6 DEF Next, Continue, vars, ToggleMode,
     SaveModes, Deliver, Announce, Delivered, FlushRequest

\* Whatever calls interleave, a pending change names the value of its mode.
THEOREM PendingChangesAreCurrent == Spec => []PendingIsCurrent
  BY InitPendingIsCurrent, NextPendingIsCurrent, TypeCorrect, PTL DEF Spec

-----------------------------------------------------------------------------
LEMMA NextNoChangeForgotten ==
  TypeOK /\ NoChangeForgotten /\ [Next]_vars => NoChangeForgotten'
<1> SUFFICES ASSUME TypeOK, NoChangeForgotten, [Next]_vars
             PROVE  NoChangeForgotten'
  OBVIOUS
<1>1. ASSUME NEW t \in Threads, Goto(t, "take")
      PROVE  NoChangeForgotten'
  BY <1>1 DEF TypeOK, Goto, NoChangeForgotten
<1>2. ASSUME NEW t \in Threads, NEW l \in PCs, Goto(t, l), pc[t] # "take",
             UNCHANGED pending
      PROVE  NoChangeForgotten'
  BY <1>2 DEF TypeOK, Goto, NoChangeForgotten
<1>3. ASSUME \A m \in Modes \ {AutoWrap} : pending'[m] = "none"
      PROVE  NoChangeForgotten'
  BY <1>3 DEF NoChangeForgotten
<1>4. CASE UNCHANGED <<pc, pending>>
  BY <1>4 DEF NoChangeForgotten
<1>5. ASSUME NEW t \in Threads, NEW m \in Modes, NEW on \in BOOLEAN,
             SetMode(t, m, on)
      PROVE  NoChangeForgotten'
  BY <1>1, <1>5 DEF SetMode, ChangeMode
<1>6. ASSUME NEW t \in Threads, NEW m \in Modes, ToggleMode(t, m)
      PROVE  NoChangeForgotten'
  BY <1>2, <1>6 DEF ToggleMode, Call, PCs
<1>7. ASSUME NEW t \in Threads, ToggleApply(t)
      PROVE  NoChangeForgotten'
  BY <1>1, <1>2, <1>7 DEF ToggleApply, ChangeMode, PCs
<1>8. ASSUME NEW t \in Threads, RestoreModes(t)
      PROVE  NoChangeForgotten'
  BY <1>1, <1>8 DEF RestoreModes
<1>9. ASSUME NEW t \in Threads, ResetAllModes(t) \/ TakeChanges(t)
      PROVE  NoChangeForgotten'
  BY <1>3, <1>9, ModesAssumption DEF ResetAllModes, TakeChanges, NoChange
<1>10. ASSUME NEW t \in Threads, NEW m \in Modes, Deliver(t, m)
       PROVE  NoChangeForgotten'
  BY <1>2, <1>4, <1>10 DEF Deliver, PCs
<1>11. ASSUME NEW t \in Threads, Announce(t) \/ Delivered(t) \/ FlushRequest(t)
       PROVE  NoChangeForgotten'
  BY <1>2, <1>11 DEF Announce, Delivered, FlushRequest, PCs
<1> QED
  BY <1>4, <1>5, <1>6, <1>7, <1>8, <1>9, <1>10, <1>11
     DEF Next, Continue, vars, SaveModes

\* Every change but AUTO_WRAP's reset has a thread that is about to emit it.
THEOREM NoChangeIsForgotten == Spec => []NoChangeForgotten
<1>1. Init => NoChangeForgotten
  BY ModesAssumption DEF Init, NoChangeForgotten, NoChange
<1> QED
  BY <1>1, NextNoChangeForgotten, TypeCorrect, PTL DEF Spec

-----------------------------------------------------------------------------
(* Calls that do not overlap.                                              *)

OneAtATime ==
  \A t, u \in Threads : pc[t] # "idle" /\ pc[u] # "idle" => t = u

\* A change is taken by the one thread that emits it, and names the value the
\* mode still has.
TakenIsCurrent ==
  \A t \in Threads, m \in Modes :
    changes[t][m] # "none" =>
      /\ pc[t] \in {"deliver", "announce"}
      /\ changes[t][m] = ChangeTo(m \in enabled)

\* A mode the slot has the wrong value of is on its way to the slot.
WrongOnlyInFlight ==
  \A m \in Modes \ silent :
    \/ view[m] <=> m \in enabled
    \/ pending[m] # "none" /\ \E t \in Threads : pc[t] = "take"
    \/ \E t \in Threads : changes[t][m] # "none"

\* The second signal of SYNCHRONIZED_OUTPUT follows the first.
AnnounceFollows ==
  /\ \A t \in Threads : pc[t] = "announce" =>
       changes[t][Sync] # "none" /\ (view[Sync] <=> changes[t][Sync] = "on")
  /\ (syncView <=> view[Sync]) \/ \E t \in Threads : pc[t] = "announce"

\* A call that owes flushRequested switched SYNCHRONIZED_OUTPUT off, and the
\* slot knows it or will be told.
FlushIsOwed ==
  \A t \in Threads : needFlush[t] =>
    /\ pc[t] \in {"take", "deliver", "announce", "flushRequest"}
    /\ Sync \notin enabled
    /\ pc[t] = "take" => pending[Sync] # "none"
    /\ pc[t] = "deliver" => changes[t][Sync] # "none" \/ ~view[Sync]
    /\ pc[t] = "flushRequest" => ~view[Sync]

SerialFacts ==
  /\ OneAtATime
  /\ TakenIsCurrent
  /\ WrongOnlyInFlight
  /\ AnnounceFollows
  /\ FlushIsOwed

SerialInv == ~overlapped => SerialFacts


\* Nobody but t is inside a call, and t has nothing to emit yet.
Fresh(t) ==
  /\ \A u \in Threads : u # t => pc[u] = "idle"
  /\ \A u \in Threads, m \in Modes : changes[u][m] = "none"
  /\ \A m \in Modes \ silent : view[m] <=> m \in enabled
  /\ syncView <=> view[Sync]
  /\ \A u \in Threads : ~needFlush[u]

LEMMA AloneIsFresh ==
  ASSUME TypeOK, SerialFacts, NEW t \in Threads,
         pc[t] \in {"idle", "toggleOn", "toggleOff"},
         \A u \in Threads : u # t => pc[u] = "idle"
  PROVE  Fresh(t)
<1>1. \A u \in Threads : pc[u] \in {"idle", "toggleOn", "toggleOff"}
  OBVIOUS
<1>2. \A u \in Threads, m \in Modes : changes[u][m] = "none"
  BY <1>1 DEF SerialFacts, TakenIsCurrent
<1>3. \A m \in Modes \ silent : view[m] <=> m \in enabled
  BY <1>1, <1>2 DEF SerialFacts, WrongOnlyInFlight
<1>4. syncView <=> view[Sync]
  BY <1>1 DEF SerialFacts, AnnounceFollows
<1>5. \A u \in Threads : ~needFlush[u]
  BY <1>1 DEF SerialFacts, FlushIsOwed
<1> QED
  BY <1>2, <1>3, <1>4, <1>5 DEF Fresh

\* A call that does not overlap finds everybody idle.
LEMMA CallIsFresh ==
  ASSUME TypeOK, SerialInv, NEW t \in Threads, Call(t), ~overlapped'
  PROVE  ~overlapped /\ SerialFacts /\ Fresh(t) /\ pc[t] = "idle"
<1>1. /\ ~overlapped /\ pc[t] = "idle"
      /\ \A u \in Threads : u # t => pc[u] = "idle"
  BY DEF Call
<1>2. SerialFacts
  BY <1>1 DEF SerialInv
<1> QED
  BY <1>1, <1>2, AloneIsFresh

\* The critical section that changes modes: what it changes is pending.
LEMMA ChangeSerial ==
  ASSUME TypeOK, TypeOK', NEW t \in Threads, Fresh(t), Goto(t, "take"),
         \A m \in Modes : \/ m \in enabled' <=> m \in enabled
                          \/ pending'[m] # "none",
         NEW x \in BOOLEAN, needFlush' = [needFlush EXCEPT ![t] = x],
         x => Sync \notin enabled' /\ pending'[Sync] # "none",
         UNCHANGED <<changes, view, syncView, silent>>
  PROVE  SerialFacts'
<1>1. /\ pc'[t] = "take" /\ \A u \in Threads : u # t => pc'[u] = "idle"
  BY DEF TypeOK, Goto, Fresh
<1>2. /\ changes' = changes /\ view' = view /\ syncView' = syncView
      /\ silent' = silent
  OBVIOUS
<1>3. OneAtATime'
  BY <1>1 DEF OneAtATime
<1>4. TakenIsCurrent'
  BY <1>2 DEF TakenIsCurrent, Fresh
<1>5. WrongOnlyInFlight'
  BY <1>1, <1>2 DEF WrongOnlyInFlight, Fresh
<1>6. AnnounceFollows'
  BY <1>1, <1>2 DEF AnnounceFollows, Fresh
<1>7. FlushIsOwed'
  <2> SUFFICES ASSUME NEW u \in Threads, needFlush'[u]
               PROVE  /\ pc'[u] = "take" /\ Sync \notin enabled'
                      /\ pending'[Sync] # "none"
    BY DEF FlushIsOwed
  <2>1. u = t
    BY DEF TypeOK, Fresh
  <2>2. x
    BY <2>1 DEF TypeOK
  <2> QED
    BY <1>1, <2>1, <2>2
<1> QED
  BY <1>3, <1>4, <1>5, <1>6, <1>7 DEF SerialFacts

\* Steps that move a fresh call on without a change of modes.
LEMMA FreshSerial ==
  ASSUME TypeOK, NEW t \in Threads, Fresh(t),
         NEW l \in {"idle", "toggleOn", "toggleOff", "flushRequest"},
         pc' = [pc EXCEPT ![t] = l],
         \A m \in Modes \ silent' : /\ m \notin silent
                                    /\ m \in enabled' <=> m \in enabled,
         UNCHANGED <<changes, view, syncView, needFlush>>
  PROVE  SerialFacts'
<1>1. /\ pc'[t] = l /\ \A u \in Threads : u # t => pc'[u] = "idle"
  BY DEF TypeOK, Fresh
<1>2. /\ changes' = changes /\ view' = view /\ syncView' = syncView
      /\ needFlush' = needFlush
  OBVIOUS
<1>3. OneAtATime'
  BY <1>1 DEF OneAtATime
<1>4. TakenIsCurrent'
  BY <1>2 DEF TakenIsCurrent, Fresh
<1>5. WrongOnlyInFlight'
  BY <1>2 DEF WrongOnlyInFlight, Fresh
<1>6. AnnounceFollows'
  BY <1>1, <1>2 DEF AnnounceFollows, Fresh
<1>7. FlushIsOwed'
  BY <1>2 DEF FlushIsOwed, Fresh
<1> QED
  BY <1>3, <1>4, <1>5, <1>6, <1>7 DEF SerialFacts

LEMMA ChangeModeSerial ==
  ASSUME TypeOK, TypeOK', NEW t \in Threads, NEW m \in Modes,
         NEW on \in BOOLEAN, Fresh(t), ChangeMode(t, m, on),
         UNCHANGED <<changes, view, syncView, silent>>
  PROVE  SerialFacts'
<1> DEFINE x == ~on /\ m = Sync
<1>1. x \in BOOLEAN /\ needFlush' = [needFlush EXCEPT ![t] = x]
      /\ Goto(t, "take")
  BY DEF ChangeMode
<1>2. pending'[m] # "none" /\ (~on => m \notin enabled')
  BY DEF ChangeMode, TypeOK, ChangeTo
<1>3. \A k \in Modes : \/ k \in enabled' <=> k \in enabled
                       \/ pending'[k] # "none"
  <2> TAKE k \in Modes
  <2>1. CASE k = m
    BY <1>2, <2>1
  <2>2. CASE k # m
    BY <2>2 DEF ChangeMode
  <2> QED
    BY <2>1, <2>2
<1>4. x => Sync \notin enabled' /\ pending'[Sync] # "none"
  BY <1>2
<1> HIDE DEF x
<1> QED
  BY <1>1, <1>3, <1>4, ChangeSerial

LEMMA RestoreModesSerial ==
  ASSUME TypeOK, TypeOK', SerialInv, NEW t \in Threads, RestoreModes(t),
         ~overlapped'
  PROVE  SerialFacts'
<1> DEFINE x == Sync \in enabled \ saved
<1>1. Fresh(t)
  BY CallIsFresh DEF RestoreModes
<1>2. x \in BOOLEAN /\ needFlush' = [needFlush EXCEPT ![t] = x]
      /\ Goto(t, "take") /\ enabled' = saved
      /\ UNCHANGED <<changes, view, syncView, silent>>
  BY DEF RestoreModes
<1>3. \A m \in Modes : pending'[m] = IF m \in saved \ enabled THEN "on"
                                     ELSE IF m \in enabled \ saved THEN "off"
                                     ELSE pending[m]
  BY DEF RestoreModes
<1>4. \A m \in Modes : \/ m \in enabled' <=> m \in enabled
                       \/ pending'[m] # "none"
  BY <1>2, <1>3
<1>5. x => Sync \notin enabled' /\ pending'[Sync] # "none"
  BY <1>2, <1>3, ModesAssumption
<1> HIDE DEF x
<1> QED
  BY <1>1, <1>2, <1>4, <1>5, ChangeSerial

LEMMA ResetAllModesSerial ==
  ASSUME TypeOK, SerialInv, NEW t \in Threads, ResetAllModes(t), ~overlapped'
  PROVE  SerialFacts'
<1> DEFINE l == IF Sync \in enabled THEN "flushRequest" ELSE "idle"
<1>1. Fresh(t)
  BY CallIsFresh DEF ResetAllModes
<1>2. l \in {"idle", "toggleOn", "toggleOff", "flushRequest"}
      /\ pc' = [pc EXCEPT ![t] = l]
      /\ UNCHANGED <<changes, view, syncView, needFlush>>
  BY DEF ResetAllModes, Goto
<1>3. \A m \in Modes \ silent' : /\ m \notin silent
                                 /\ m \in enabled' <=> m \in enabled
  BY DEF ResetAllModes
<1> HIDE DEF l
<1> QED
  BY <1>1, <1>2, <1>3, FreshSerial

LEMMA ToggleSerial ==
  ASSUME TypeOK, TypeOK', SerialFacts, NEW t \in Threads, ToggleApply(t)
  PROVE  SerialFacts'
<1> DEFINE on == pc[t] = "toggleOn"
<1>1. pc[t] \in {"toggleOn", "toggleOff"} /\ on \in BOOLEAN /\ arg[t] \in Modes
      /\ UNCHANGED <<changes, view, syncView, silent>>
  BY DEF ToggleApply, TypeOK
<1>2. \A u \in Threads : u # t => pc[u] = "idle"
  BY <1>1 DEF SerialFacts, OneAtATime
<1>3. Fresh(t)
  BY <1>1, <1>2, AloneIsFresh
<1>4. CASE ChangeMode(t, arg[t], on)
  <2> HIDE DEF on
  <2> QED
    BY <1>1, <1>3, <1>4, ChangeModeSerial
<1>5. CASE Goto(t, "idle") /\ UNCHANGED <<enabled, pending, needFlush>>
  <2>1. pc' = [pc EXCEPT ![t] = "idle"]
    BY <1>5 DEF Goto
  <2>2. \A m \in Modes \ silent' : /\ m \notin silent
                                   /\ m \in enabled' <=> m \in enabled
    BY <1>1, <1>5
  <2> QED
    BY <1>1, <1>3, <1>5, <2>1, <2>2, FreshSerial
<1> QED
  BY <1>4, <1>5 DEF ToggleApply

\* The thread that emits is alone, and keeps only one of the five facts busy.
LEMMA TakeSerial ==
  ASSUME TypeOK, PendingIsCurrent, SerialFacts, NEW t \in Threads,
         TakeChanges(t)
  PROVE  SerialFacts'
<1>1. /\ pc[t] = "take" /\ changes' = [changes EXCEPT ![t] = pending]
      /\ pending' = NoChange /\ enabled' = enabled /\ needFlush' = needFlush
      /\ view' = view /\ syncView' = syncView /\ silent' = silent
  BY DEF TakeChanges
<1>2. /\ \A u \in Threads : u # t => pc[u] = "idle" /\ pc'[u] = "idle"
      /\ pc'[t] = "deliver"
  BY <1>1 DEF TakeChanges, Goto, TypeOK, SerialFacts, OneAtATime
<1>3. \A u \in Threads, m \in Modes : changes[u][m] = "none"
  BY <1>1, <1>2 DEF SerialFacts, TakenIsCurrent
<1>4. /\ changes'[t] = pending
      /\ \A u \in Threads : u # t => changes'[u] = changes[u]
  BY <1>1 DEF TypeOK
<1>5. OneAtATime'
  BY <1>2 DEF OneAtATime
<1>6. TakenIsCurrent'
  <2> SUFFICES ASSUME NEW u \in Threads, NEW m \in Modes,
                      changes'[u][m] # "none"
               PROVE  /\ pc'[u] \in {"deliver", "announce"}
                      /\ changes'[u][m] = ChangeTo(m \in enabled')
    BY DEF TakenIsCurrent
  <2>1. u = t
    BY <1>3, <1>4
  <2>2. changes'[u][m] = ChangeTo(m \in enabled)
    BY <1>4, <2>1 DEF PendingIsCurrent
  <2> QED
    BY <1>1, <1>2, <2>1, <2>2
<1>7. WrongOnlyInFlight'
  <2> SUFFICES ASSUME NEW m \in Modes \ silent, ~(view[m] <=> m \in enabled)
               PROVE  changes'[t][m] # "none"
    BY <1>1 DEF WrongOnlyInFlight
  <2>1. pending[m] # "none"
    BY <1>3 DEF SerialFacts, WrongOnlyInFlight
  <2> QED
    BY <1>4, <2>1
<1>8. AnnounceFollows'
  <2>1. syncView <=> view[Sync]
    BY <1>1, <1>2 DEF SerialFacts, AnnounceFollows
  <2> QED
    BY <1>1, <1>2, <2>1 DEF AnnounceFollows
<1>9. FlushIsOwed'
  <2> SUFFICES ASSUME NEW u \in Threads, needFlush[u]
               PROVE  /\ pc'[u] = "deliver" /\ Sync \notin enabled
                      /\ changes'[u][Sync] # "none"
    BY <1>1 DEF FlushIsOwed
  <2>1. u = t
    BY <1>2 DEF SerialFacts, FlushIsOwed
  <2> QED
    BY <1>1, <1>2, <1>4, <2>1 DEF SerialFacts, FlushIsOwed
<1> QED
  BY <1>5, <1>6, <1>7, <1>8, <1>9 DEF SerialFacts

LEMMA DeliverSerial ==
  ASSUME TypeOK, SerialFacts, NEW t \in Threads, NEW m \in Modes \ {Sync},
         Deliver(t, m)
  PROVE  SerialFacts'
<1>1. /\ pc[t] = "deliver" /\ changes[t][m] # "none"
      /\ view' = [view EXCEPT ![m] = (changes[t][m] = "on")]
      /\ changes' = [changes EXCEPT ![t][m] = "none"]
      /\ silent' = silent \ {m} /\ pc' = pc
      /\ pending' = pending /\ enabled' = enabled /\ needFlush' = needFlush
      /\ syncView' = syncView
  BY DEF Deliver
<1>2. \A u \in Threads : u # t => pc[u] = "idle"
  BY <1>1 DEF SerialFacts, OneAtATime
<1>3. /\ \A k \in Modes : k # m => view'[k] = view[k]
      /\ view'[m] <=> changes[t][m] = "on"
      /\ view'[Sync] = view[Sync]
  BY <1>1, ModesAssumption DEF TypeOK
<1>4. /\ \A u \in Threads, k \in Modes :
           changes'[u][k] = IF u = t /\ k = m THEN "none" ELSE changes[u][k]
      /\ \A u \in Threads : changes'[u][Sync] = changes[u][Sync]
  BY <1>1, ModesAssumption DEF TypeOK
<1>5. OneAtATime'
  BY <1>1 DEF SerialFacts, OneAtATime
<1>6. TakenIsCurrent'
  BY <1>1, <1>4 DEF SerialFacts, TakenIsCurrent
<1>7. view'[m] <=> m \in enabled
  BY <1>1, <1>3 DEF SerialFacts, TakenIsCurrent, ChangeTo
<1>8. WrongOnlyInFlight'
  <2> SUFFICES ASSUME NEW k \in Modes \ silent', ~(view'[k] <=> k \in enabled)
               PROVE  \/ pending[k] # "none" /\ \E u \in Threads : pc[u] = "take"
                      \/ \E u \in Threads : changes'[u][k] # "none"
    BY <1>1 DEF WrongOnlyInFlight
  <2>1. k # m /\ k \notin silent /\ view'[k] = view[k]
    BY <1>1, <1>3, <1>7
  <2> QED
    BY <1>4, <2>1 DEF SerialFacts, WrongOnlyInFlight
<1>9. AnnounceFollows'
  BY <1>1, <1>3, <1>4 DEF SerialFacts, AnnounceFollows
<1>10. FlushIsOwed'
  BY <1>1, <1>3, <1>4 DEF SerialFacts, FlushIsOwed
<1> QED
  BY <1>5, <1>6, <1>8, <1>9, <1>10 DEF SerialFacts

LEMMA DeliverSyncSerial ==
  ASSUME TypeOK, SerialFacts, NEW t \in Threads, Deliver(t, Sync)
  PROVE  SerialFacts'
<1>1. /\ pc[t] = "deliver" /\ changes[t][Sync] # "none"
      /\ view' = [view EXCEPT ![Sync] = (changes[t][Sync] = "on")]
      /\ changes' = changes /\ silent' = silent
      /\ pending' = pending /\ enabled' = enabled /\ needFlush' = needFlush
      /\ syncView' = syncView
  BY DEF Deliver
<1>2. /\ \A u \in Threads : u # t => pc[u] = "idle" /\ pc'[u] = "idle"
      /\ pc'[t] = "announce"
  BY <1>1 DEF Deliver, Goto, TypeOK, SerialFacts, OneAtATime
<1>3. /\ \A k \in Modes : k # Sync => view'[k] = view[k]
      /\ view'[Sync] <=> changes[t][Sync] = "on"
  BY <1>1, ModesAssumption DEF TypeOK
<1>4. OneAtATime'
  BY <1>2 DEF OneAtATime
<1>5. TakenIsCurrent'
  BY <1>1, <1>2 DEF SerialFacts, TakenIsCurrent
<1>6. WrongOnlyInFlight'
  <2> SUFFICES ASSUME NEW k \in Modes \ silent, ~(view'[k] <=> k \in enabled)
               PROVE  \E u \in Threads : changes[u][k] # "none"
    BY <1>1 DEF WrongOnlyInFlight
  <2>1. CASE k = Sync
    BY <1>1, <2>1
  <2>2. CASE k # Sync
    BY <1>1, <1>2, <1>3, <2>2 DEF SerialFacts, WrongOnlyInFlight
  <2> QED
    BY <2>1, <2>2
<1>7. AnnounceFollows'
  BY <1>1, <1>2, <1>3 DEF AnnounceFollows
<1>8. FlushIsOwed'
  <2> SUFFICES ASSUME NEW u \in Threads, needFlush[u]
               PROVE  pc'[u] = "announce" /\ Sync \notin enabled
    BY <1>1 DEF FlushIsOwed
  <2> QED
    BY <1>2 DEF SerialFacts, FlushIsOwed
<1> QED
  BY <1>4, <1>5, <1>6, <1>7, <1>8 DEF SerialFacts

LEMMA AnnounceSerial ==
  ASSUME TypeOK, SerialFacts, NEW t \in Threads, Announce(t)
  PROVE  SerialFacts'
<1>1. /\ pc[t] = "announce" /\ syncView' = (changes[t][Sync] = "on")
      /\ changes' = [changes EXCEPT ![t][Sync] = "none"]
      /\ silent' = silent \ {Sync} /\ view' = view
      /\ pending' = pending /\ enabled' = enabled /\ needFlush' = needFlush
  BY DEF Announce
<1>2. /\ \A u \in Threads : u # t => pc[u] = "idle" /\ pc'[u] = "idle"
      /\ pc'[t] = "deliver"
  BY <1>1 DEF Announce, Goto, TypeOK, SerialFacts, OneAtATime
<1>3. \A u \in Threads, k \in Modes :
        changes'[u][k] = IF u = t /\ k = Sync THEN "none" ELSE changes[u][k]
  BY <1>1, ModesAssumption DEF TypeOK
<1>4. /\ view[Sync] <=> changes[t][Sync] = "on"
      /\ changes[t][Sync] = ChangeTo(Sync \in enabled)
  BY <1>1, ModesAssumption DEF SerialFacts, AnnounceFollows, TakenIsCurrent
<1>5. /\ syncView' <=> view[Sync]
      /\ view[Sync] <=> Sync \in enabled
  BY <1>1, <1>4 DEF ChangeTo
<1>6. OneAtATime'
  BY <1>2 DEF OneAtATime
<1>7. TakenIsCurrent'
  BY <1>1, <1>2, <1>3 DEF SerialFacts, TakenIsCurrent
<1>8. WrongOnlyInFlight'
  <2> SUFFICES ASSUME NEW k \in Modes \ silent', ~(view[k] <=> k \in enabled)
               PROVE  \E u \in Threads : changes'[u][k] # "none"
    BY <1>1 DEF WrongOnlyInFlight
  <2>1. k # Sync /\ k \notin silent
    BY <1>1, <1>5
  <2>2. \A u \in Threads : pc[u] # "take"
    BY <1>1, <1>2
  <2>3. PICK u \in Threads : changes[u][k] # "none"
    BY <2>1, <2>2 DEF SerialFacts, WrongOnlyInFlight
  <2> QED
    BY <1>3, <2>1, <2>3
<1>9. AnnounceFollows'
  BY <1>1, <1>2, <1>5 DEF AnnounceFollows
<1>10. FlushIsOwed'
  <2> SUFFICES ASSUME NEW u \in Threads, needFlush[u]
               PROVE  pc'[u] = "deliver" /\ Sync \notin enabled /\ ~view[Sync]
    BY <1>1 DEF FlushIsOwed
  <2> QED
    BY <1>2, <1>5 DEF SerialFacts, FlushIsOwed
<1> QED
  BY <1>6, <1>7, <1>8, <1>9, <1>10 DEF SerialFacts

\* The end of the loop, and flushRequested.
LEMMA EndSerial ==
  ASSUME TypeOK, SerialFacts, NEW t \in Threads, Delivered(t) \/ FlushRequest(t)
  PROVE  SerialFacts'
<1>1. /\ pc[t] \in {"deliver", "flushRequest"} /\ changes' = changes
      /\ silent' = silent /\ view' = view /\ syncView' = syncView
      /\ pending' = pending /\ enabled' = enabled
  BY DEF Delivered, FlushRequest
<1>2. \A u \in Threads : u # t => pc[u] = "idle" /\ pc'[u] = "idle"
  BY <1>1 DEF Delivered, FlushRequest, Goto, TypeOK, SerialFacts, OneAtATime
<1>3. pc'[t] \in {"idle", "flushRequest"}
  BY DEF Delivered, FlushRequest, Goto, TypeOK
<1>4. \A u \in Threads, m \in Modes : changes[u][m] = "none"
  <2> SUFFICES ASSUME NEW u \in Threads, NEW m \in Modes
               PROVE  changes[u][m] = "none"
    OBVIOUS
  <2>1. CASE u # t
    BY <1>2, <2>1 DEF SerialFacts, TakenIsCurrent
  <2>2. CASE u = t /\ Delivered(t)
    BY <2>2 DEF Delivered, NoChange
  <2>3. CASE u = t /\ FlushRequest(t)
    BY <2>3 DEF FlushRequest, SerialFacts, TakenIsCurrent
  <2> QED
    BY <2>1, <2>2, <2>3
<1>5. OneAtATime'
  BY <1>2 DEF OneAtATime
<1>6. TakenIsCurrent'
  BY <1>1, <1>4 DEF TakenIsCurrent
<1>7. WrongOnlyInFlight'
  <2>1. \A u \in Threads : pc[u] # "take"
    BY <1>1, <1>2
  <2> QED
    BY <1>1, <1>4, <2>1 DEF SerialFacts, WrongOnlyInFlight
<1>8. AnnounceFollows'
  <2>1. syncView <=> view[Sync]
    BY <1>1, <1>2 DEF SerialFacts, AnnounceFollows
  <2> QED
    BY <1>1, <1>2, <1>3, <2>1 DEF AnnounceFollows
<1>9. FlushIsOwed'
  <2> SUFFICES ASSUME NEW u \in Threads, needFlush'[u]
               PROVE  /\ pc'[u] = "flushRequest" /\ Sync \notin enabled
                      /\ ~view[Sync]
    BY <1>1 DEF FlushIsOwed
  <2>1. needFlush[u]
    BY DEF Delivered, FlushRequest, TypeOK
  <2>2. u = t
    BY <1>2, <2>1 DEF SerialFacts, FlushIsOwed
  <2>3. CASE Delivered(t)
    BY <1>4, <2>1, <2>2, <2>3, ModesAssumption
       DEF Delivered, Goto, TypeOK, SerialFacts, FlushIsOwed
  <2>4. CASE FlushRequest(t)
    BY <2>2, <2>4 DEF FlushRequest, TypeOK
  <2> QED
    BY <2>3, <2>4
<1> QED
  BY <1>5, <1>6, <1>7, <1>8, <1>9 DEF SerialFacts

LEMMA InitSerial == Init => SerialInv
<1> SUFFICES ASSUME Init PROVE SerialFacts
  BY DEF SerialInv
<1> USE ModesAssumption DEF Init
<1>1. OneAtATime
  BY DEF OneAtATime
<1>2. TakenIsCurrent
  BY DEF TakenIsCurrent, NoChange
<1>3. WrongOnlyInFlight
  BY DEF WrongOnlyInFlight
<1>4. AnnounceFollows
  BY DEF AnnounceFollows
<1>5. FlushIsOwed
  BY DEF FlushIsOwed
<1> QED
  BY <1>1, <1>2, <1>3, <1>4, <1>5 DEF SerialFacts

LEMMA NextSerial ==
  TypeOK /\ TypeOK' /\ PendingIsCurrent /\ SerialInv /\ [Next]_vars
    => SerialInv'
<1> SUFFICES ASSUME TypeOK, TypeOK', PendingIsCurrent, SerialInv, [Next]_vars,
                    ~overlapped'
             PROVE  SerialFacts'
  BY DEF SerialInv
<1>1. ASSUME NEW t \in Threads, NEW m \in Modes, NEW on \in BOOLEAN,
             SetMode(t, m, on)
      PROVE  SerialFacts'
  BY <1>1, CallIsFresh, ChangeModeSerial DEF SetMode
<1>2. ASSUME NEW t \in Threads, NEW m \in Modes, ToggleMode(t, m)
      PROVE  SerialFacts'
  <2> DEFINE l == IF m \in enabled THEN "toggleOff" ELSE "toggleOn"
  <2>1. /\ l \in {"idle", "toggleOn", "toggleOff", "flushRequest"}
        /\ pc' = [pc EXCEPT ![t] = l] /\ Fresh(t)
        /\ UNCHANGED <<changes, view, syncView, needFlush, silent, enabled>>
    BY <1>2, CallIsFresh DEF ToggleMode, Goto
  <2> HIDE DEF l
  <2>2. \A k \in Modes \ silent' : /\ k \notin silent
                                   /\ k \in enabled' <=> k \in enabled
    BY <2>1
  <2> QED
    BY <2>1, <2>2, FreshSerial
<1>3. ASSUME NEW t \in Threads, SaveModes(t)
      PROVE  SerialFacts'
  <2>1. /\ Fresh(t) /\ pc[t] = "idle" /\ pc' = pc
        /\ UNCHANGED <<changes, view, syncView, needFlush, silent, enabled>>
    BY <1>3, CallIsFresh DEF SaveModes
  <2>2. pc' = [pc EXCEPT ![t] = "idle"]
    BY <2>1 DEF TypeOK
  <2>3. \A k \in Modes \ silent' : /\ k \notin silent
                                   /\ k \in enabled' <=> k \in enabled
    BY <2>1
  <2> QED
    BY <2>1, <2>2, <2>3, FreshSerial
<1>4. ASSUME NEW t \in Threads, RestoreModes(t) \/ ResetAllModes(t)
      PROVE  SerialFacts'
  BY <1>4, RestoreModesSerial, ResetAllModesSerial
<1>5. ASSUME NEW t \in Threads, Continue(t)
      PROVE  SerialFacts'
  <2>1. SerialFacts
    BY <1>5 DEF Continue, ToggleApply, TakeChanges, Announce, Delivered,
                FlushRequest, Deliver, SerialInv
  <2>2. CASE ToggleApply(t)
    BY <2>1, <2>2, ToggleSerial
  <2>3. CASE TakeChanges(t)
    BY <2>1, <2>3, TakeSerial
  <2>4. CASE Announce(t)
    BY <2>1, <2>4, AnnounceSerial
  <2>5. CASE Delivered(t) \/ FlushRequest(t)
    BY <2>1, <2>5, EndSerial
  <2>6. ASSUME NEW m \in Modes, Deliver(t, m) PROVE SerialFacts'
    <3>1. CASE m = Sync
      BY <2>1, <2>6, <3>1, DeliverSyncSerial
    <3>2. CASE m # Sync
      BY <2>1, <2>6, <3>2, DeliverSerial
    <3> QED
      BY <3>1, <3>2
  <2> QED
    BY <1>5, <2>2, <2>3, <2>4, <2>5, <2>6 DEF Continue
<1>6. CASE UNCHANGED vars
  BY <1>6 DEF vars, SerialInv, SerialFacts, OneAtATime, TakenIsCurrent,
              WrongOnlyInFlight, AnnounceFollows, FlushIsOwed
<1> QED
  BY <1>1, <1>2, <1>3, <1>4, <1>5, <1>6 DEF Next

\* While calls do not overlap, the slots know every mode that resetAllModes did
\* not change behind their back, both slots agree on SYNCHRONIZED_OUTPUT, and
\* flushRequested comes after both were told.
THEOREM SerialViewsAgree == Spec => []SerialViewAgrees
<1>1. TypeOK /\ SerialInv => SerialViewAgrees
  <2> SUFFICES ASSUME TypeOK, SerialFacts
               PROVE  /\ Quiet =>
                           /\ \A m \in Modes \ silent : view[m] = (m \in enabled)
                           /\ syncView = view[Sync]
                      /\ \A t \in Threads :
                           pc[t] = "flushRequest" /\ needFlush[t] =>
                             ~view[Sync] /\ ~syncView
    BY DEF SerialInv, SerialViewAgrees
  <2>1. ASSUME Quiet
        PROVE  /\ \A m \in Modes \ silent : view[m] = (m \in enabled)
               /\ syncView = view[Sync]
    <3>1. \A t \in Threads : pc[t] = "idle"
      BY <2>1 DEF Quiet
    <3>2. \A m \in Modes \ silent : view[m] <=> m \in enabled
      BY <3>1 DEF SerialFacts, WrongOnlyInFlight, TakenIsCurrent
    <3>3. syncView <=> view[Sync]
      BY <3>1 DEF SerialFacts, AnnounceFollows
    <3>4. \A m \in Modes : view[m] \in BOOLEAN
      BY DEF TypeOK
    <3>5. syncView \in BOOLEAN /\ view[Sync] \in BOOLEAN
      BY ModesAssumption DEF TypeOK
    <3> QED
      BY <3>2, <3>3, <3>4, <3>5
  <2>2. ASSUME NEW t \in Threads, pc[t] = "flushRequest", needFlush[t]
        PROVE  ~view[Sync] /\ ~syncView
    <3>1. \A u \in Threads : pc[u] # "announce"
      BY <2>2 DEF SerialFacts, OneAtATime
    <3> QED
      BY <2>2, <3>1 DEF SerialFacts, AnnounceFollows, FlushIsOwed
  <2> QED
    BY <2>1, <2>2
<1> QED
  BY <1>1, InitSerial, NextSerial, TypeCorrect, PendingChangesAreCurrent, PTL
     DEF Spec

-----------------------------------------------------------------------------
(* toggleMode between its two critical sections.                           *)

\* While calls do not overlap, what toggleMode has read still holds.
ToggleReadIsCurrent ==
  ~overlapped =>
    \A t \in Threads : /\ pc[t] = "toggleOn" => arg[t] \notin enabled
                       /\ pc[t] = "toggleOff" => arg[t] \in enabled

LEMMA NextToggleRead ==
  TypeOK /\ SerialInv /\ ToggleReadIsCurrent /\ [Next]_vars
    => ToggleReadIsCurrent'
<1> SUFFICES ASSUME TypeOK, SerialInv, ToggleReadIsCurrent, [Next]_vars,
                    ~overlapped', NEW t \in Threads,
                    pc'[t] \in {"toggleOn", "toggleOff"}
             PROVE  arg'[t] \in enabled' <=> pc'[t] = "toggleOff"
  BY DEF ToggleReadIsCurrent
<1>1. CASE UNCHANGED vars
  BY <1>1 DEF vars, ToggleReadIsCurrent
<1>2. ASSUME NEW u \in Threads, NEW m \in Modes, ToggleMode(u, m)
      PROVE  arg'[t] \in enabled' <=> pc'[t] = "toggleOff"
  <2>1. \A v \in Threads : v # u => pc[v] = "idle"
    BY <1>2 DEF ToggleMode, Call
  <2>2. /\ pc' = [pc EXCEPT ![u] = IF m \in enabled THEN "toggleOff"
                                   ELSE "toggleOn"]
        /\ arg' = [arg EXCEPT ![u] = m] /\ enabled' = enabled
    BY <1>2 DEF ToggleMode, Goto
  <2>3. t = u
    BY <2>1, <2>2 DEF TypeOK
  <2> QED
    BY <2>2, <2>3 DEF TypeOK
<1>3. ASSUME NEW u \in Threads, Call(u), pc'[u] \notin {"toggleOn", "toggleOff"},
             \A v \in Threads : v # u => pc'[v] = pc[v]
      PROVE  FALSE
  BY <1>3 DEF Call
<1>4. ASSUME NEW u \in Threads, SaveModes(u) \/ RestoreModes(u) \/ ResetAllModes(u)
      PROVE  FALSE
  <2>1. /\ Call(u) /\ pc'[u] \notin {"toggleOn", "toggleOff"}
        /\ \A v \in Threads : v # u => pc'[v] = pc[v]
    BY <1>4 DEF SaveModes, RestoreModes, ResetAllModes, Goto, TypeOK, Call
  <2> QED
    BY <1>3, <2>1
<1>5. ASSUME NEW u \in Threads, NEW m \in Modes, NEW on \in BOOLEAN,
             SetMode(u, m, on)
      PROVE  FALSE
  <2>1. /\ Call(u) /\ pc'[u] \notin {"toggleOn", "toggleOff"}
        /\ \A v \in Threads : v # u => pc'[v] = pc[v]
    BY <1>5 DEF SetMode, ChangeMode, Goto, TypeOK
  <2> QED
    BY <1>3, <2>1
<1>6. ASSUME NEW u \in Threads, Continue(u)
      PROVE  FALSE
  <2>1. /\ pc[u] # "idle" /\ overlapped' = overlapped
        /\ \E l \in PCs \ {"toggleOn", "toggleOff"} : pc' = [pc EXCEPT ![u] = l]
    <3>1. CASE \E m \in Modes : Deliver(u, m)
      BY <1>6, <3>1 DEF Deliver, Goto, PCs, TypeOK
    <3>2. CASE ToggleApply(u)
      BY <1>6, <3>2 DEF ToggleApply, ChangeMode, Goto, PCs, TypeOK
    <3>3. CASE TakeChanges(u) \/ Announce(u) \/ Delivered(u) \/ FlushRequest(u)
      BY <1>6, <3>3 DEF TakeChanges, Announce, Delivered, FlushRequest, Goto, PCs
    <3> QED
      BY <1>6, <3>1, <3>2, <3>3 DEF Continue
  <2>2. \A v \in Threads : v # u => pc[v] = "idle"
    BY <2>1 DEF SerialInv, SerialFacts, OneAtATime
  <2> QED
    BY <2>1, <2>2 DEF TypeOK
<1> QED
  BY <1>1, <1>2, <1>4, <1>5, <1>6 DEF Next

\* After its second critical section toggleMode leaves the mode with the value
\* it chose in the first; when no other call overlapped it, the mode has flipped.
THEOREM TogglesTakeEffect == Spec => ToggleTakesEffect
<1>1. Init => ToggleReadIsCurrent
  BY DEF Init, ToggleReadIsCurrent
<1> DEFINE Flips == \A t \in Threads :
             pc[t] \in {"toggleOn", "toggleOff"} /\ pc'[t] # pc[t] =>
               /\ arg[t] \in enabled' <=> pc[t] = "toggleOn"
               /\ ~overlapped => (arg[t] \in enabled' <=> arg[t] \notin enabled)
<1>2. TypeOK /\ ToggleReadIsCurrent /\ [Next]_vars => [Flips]_vars
  <2> SUFFICES ASSUME TypeOK, ToggleReadIsCurrent, Next, NEW t \in Threads,
                      pc[t] \in {"toggleOn", "toggleOff"}, pc'[t] # pc[t]
               PROVE  /\ arg[t] \in enabled' <=> pc[t] = "toggleOn"
                      /\ ~overlapped => (arg[t] \in enabled'
                                            <=> arg[t] \notin enabled)
    BY DEF vars
  <2>1. ToggleApply(t)
    <3>1. ASSUME NEW u \in Threads, NEW l, pc' = [pc EXCEPT ![u] = l]
          PROVE  u = t
      BY <3>1 DEF TypeOK
    <3>2. PICK u \in Threads :
            \/ \E m \in Modes : ToggleMode(u, m) \/ \E on \in BOOLEAN : SetMode(u, m, on)
            \/ SaveModes(u) \/ RestoreModes(u) \/ ResetAllModes(u)
            \/ Continue(u)
      BY DEF Next
    <3>3. pc[u] = "idle" => u # t
      OBVIOUS
    <3>4. CASE \/ \E m \in Modes : ToggleMode(u, m) \/ \E on \in BOOLEAN : SetMode(u, m, on)
               \/ RestoreModes(u) \/ ResetAllModes(u)
      BY <3>1, <3>3, <3>4 DEF ToggleMode, SetMode, ChangeMode, RestoreModes,
                              ResetAllModes, Call, Goto
    <3>5. CASE SaveModes(u)
      BY <3>5 DEF SaveModes
    <3>6. CASE ToggleApply(u)
      BY <3>1, <3>6 DEF ToggleApply, ChangeMode, Goto
    <3>7. CASE \/ TakeChanges(u) \/ Announce(u) \/ Delivered(u) \/ FlushRequest(u)
               \/ \E m \in Modes : Deliver(u, m)
      <4>1. pc[u] \in {"take", "announce", "deliver", "flushRequest"}
            /\ (pc' = pc \/ \E l : pc' = [pc EXCEPT ![u] = l])
        BY <3>7 DEF TakeChanges, Announce, Delivered, FlushRequest, Deliver, Goto
      <4> QED
        BY <3>1, <4>1
    <3> QED
      BY <3>2, <3>4, <3>5, <3>6, <3>7 DEF Continue
  <2>2. arg[t] \in enabled' <=> pc[t] = "toggleOn"
    BY <2>1 DEF ToggleApply, ChangeMode
  <2>3. ~overlapped => (arg[t] \in enabled <=> pc[t] = "toggleOff")
    BY DEF ToggleReadIsCurrent
  <2> QED
    BY <2>2, <2>3
<1> HIDE DEF Flips
<1>3. Spec => [][Flips]_vars
  BY <1>1, <1>2, NextToggleRead, InitSerial, NextSerial, TypeCorrect,
     PendingChangesAreCurrent, PTL DEF Spec
<1> QED
  BY <1>3 DEF ToggleTakesEffect, Flips
=============================================================================
