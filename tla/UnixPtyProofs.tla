--------------------------- MODULE UnixPtyProofs ---------------------------
(***************************************************************************)
(* UnixPty for any number of terminals, any block size and any amount of   *)
(* output: what createProcess() and stop() leave open or connected, where  *)
(* the slot can spin, and what becomes of the output.                      *)
(***************************************************************************)
EXTENDS UnixPty, SequenceTheorems, TLAPS

\* What DangleInv is about.
ownVars == <<starts, master, slave, open, notify, live, deleted, shell, moved,
             endedAlone, survived, fault>>

LEMMA InitDangleInv == Init => DangleInv
  BY ConstantsAssumption
     DEF Init, DangleInv, MemberTypeOK, MembersCurrent, NotifierConnected,
         NothingDangles, Gens

\* A step of the slot, of readAll() or of the shell's output.
LEMMA OthersKeep == DangleInv /\ UNCHANGED ownVars => DangleInv'
  BY DEF ownVars, DangleInv, MemberTypeOK, MembersCurrent, NotifierConnected,
         NothingDangles

\* createProcess(), however far it gets: the members it overwrites belong to
\* a shell that ended by itself, because none is running.
LEMMA CreateKeeps ==
  ASSUME DangleInv, fault = "none", NEW rung \in Rungs,
         NEW started \in BOOLEAN, NEW alive \in BOOLEAN,
         CreateProcess(rung, started, alive)
  PROVE  DangleInv'
<1> DEFINE g == starts + 1
           notified == rung \in {"resize", "ok"}
           running == IF notified /\ started THEN g ELSE 0
           n == IF notified THEN g ELSE notify
           lives == IF notified THEN live \cup {g} ELSE live
<1>1. /\ starts < MaxStarts /\ shell = 0 /\ starts' = g
      /\ endedAlone' = IF notified /\ ~started THEN endedAlone \cup {g}
                       ELSE endedAlone
      /\ UNCHANGED <<deleted, moved>>
  BY DEF CreateProcess, MayCreate
<1>2. /\ starts \in 0..MaxStarts /\ g \in 0..MaxStarts /\ g # 0
      /\ 0 \in 0..MaxStarts /\ g \notin deleted
      /\ deleted \subseteq 1..g
  BY <1>1, ConstantsAssumption DEF DangleInv, MemberTypeOK
<1>3. \A m \in {master, slave} \ {0} : m \in endedAlone
  BY <1>1 DEF DangleInv, MembersCurrent
<1>4. \A h \in Gens : /\ <<"master", h>> \in open => h \in endedAlone
                      /\ <<"slave", h>> \in open => h \in endedAlone
                      /\ h \in live => h \in endedAlone
  <2> SUFFICES ASSUME NEW h \in Gens, h \notin endedAlone
               PROVE  /\ <<"master", h>> \notin open
                      /\ <<"slave", h>> \notin open
                      /\ h \notin live
    OBVIOUS
  <2>1. h # master /\ h # slave
    BY <1>3, ConstantsAssumption DEF Gens
  <2> QED
    BY <2>1 DEF DangleInv, NothingDangles
<1>5. CASE rung = "ok"
  <2>1. /\ master' = g /\ slave' = g /\ notify' = g /\ shell' = running
        /\ open' = open \cup {<<"master", g>>} \cup {<<"slave", g>>}
        /\ live' = live \cup {g}
        /\ UNCHANGED <<survived, fault>>
    BY <1>5 DEF CreateProcess, OpenAt
  <2>2. MemberTypeOK'
    BY <1>1, <1>2, <2>1 DEF MemberTypeOK
  <2>3. MembersCurrent'
    BY <1>1, <1>5, <2>1 DEF MembersCurrent
  <2>4. NotifierConnected'
    BY <1>1, <1>2, <2>1 DEF NotifierConnected
  <2>5. NothingDangles'
    BY <1>1, <1>4, <2>1 DEF DangleInv, NothingDangles
  <2> QED
    BY <2>2, <2>3, <2>4, <2>5 DEF DangleInv
<1>6. CASE rung # "ok"
  <2>1. Stop(MasterAt(rung, g), SlaveAt(rung, g), OpenAt(rung, g), n, running,
             lives, alive)
    BY <1>6 DEF CreateProcess
  <2>2. /\ master' = 0 /\ slave' = 0 /\ notify' = n
        /\ live' = IF running # 0 THEN lives \ {n} ELSE lives
        /\ shell' = IF alive THEN running ELSE 0
        /\ survived' = (survived \/ (running # 0 /\ alive))
        /\ fault' = IF running # 0 /\ n \in deleted THEN "deletedNotifier"
                    ELSE fault
    BY <2>1 DEF Stop
  <2>3. \A h \in Gens : /\ <<"master", h>> \in open' => <<"master", h>> \in open
                        /\ <<"slave", h>> \in open' => <<"slave", h>> \in open
    BY <2>1 DEF Stop, OpenAt, MasterAt, SlaveAt, Descriptors
  <2>4. fault' = "none"
    BY <1>2, <2>2
  <2>5. \A h \in Gens : h \in live' => h \in live \/ h \in endedAlone'
    BY <1>1, <1>2, <2>2
  <2>6. MemberTypeOK'
    BY <1>1, <1>2, <2>2 DEF MemberTypeOK, DangleInv
  <2>7. MembersCurrent'
    BY <2>2 DEF MembersCurrent
  <2>8. NotifierConnected'
    BY <2>2 DEF NotifierConnected
  <2>9. NothingDangles'
    BY <1>1, <1>4, <2>3, <2>4, <2>5 DEF NothingDangles
  <2> QED
    BY <2>6, <2>7, <2>8, <2>9 DEF DangleInv
<1> QED
  BY <1>5, <1>6

\* The destructor: stop() once more, then everything goes.
LEMMA DestroyKeeps ==
  ASSUME DangleInv, fault = "none", NEW alive \in BOOLEAN, Destroy(alive)
  PROVE  DangleInv'
<1>1. /\ slot = 0 \/ moved
      /\ master' = 0 /\ slave' = 0 /\ notify' = 0 /\ live' = {} /\ shell' = 0
      /\ open' = open \ {<<"master", master>>, <<"slave", slave>>}
      /\ survived' = (survived \/ (shell # 0 /\ alive))
      /\ fault' = IF shell # 0 /\ notify \in deleted THEN "deletedNotifier"
                  ELSE IF slot # 0 THEN "freedBuffer" ELSE fault
      /\ UNCHANGED <<starts, deleted, moved, endedAlone>>
  BY DEF Destroy, CallerRuns, Descriptors
<1>2. MemberTypeOK'
  BY <1>1, ConstantsAssumption DEF DangleInv, MemberTypeOK
<1>3. MembersCurrent' /\ NotifierConnected'
  BY <1>1 DEF MembersCurrent, NotifierConnected
<1>4. \A h \in Gens : <<"master", h>> \in open' \/ <<"slave", h>> \in open'
                      => h \in endedAlone
  BY <1>1 DEF DangleInv, NothingDangles
<1>5. fault' = "deletedNotifier" => survived
  BY <1>1 DEF DangleInv, NotifierConnected
<1>6. NothingDangles'
  BY <1>1, <1>4, <1>5 DEF NothingDangles
<1> QED
  BY <1>2, <1>3, <1>6 DEF DangleInv

\* A notifier is deleted only after it was disconnected.
LEMMA DeferredDeleteKeeps ==
  ASSUME DangleInv, DeferredDelete
  PROVE  DangleInv'
<1>1. /\ deleted' = deleted \cup {g \in 1..starts : g = notify /\ g \notin live}
      /\ UNCHANGED <<starts, master, slave, open, notify, live, shell, moved,
                     endedAlone, survived, fault>>
  BY DEF DeferredDelete, descriptors
<1> QED
  BY <1>1 DEF DangleInv, MemberTypeOK, MembersCurrent, NotifierConnected,
              NothingDangles

\* moveToThread() and a shell that exits.
LEMMA MoveOrExitKeeps ==
  ASSUME DangleInv, fault = "none", MoveToThread \/ ShellExits
  PROVE  DangleInv'
<1>1. CASE MoveToThread
  <2>1. /\ moved'
        /\ UNCHANGED <<starts, master, slave, open, notify, live, deleted,
                       shell, endedAlone, survived, fault>>
    BY <1>1 DEF MoveToThread, descriptors
  <2> QED
    BY <2>1 DEF DangleInv, MemberTypeOK, MembersCurrent, NotifierConnected,
                NothingDangles
<1>2. CASE ShellExits
  <2>1. /\ shell' = 0 /\ endedAlone' = endedAlone \cup {shell}
        /\ UNCHANGED <<starts, master, slave, open, notify, live, deleted,
                       moved, survived, fault>>
    BY <1>2 DEF ShellExits
  <2>2. MemberTypeOK'
    BY <2>1, ConstantsAssumption DEF DangleInv, MemberTypeOK
  <2> QED
    BY <2>1, <2>2 DEF DangleInv, MembersCurrent, NotifierConnected, NothingDangles
<1> QED
  BY <1>1, <1>2

LEMMA NextDangleInv == DangleInv /\ [Next]_vars => DangleInv'
<1> SUFFICES ASSUME DangleInv, [Next]_vars
             PROVE  DangleInv'
  OBVIOUS
<1>1. CASE fault = "none" /\ \E rung \in Rungs, started, alive \in BOOLEAN :
                               CreateProcess(rung, started, alive)
  BY <1>1, CreateKeeps
<1>2. CASE fault = "none" /\ \E alive \in BOOLEAN : Destroy(alive)
  BY <1>2, DestroyKeeps
<1>3. CASE DeferredDelete
  BY <1>3, DeferredDeleteKeeps
<1>4. CASE fault = "none" /\ (MoveToThread \/ ShellExits)
  BY <1>4, MoveOrExitKeeps
<1>5. CASE \/ SlotContinues \/ ReadAllCopy \/ ReadAllClear \/ UNCHANGED vars
           \/ Poll \/ \E g \in Gens : Activated(g) \/ ShellWrites(g)
  <2>1. UNCHANGED ownVars
    BY <1>5 DEF SlotContinues, SlotRead, SlotFails, AppendEnds, SlotKeeps,
                ReadAllCopy, ReadAllClear, vars, Poll, Activated, ShellWrites,
                ownVars, descriptors
  <2> QED
    BY <2>1, OthersKeep
<1> QED
  BY <1>1, <1>2, <1>3, <1>4, <1>5 DEF Next, Halted, Spin

\* However often createProcess() is called and wherever it fails: a descriptor
\* no member refers to, or a connected notifier without its descriptor, is left
\* only by a shell that ended or failed by itself; the notifier is touched
\* after its deletion only when a shell outlived stop().
THEOREM NothingIsLeftDangling == Spec => []NothingDangles
<1>1. DangleInv => NothingDangles
  BY DEF DangleInv
<1> QED
  BY <1>1, InitDangleInv, NextDangleInv, PTL DEF Spec

-----------------------------------------------------------------------------
(* Type correctness.                                                       *)

LEMMA InitTypeOK == Init => TypeOK
<1>1. /\ <<>> \in Seq(Bytes) /\ <<>> \in Seq(1..MaxBytes)
      /\ 0 \in 0..MaxStarts /\ 0 \in 0..MaxBytes
  BY ConstantsAssumption
<1> QED
  BY <1>1 DEF Init, TypeOK

\* createProcess(), however far it gets.
LEMMA CreateTypeOK ==
  ASSUME TypeOK, NEW rung \in Rungs, NEW started \in BOOLEAN,
         NEW alive \in BOOLEAN, CreateProcess(rung, started, alive)
  PROVE  TypeOK'
<1> DEFINE g == starts + 1
           notified == rung \in {"resize", "ok"}
           running == IF notified /\ started THEN g ELSE 0
           n == IF notified THEN g ELSE notify
           lives == IF notified THEN live \cup {g} ELSE live
<1>1. /\ starts < MaxStarts /\ starts' = g
      /\ endedAlone' = IF notified /\ ~started THEN endedAlone \cup {g}
                       ELSE endedAlone
      /\ UNCHANGED <<deleted, ready, tty, written, slot, readData, grown,
                     readBuffer, announced, caller, copy, delivered, raced,
                     moved>>
  BY DEF CreateProcess, slotVars, callVars
<1>2. /\ g \in 0..MaxStarts /\ g \in Gens /\ 0 \in 0..MaxStarts
      /\ running \in 0..MaxStarts /\ n \in 0..MaxStarts /\ lives \subseteq Gens
      /\ OpenAt(rung, g) \subseteq {"master", "slave"} \X Gens
  <2>1. g \in 0..MaxStarts /\ g \in Gens /\ 0 \in 0..MaxStarts
    BY <1>1, ConstantsAssumption DEF TypeOK, Gens
  <2> HIDE DEF g
  <2>2. {<<"master", g>>, <<"slave", g>>} \subseteq {"master", "slave"} \X Gens
    BY <2>1
  <2>3. OpenAt(rung, g) \subseteq open \cup {<<"master", g>>, <<"slave", g>>}
    BY DEF OpenAt
  <2> QED
    BY <2>1, <2>2, <2>3 DEF TypeOK
<1> HIDE DEF g, running, n, lives
<1>3. /\ master' \in 0..MaxStarts /\ slave' \in 0..MaxStarts
      /\ notify' \in 0..MaxStarts /\ shell' \in 0..MaxStarts
      /\ open' \subseteq {"master", "slave"} \X Gens
      /\ live' \subseteq Gens
      /\ survived' \in BOOLEAN
      /\ fault' \in {"none", "deletedNotifier", "freedBuffer"}
  <2>1. CASE rung = "ok"
    <3>1. /\ master' = g /\ slave' = g /\ open' = OpenAt(rung, g)
          /\ notify' = n /\ live' = lives /\ shell' = running
          /\ UNCHANGED <<survived, fault>>
      BY <2>1 DEF CreateProcess, g, running, n, lives
    <3> QED
      BY <1>2, <3>1 DEF TypeOK
  <2>2. CASE rung # "ok"
    <3>1. Stop(MasterAt(rung, g), SlaveAt(rung, g), OpenAt(rung, g), n,
               running, lives, alive)
      BY <2>2 DEF CreateProcess, g, running, n, lives
    <3> QED
      BY <1>2, <3>1 DEF TypeOK, Stop
  <2> QED
    BY <2>1, <2>2
<1> QED
  BY <1>1, <1>2, <1>3 DEF TypeOK, g

\* What is left of a sequence without its first n members.
LEMMA RestOf ==
  ASSUME NEW S, NEW s \in Seq(S), NEW n \in 0..Len(s)
  PROVE  /\ SubSeq(s, n + 1, Len(s)) \in Seq(S)
         /\ Len(SubSeq(s, n + 1, Len(s))) = Len(s) - n
         /\ \A i \in 1..(Len(s) - n) : SubSeq(s, n + 1, Len(s))[i] = s[n + i]
<1> DEFINE k == Len(s)
           m == n + 1
<1>1. k \in Nat /\ n \in Nat /\ n <= k /\ m \in Int /\ k \in Int
  BY LenProperties
<1>2. \A i \in m..k : s[i] \in S
  BY <1>1, ElementOfSeq
<1> HIDE DEF k, m
<1>3. /\ SubSeq(s, m, k) \in Seq(S)
      /\ Len(SubSeq(s, m, k)) = IF m <= k THEN k - m + 1 ELSE 0
      /\ \A i \in 1..(k - m + 1) : SubSeq(s, m, k)[i] = s[m + i - 1]
  BY <1>1, <1>2, SubSeqProperties
<1>4. Len(SubSeq(s, m, k)) = k - n
  BY <1>1, <1>3 DEF m
<1>5. ASSUME NEW i \in 1..(k - n) PROVE SubSeq(s, m, k)[i] = s[n + i]
  <2>1. i \in 1..(k - m + 1) /\ m + i - 1 = n + i
    BY <1>1 DEF m
  <2> QED
    BY <1>3, <2>1
<1> QED
  BY <1>3, <1>4, <1>5 DEF k, m

\* What read() takes from a terminal.
LEMMA TakenType ==
  ASSUME TypeOK, master # 0, NEW n \in Nat, n <= Len(tty[master])
  PROVE  /\ master \in Gens /\ tty[master] \in Seq(1..MaxBytes)
         /\ Taken(n) \in Seq(Bytes) /\ Len(Taken(n)) = n
         /\ \A i \in 1..n : Taken(n)[i] = <<master, tty[master][i]>>
<1>1. master \in Gens /\ tty[master] \in Seq(1..MaxBytes)
  BY ConstantsAssumption DEF TypeOK, Gens
<1>2. \A i \in 1..n : <<master, tty[master][i]>> \in Bytes
  <2> SUFFICES ASSUME NEW i \in 1..n PROVE tty[master][i] \in 1..MaxBytes
    BY <1>1 DEF Bytes
  <2> DEFINE s == tty[master]
  <2>1. s \in Seq(1..MaxBytes) /\ i \in 1..Len(s)
    BY <1>1, LenProperties
  <2> HIDE DEF s
  <2> QED
    BY <2>1, ElementOfSeq DEF s
<1>3. Taken(n) \in [1..n -> Bytes]
  BY <1>2 DEF Taken
<1> QED
  BY <1>1, <1>3 DEF Taken

\* The length of a block.
LEMMA LeastType ==
  ASSUME NEW n \in Nat
  PROVE  /\ Least(BlockSize, n) \in Nat /\ Least(BlockSize, n) <= n
         /\ Least(BlockSize, n) <= BlockSize
         /\ n # 0 => Least(BlockSize, n) # 0
  BY ConstantsAssumption DEF Least

\* read().
LEMMA SlotReadTypeOK ==
  ASSUME TypeOK, SlotRead
  PROVE  TypeOK'
<1> DEFINE n == Least(BlockSize, Len(tty[master]))
           data == readData \o Taken(n)
<1>1. master # 0
  BY DEF SlotRead
<1>2. tty[master] \in Seq(1..MaxBytes) /\ master \in Gens
  BY <1>1, ConstantsAssumption DEF TypeOK, Gens
<1>3. n \in Nat /\ n <= Len(tty[master]) /\ Len(tty[master]) \in Nat
  BY <1>2, LeastType, LenProperties
<1>4. tty' = [tty EXCEPT ![master] = SubSeq(@, n + 1, Len(@))]
  BY DEF SlotRead
<1>5. /\ readData' = data /\ UNCHANGED slot
      /\ \/ UNCHANGED <<grown, raced>>
         \/ grown' = readBuffer \o data /\ raced' = (raced \/ caller = "copied")
  BY DEF SlotRead, SlotLoops, AppendBegins
<1>6. UNCHANGED <<starts, master, slave, open, notify, shell, endedAlone, live,
                  deleted, ready, written, readBuffer, announced, caller, copy,
                  delivered, moved, survived, fault>>
  BY DEF SlotRead, SlotKeeps, descriptors
<1> HIDE DEF n
<1>7. Taken(n) \in Seq(Bytes)
  BY <1>1, <1>3, TakenType
<1>8. readData \in Seq(Bytes) /\ readBuffer \in Seq(Bytes)
  BY DEF TypeOK
<1>9. data \in Seq(Bytes)
  BY <1>7, <1>8, ConcatProperties
<1> HIDE DEF data
<1>10. readBuffer \o data \in Seq(Bytes)
  BY <1>8, <1>9, ConcatProperties
<1>11. SubSeq(tty[master], n + 1, Len(tty[master])) \in Seq(1..MaxBytes)
  <2> DEFINE s == tty[master]
  <2>1. s \in Seq(1..MaxBytes) /\ n \in 0..Len(s)
    BY <1>2, <1>3
  <2> HIDE DEF s
  <2> QED
    BY <2>1, RestOf DEF s
<1>12. tty' \in [Gens -> Seq(1..MaxBytes)]
  BY <1>4, <1>11 DEF TypeOK
<1>13. /\ readData' \in Seq(Bytes) /\ grown' \in Seq(Bytes)
       /\ slot' \in 0..MaxStarts /\ raced' \in BOOLEAN
  BY <1>5, <1>9, <1>10 DEF TypeOK
<1> QED
  BY <1>6, <1>12, <1>13 DEF TypeOK

LEMMA NextTypeOK == TypeOK /\ [Next]_vars => TypeOK'
<1> SUFFICES ASSUME TypeOK, [Next]_vars PROVE TypeOK'
  OBVIOUS
<1> USE DEF TypeOK
<1>0. <<>> \in Seq(Bytes) /\ 0 \in 0..MaxStarts
  BY ConstantsAssumption
<1>1. CASE \E rung \in Rungs, started, alive \in BOOLEAN :
             CreateProcess(rung, started, alive)
  BY <1>1, CreateTypeOK
<1>2. CASE \E alive \in BOOLEAN : Destroy(alive)
  BY <1>0, <1>2 DEF Destroy, slotVars
<1>3. CASE DeferredDelete
  <2>1. deleted' \subseteq Gens
    <3>1. deleted' = deleted \cup {g \in 1..starts : g = notify /\ g \notin live}
      BY <1>3 DEF DeferredDelete
    <3>2. 1..starts \subseteq Gens
      BY ConstantsAssumption DEF Gens
    <3> QED
      BY <3>1, <3>2
  <2> QED
    BY <1>3, <2>1 DEF DeferredDelete, descriptors, slotVars, callVars
<1>4. CASE MoveToThread
  BY <1>4 DEF MoveToThread, descriptors, slotVars, callVars
<1>5. CASE SlotRead
  BY <1>5, SlotReadTypeOK
<1>6. CASE SlotFails
  <2>1. readBuffer \o readData \in Seq(Bytes)
    BY ConcatProperties
  <2>2. /\ slot' \in 0..MaxStarts /\ readData' \in Seq(Bytes)
        /\ grown' \in Seq(Bytes) /\ raced' \in BOOLEAN
    BY <1>0, <1>6, <2>1 DEF SlotFails, AppendBegins
  <2> QED
    BY <1>6, <2>2 DEF SlotFails, SlotKeeps, descriptors
<1>13. CASE AppendEnds
  BY <1>0, <1>13 DEF AppendEnds, SlotKeeps, descriptors
<1>14. CASE Poll
  <2>1. ready' \subseteq live
    BY <1>14 DEF Poll
  <2> QED
    BY <1>14, <2>1 DEF Poll, descriptors, slotVars, callVars
<1>7. CASE ReadAllCopy
  BY <1>7 DEF ReadAllCopy, descriptors, slotVars
<1>8. CASE ReadAllClear
  <2>1. delivered \o copy \in Seq(Bytes)
    BY ConcatProperties
  <2> QED
    BY <1>0, <1>8, <2>1 DEF ReadAllClear, descriptors, slotVars
<1>9. CASE ShellExits
  BY <1>0, <1>9 DEF ShellExits, slotVars, callVars, Gens
<1>10. ASSUME NEW g \in Gens, Activated(g) PROVE TypeOK'
  BY <1>0, <1>10 DEF Activated, descriptors, callVars, Gens
<1>11. ASSUME NEW g \in Gens, ShellWrites(g) PROVE TypeOK'
  <2>1. /\ written' = [written EXCEPT ![g] = @ + 1]
        /\ tty' = [tty EXCEPT ![g] = Append(@, written[g] + 1)]
        /\ written[g] + 1 \in 1..MaxBytes
    BY <1>11, ConstantsAssumption DEF ShellWrites
  <2>2. Append(tty[g], written[g] + 1) \in Seq(1..MaxBytes)
    BY <2>1, AppendProperties
  <2>3. /\ written' \in [Gens -> 0..MaxBytes]
        /\ tty' \in [Gens -> Seq(1..MaxBytes)]
    BY <2>1, <2>2
  <2> QED
    BY <1>11, <2>3 DEF ShellWrites, descriptors, slotVars, callVars
<1>12. CASE UNCHANGED vars
  BY <1>12 DEF vars
<1> QED
  BY <1>1, <1>2, <1>3, <1>4, <1>5, <1>6, <1>7, <1>8, <1>9, <1>10, <1>11, <1>12,
     <1>13, <1>14 DEF Next, SlotContinues, Spin, Halted

\* Whatever the calls and the slot do, the members hold generations that exist
\* or 0, the descriptors and notifiers belong to terminals that were opened,
\* and every byte that travels is one that some shell wrote.
THEOREM TypeCorrect == Spec => []TypeOK
  BY InitTypeOK, NextTypeOK, PTL DEF Spec

-----------------------------------------------------------------------------
(* Where the slot can spin.                                                *)

\* No block, and one block more.
LEMMA NoBlocks == FillBlocks(<<>>)
<1>1. Len(<<>>) = 0 /\ 0 \in 0..0 /\ 0 = 0 * BlockSize
  BY ConstantsAssumption
<1> QED
  BY <1>1 DEF FillBlocks

LEMMA OneBlockMore ==
  ASSUME NEW s \in Seq(Bytes), NEW r \in Seq(Bytes), FillBlocks(s),
         Len(r) = Len(s) + BlockSize
  PROVE  FillBlocks(r)
<1>1. Len(s) \in Nat /\ BlockSize \in Nat /\ BlockSize >= 1
  BY LenProperties, ConstantsAssumption
<1>2. PICK k \in 0..Len(s) : Len(s) = k * BlockSize
  BY DEF FillBlocks
<1>3. k \in Nat /\ k + 1 <= Len(r)
  BY <1>1, <1>2
<1>4. (k + 1) * BlockSize = k * BlockSize + BlockSize
  BY <1>1, <1>3
<1>5. k + 1 \in 0..Len(r) /\ Len(r) = (k + 1) * BlockSize
  BY <1>1, <1>2, <1>3, <1>4
<1> QED
  BY <1>5 DEF FillBlocks

LEMMA InitSpinInv == Init => SpinInv
<1> SUFFICES ASSUME Init PROVE SpinInv
  OBVIOUS
<1>1. SlotIsConnected /\ SlotReadsBlocks /\ ReadyHasData
  BY DEF Init, SlotIsConnected, SlotReadsBlocks, ReadyHasData
<1> QED
  BY <1>1, InitTypeOK, InitDangleInv DEF SpinInv

\* createProcess() while the slot runs in another thread: the notifier it may
\* disconnect is its own, and the descriptor it leaves is its own or none.  The
\* notifier that was connected before belongs to an earlier terminal then.
LEMMA CreateSpin ==
  ASSUME SpinInv, NEW rung \in Rungs, NEW started \in BOOLEAN,
         NEW alive \in BOOLEAN, CreateProcess(rung, started, alive)
  PROVE  SlotIsConnected' /\ SlotReadsBlocks' /\ ReadyHasData'
<1> DEFINE g == starts + 1
           notified == rung \in {"resize", "ok"}
           running == IF notified /\ started THEN g ELSE 0
           n == IF notified THEN g ELSE notify
           lives == IF notified THEN live \cup {g} ELSE live
<1>1. /\ starts' = g /\ caller = "idle" /\ shell = 0
      /\ UNCHANGED <<tty, slot, readData, grown, caller, ready>>
      /\ endedAlone \subseteq endedAlone'
  BY DEF CreateProcess, MayCreate, slotVars, callVars
<1>2. /\ starts \in Nat /\ g \notin live /\ g \notin ready /\ g # 0
      /\ 0 \notin live /\ live \subseteq 1..g /\ ready \subseteq 1..g
  BY ConstantsAssumption DEF SpinInv, TypeOK, SlotIsConnected
<1>3. /\ live \subseteq live' /\ live' \subseteq live \cup {g}
      /\ master' \in {0, g}
  <2>1. CASE rung = "ok"
    <3>1. master' = g /\ live' = lives
      BY <2>1 DEF CreateProcess
    <3> QED
      BY <3>1
  <2>2. CASE rung # "ok"
    <3>1. Stop(MasterAt(rung, g), SlaveAt(rung, g), OpenAt(rung, g), n,
               running, lives, alive)
      BY <2>2 DEF CreateProcess
    <3>2. master' = 0 /\ live' = IF running # 0 THEN lives \ {n} ELSE lives
      BY <3>1 DEF Stop
    <3> QED
      BY <1>2, <3>2
  <2> QED
    BY <2>1, <2>2
<1>4. slot # 0 => slot \in live
  BY <1>1 DEF SpinInv, SlotIsConnected
<1>5. g \in 1..g
  BY <1>2
<1>6. SlotIsConnected'
  BY <1>1, <1>2, <1>3, <1>4, <1>5 DEF SlotIsConnected
<1>7. SlotReadsBlocks'
  BY <1>1 DEF SpinInv, SlotReadsBlocks, FillBlocks
<1>8. \A h \in live : h \in endedAlone
  <2> SUFFICES ASSUME NEW h \in live PROVE h \in endedAlone
    OBVIOUS
  <2>1. h \in Gens /\ h # 0
    BY <1>2 DEF SpinInv, TypeOK
  <2>2. CASE h = master
    BY <1>1, <2>1, <2>2 DEF SpinInv, DangleInv, MembersCurrent
  <2>3. CASE h # master
    BY <2>1, <2>3 DEF SpinInv, DangleInv, NothingDangles
  <2> QED
    BY <2>2, <2>3
<1>9. live # {} => StaleNotifier'
  <2> SUFFICES ASSUME NEW h \in live PROVE StaleNotifier'
    OBVIOUS
  <2>1. h \in live' /\ h \in endedAlone' /\ h # master'
    BY <1>1, <1>2, <1>3, <1>8
  <2> QED
    BY <2>1 DEF StaleNotifier
<1>10. CASE live = {}
  <2>1. slot' = 0 /\ ready' \cap live' = {}
    BY <1>1, <1>2, <1>3, <1>4, <1>10
  <2> QED
    BY <1>6, <1>7, <2>1 DEF ReadyHasData
<1> QED
  BY <1>6, <1>7, <1>9, <1>10 DEF ReadyHasData

\* The slot goes on only after a full block.
LEMMA SlotReadSpin ==
  ASSUME SpinInv, SlotRead
  PROVE  SlotReadsBlocks' /\ ReadyHasData'
<1> DEFINE n == Least(BlockSize, Len(tty[master]))
<1>1. /\ master # 0 /\ slot # 0 /\ grown = <<>> /\ TypeOK
      /\ readData \in Seq(Bytes) /\ FillBlocks(readData) /\ tty[master] # <<>>
      /\ readData' = readData \o Taken(n)
      /\ n = BlockSize \/ grown' = readBuffer \o readData'
      /\ UNCHANGED <<live, endedAlone, master, ready, slot, readBuffer>>
  BY DEF SlotRead, SlotKeeps, SlotLoops, AppendBegins, descriptors, SpinInv,
         SlotReadsBlocks, TypeOK
<1>2. tty[master] \in Seq(1..MaxBytes)
  BY <1>1, ConstantsAssumption DEF TypeOK, Gens
<1>3. n \in Nat /\ n <= Len(tty[master]) /\ n # 0
  <2>1. Len(tty[master]) \in Nat /\ Len(tty[master]) # 0
    BY <1>1, <1>2, LenProperties, EmptySeq
  <2> QED
    BY <2>1, LeastType
<1> HIDE DEF n
<1>4. Taken(n) \in Seq(Bytes) /\ Len(Taken(n)) = n
  BY <1>1, <1>3, TakenType
<1>5. /\ Len(readData') = Len(readData) + n /\ Len(readData) \in Nat
      /\ readData' \in Seq(Bytes)
  BY <1>1, <1>4, ConcatProperties, LenProperties
<1>6. readData' # <<>>
  BY <1>3, <1>5
<1>7. StaleNotifier => StaleNotifier'
  BY <1>1 DEF StaleNotifier
<1>8. ReadyHasData'
  <2>1. StaleNotifier \/ ready \cap live = {}
    BY <1>1 DEF SpinInv, ReadyHasData
  <2> QED
    BY <1>1, <1>6, <1>7, <2>1 DEF ReadyHasData
<1>9. CASE n = BlockSize
  <2>1. FillBlocks(readData')
    BY <1>1, <1>5, <1>9, OneBlockMore
  <2> QED
    BY <1>8, <2>1 DEF SlotReadsBlocks, FillBlocks
<1>10. CASE grown' = readBuffer \o readData'
  <2>1. readBuffer \in Seq(Bytes)
    BY <1>1 DEF TypeOK
  <2>2. /\ Len(readBuffer \o readData') = Len(readBuffer) + Len(readData')
        /\ Len(readBuffer) \in Nat
    BY <1>5, <2>1, ConcatProperties, LenProperties
  <2>3. grown' # <<>>
    BY <1>3, <1>5, <1>10, <2>2
  <2> QED
    BY <1>8, <2>3 DEF SlotReadsBlocks
<1> QED
  BY <1>1, <1>9, <1>10

\* A step of the caller, of the event loop or of the shell.
LEMMA OthersSpin ==
  ASSUME SlotIsConnected, SlotReadsBlocks, ReadyHasData,
         caller # "destroyed", endedAlone \subseteq endedAlone',
         UNCHANGED <<starts, live, ready, slot, readData, grown, master, tty>>
  PROVE  SlotIsConnected' /\ SlotReadsBlocks' /\ ReadyHasData'
<1>1. StaleNotifier => StaleNotifier'
  BY DEF StaleNotifier
<1>2. SlotIsConnected'
  BY DEF SlotIsConnected
<1>3. SlotReadsBlocks'
  BY DEF SlotReadsBlocks, FillBlocks
<1>4. ReadyHasData'
  BY <1>1 DEF ReadyHasData
<1> QED
  BY <1>2, <1>3, <1>4

\* The notifier of the present terminal is the only one that is connected,
\* unless there is one of an earlier terminal.
LEMMA OnlyPresent ==
  ASSUME SpinInv, ~StaleNotifier
  PROVE  \A g \in live : g = master
  BY DEF SpinInv, TypeOK, DangleInv, NothingDangles, StaleNotifier

LEMMA NextSpinInv == SpinInv /\ [Next]_vars => SpinInv'
<1> SUFFICES ASSUME SpinInv, [Next]_vars PROVE SpinInv'
  OBVIOUS
<1>0. /\ TypeOK /\ TypeOK' /\ DangleInv' /\ SlotIsConnected
      /\ SlotReadsBlocks /\ ReadyHasData
  BY NextTypeOK, NextDangleInv DEF SpinInv
<1> DEFINE Kept == SlotIsConnected' /\ SlotReadsBlocks' /\ ReadyHasData'
<1> SUFFICES Kept
  BY <1>0 DEF SpinInv
<1> DEFINE Goes == caller # "destroyed"
<1>1. CASE \E rung \in Rungs, started, alive \in BOOLEAN :
             CreateProcess(rung, started, alive)
  BY <1>1, CreateSpin
<1>2. CASE \E alive \in BOOLEAN : Destroy(alive)
  <2>1. /\ caller' = "destroyed" /\ master' = 0 /\ live' = {} /\ ready' = {}
        /\ UNCHANGED <<slot, readData, grown>>
    BY <1>2 DEF Destroy, slotVars
  <2>2. SlotIsConnected' /\ ReadyHasData'
    BY <2>1 DEF SlotIsConnected, ReadyHasData
  <2>3. SlotReadsBlocks'
    BY <1>0, <2>1 DEF SlotReadsBlocks, FillBlocks
  <2> QED
    BY <2>2, <2>3
<1>3. CASE Goes /\ (DeferredDelete \/ MoveToThread \/ ReadAllCopy
                    \/ ReadAllClear \/ ShellExits)
  <2>1. /\ UNCHANGED <<starts, live, ready, slot, readData, grown, master, tty>>
        /\ endedAlone \subseteq endedAlone'
    BY <1>3 DEF DeferredDelete, MoveToThread, ReadAllCopy, ReadAllClear,
                ShellExits, descriptors, slotVars
  <2> QED
    BY <1>0, <1>3, <2>1, OthersSpin
<1>4. CASE SlotRead
  <2>1. SlotReadsBlocks' /\ ReadyHasData'
    BY <1>4, SlotReadSpin
  <2>2. UNCHANGED <<starts, live, ready, caller, master, slot>>
    BY <1>4 DEF SlotRead, SlotKeeps, AppendBegins, SlotLoops, descriptors
  <2> QED
    BY <1>0, <2>1, <2>2 DEF SlotIsConnected
<1>5. CASE SlotFails \/ AppendEnds
  <2>1. /\ UNCHANGED <<starts, live, ready, caller, master, tty, endedAlone>>
        /\ slot # 0
        /\ \/ slot' = 0
           \/ /\ UNCHANGED <<slot, readData>> /\ master = 0
              /\ grown' = readBuffer \o readData /\ readData # <<>>
    BY <1>5 DEF SlotFails, AppendEnds, SlotKeeps, AppendBegins, descriptors
  <2>2. SlotIsConnected'
    BY <1>0, <2>1 DEF SlotIsConnected
  <2>3. StaleNotifier => StaleNotifier'
    BY <2>1 DEF StaleNotifier
  <2>4. ReadyHasData'
    <3>1. StaleNotifier \/ ready \cap live = {}
      BY <1>0, <2>1 DEF ReadyHasData
    <3> QED
      BY <2>1, <2>3, <3>1 DEF ReadyHasData
  <2>5. ASSUME slot' # 0 PROVE grown' # <<>>
    <3>1. readBuffer \in Seq(Bytes) /\ readData \in Seq(Bytes)
      BY <1>0 DEF TypeOK
    <3>2. /\ Len(readBuffer \o readData) = Len(readBuffer) + Len(readData)
          /\ Len(readBuffer) \in Nat /\ Len(readData) \in Nat
      BY <3>1, ConcatProperties, LenProperties
    <3>3. Len(readData) # 0
      BY <2>1, <2>5, <3>1, EmptySeq
    <3> QED
      BY <2>1, <2>5, <3>2, <3>3
  <2> QED
    BY <2>2, <2>4, <2>5 DEF SlotReadsBlocks
<1>6. ASSUME NEW g \in Gens, Activated(g)
      PROVE  Kept
  <2>1. /\ UNCHANGED <<starts, live, caller, master, tty, endedAlone>>
        /\ slot = 0 /\ slot' = g /\ g \in live /\ g \in ready
        /\ ready' = ready \ {g} /\ readData' = <<>>
    BY <1>6 DEF Activated, descriptors, callVars
  <2>2. FillBlocks(readData')
    BY <2>1, NoBlocks
  <2>3. SlotIsConnected' /\ SlotReadsBlocks'
    BY <1>0, <2>1, <2>2 DEF SlotIsConnected, SlotReadsBlocks, FillBlocks
  <2>4. StaleNotifier => StaleNotifier'
    BY <2>1 DEF StaleNotifier
  <2>5. CASE ~StaleNotifier
    <3>1. tty[master] # <<>> /\ ready' \cap live = {}
      BY <1>0, <2>1, <2>5, OnlyPresent DEF ReadyHasData
    <3> QED
      BY <2>1, <2>3, <3>1 DEF ReadyHasData
  <2> QED
    BY <2>3, <2>4, <2>5 DEF ReadyHasData
<1>7. ASSUME NEW g \in Gens, ShellWrites(g)
      PROVE  Kept
  <2>1. /\ UNCHANGED <<starts, live, ready, caller, master, slot, readData,
                       grown, endedAlone>>
        /\ tty' = [tty EXCEPT ![g] = Append(@, written[g] + 1)]
    BY <1>7 DEF ShellWrites, descriptors, slotVars, callVars
  <2>2. SlotIsConnected'
    BY <1>0, <2>1 DEF SlotIsConnected
  <2>3. Append(tty[g], written[g] + 1) # <<>>
    <3> DEFINE s == tty[g]
               x == written[g] + 1
    <3>1. s \in Seq(1..MaxBytes) /\ x \in 1..MaxBytes
      BY <1>0, <1>7, ConstantsAssumption DEF TypeOK, ShellWrites
    <3> HIDE DEF s, x
    <3>2. Append(s, x) # <<>>
      BY <3>1
    <3> QED
      BY <3>2 DEF s, x
  <2>4. ASSUME master # 0, tty[master] # <<>>
        PROVE  tty'[master] # <<>>
    <3>1. master \in Gens /\ tty \in [Gens -> Seq(1..MaxBytes)]
      BY <1>0, <2>4, ConstantsAssumption DEF TypeOK, Gens
    <3>2. CASE master = g
      BY <2>1, <2>3, <3>1, <3>2
    <3>3. CASE master # g
      BY <2>1, <2>4, <3>1, <3>3
    <3> QED
      BY <3>2, <3>3
  <2>5. StaleNotifier => StaleNotifier'
    BY <2>1 DEF StaleNotifier
  <2>6. ~StaleNotifier /\ ready \cap live # {} => master # 0
    <3>1. \A h \in live : h # 0
      BY <1>0, ConstantsAssumption DEF TypeOK, Gens
    <3> QED
      BY <3>1, OnlyPresent
  <2>7. SlotReadsBlocks'
    BY <1>0, <2>1 DEF SlotReadsBlocks, FillBlocks
  <2>8. ReadyHasData'
    BY <1>0, <2>1, <2>4, <2>5, <2>6 DEF ReadyHasData
  <2> QED
    BY <2>2, <2>7, <2>8
<1>8. CASE UNCHANGED vars
  <2>1. UNCHANGED <<starts, live, ready, caller, master, slot, readData, grown,
                    endedAlone, tty>>
    BY <1>8 DEF vars
  <2> QED
    BY <1>0, <2>1 DEF SlotIsConnected, SlotReadsBlocks, FillBlocks,
                      ReadyHasData, StaleNotifier
<1>9. CASE Poll
  <2>1. /\ UNCHANGED <<starts, live, caller, master, slot, readData, grown, open,
                       tty, endedAlone>>
        /\ slot = 0
        /\ \A g \in ready' : /\ g \in live
                             /\ <<"master", g>> \in open => tty[g] # <<>>
    BY <1>9 DEF Poll, descriptors, slotVars, callVars
  <2>2. SlotIsConnected' /\ SlotReadsBlocks'
    <3>1. ready' \subseteq live
      BY <2>1
    <3>2. SlotIsConnected'
      BY <1>0, <2>1, <3>1 DEF SlotIsConnected
    <3>3. SlotReadsBlocks'
      BY <2>1 DEF SlotReadsBlocks
    <3> QED
      BY <3>2, <3>3
  <2>3. StaleNotifier => StaleNotifier'
    BY <2>1 DEF StaleNotifier
  <2>4. ASSUME ~StaleNotifier, NEW g \in ready' PROVE tty[master] # <<>>
    <3>0. \A h \in live : h = master
      BY <2>4, OnlyPresent
    <3>1. g = master /\ g \in live
      BY <2>1, <2>4, <3>0
    <3>2. <<"master", g>> \in open
      BY <3>1, ConstantsAssumption DEF Gens, SpinInv, DangleInv, MembersCurrent, TypeOK
    <3> QED
      BY <2>1, <2>4, <3>1, <3>2
  <2> QED
    BY <2>1, <2>2, <2>3, <2>4 DEF ReadyHasData
<1> QED
  BY <1>1, <1>2, <1>3, <1>4, <1>5, <1>6, <1>7, <1>8, <1>9
     DEF Next, SlotContinues, Spin, Halted

\* The slot spins on EAGAIN only when what it has read fills whole blocks, and
\* with nothing read only while the notifier of an earlier terminal, whose
\* shell ended or failed by itself, is still connected.
THEOREM SpinsOnlyOnFullBlocks == Spec => []SpinsOnFullBlocks
<1>1. SpinInv => SpinsOnFullBlocks
  BY DEF SpinInv, SpinsOnFullBlocks, Spinning, SlotReadsBlocks, ReadyHasData
<1> QED
  BY <1>1, InitSpinInv, NextSpinInv, PTL DEF Spec

-----------------------------------------------------------------------------
(* What becomes of the output.                                             *)

\* Three sequences in a row.
LEMMA ThreeInARow ==
  ASSUME NEW d \in Seq(Bytes), NEW b \in Seq(Bytes), NEW r \in Seq(Bytes)
  PROVE  /\ d \o b \o r \in Seq(Bytes)
         /\ Len(d \o b \o r) = Len(d) + Len(b) + Len(r)
         /\ \A i \in 1..(Len(d) + Len(b) + Len(r)) :
              (d \o b \o r)[i] =
                IF i <= Len(d) THEN d[i]
                ELSE IF i <= Len(d) + Len(b) THEN b[i - Len(d)]
                ELSE r[i - Len(d) - Len(b)]
<1> DEFINE p == d \o b
<1>1. /\ Len(d) \in Nat /\ Len(b) \in Nat /\ Len(r) \in Nat
      /\ p \in Seq(Bytes) /\ Len(p) = Len(d) + Len(b)
      /\ \A i \in 1..Len(p) : p[i] = IF i <= Len(d) THEN d[i] ELSE b[i - Len(d)]
  BY ConcatProperties, LenProperties
<1> HIDE DEF p
<1>2. /\ p \o r \in Seq(Bytes) /\ Len(p \o r) = Len(p) + Len(r)
      /\ \A i \in 1..(Len(p) + Len(r)) :
           (p \o r)[i] = IF i <= Len(p) THEN p[i] ELSE r[i - Len(p)]
  <2>1. p \in Seq(Bytes)
    BY <1>1
  <2> QED
    BY <2>1, ConcatProperties
<1>3. ASSUME NEW i \in 1..(Len(d) + Len(b) + Len(r))
      PROVE  (p \o r)[i] = IF i <= Len(d) THEN d[i]
                           ELSE IF i <= Len(d) + Len(b) THEN b[i - Len(d)]
                           ELSE r[i - Len(d) - Len(b)]
  <2>1. CASE i <= Len(d) + Len(b)
    <3>1. i \in 1..Len(p) /\ i \in 1..(Len(p) + Len(r)) /\ i <= Len(p)
      BY <1>1, <2>1
    <3>2. (p \o r)[i] = p[i]
      BY <1>2, <3>1
    <3> QED
      BY <1>1, <2>1, <3>1, <3>2
  <2>2. CASE ~(i <= Len(d) + Len(b))
    <3>1. /\ i \in 1..(Len(p) + Len(r)) /\ ~(i <= Len(p)) /\ ~(i <= Len(d))
          /\ i - Len(p) = i - Len(d) - Len(b)
      BY <1>1, <2>2
    <3>2. (p \o r)[i] = r[i - Len(p)]
      BY <1>2, <3>1
    <3> QED
      BY <2>2, <3>1, <3>2
  <2> QED
    BY <2>1, <2>2
<1>4. Len(p \o r) = Len(d) + Len(b) + Len(r)
  BY <1>1, <1>2
<1> QED
  BY <1>2, <1>3, <1>4 DEF p

\* n bytes more from the terminal of g, of which c were read before.
LEMMA BytesAdded ==
  ASSUME NEW s \in Seq(Bytes), NEW t \in Seq(Bytes), InOrder(s),
         NEW g \in Gens, NEW c \in Nat,
         \A i \in 1..Len(t) : t[i] = <<g, c + i>>,
         \A i \in DOMAIN s : s[i][1] = g => s[i][2] <= c
  PROVE  /\ InOrder(s \o t)
         /\ \A i \in DOMAIN s : i \in DOMAIN (s \o t) /\ (s \o t)[i] = s[i]
         /\ \A i \in 1..Len(t) : /\ Len(s) + i \in DOMAIN (s \o t)
                                 /\ (s \o t)[Len(s) + i] = <<g, c + i>>
         /\ \A i \in DOMAIN (s \o t) : \/ i \in DOMAIN s
                                       \/ i - Len(s) \in 1..Len(t)
<1> DEFINE u == s \o t
<1>1. /\ Len(s) \in Nat /\ Len(t) \in Nat /\ DOMAIN s = 1..Len(s)
      /\ u \in Seq(Bytes) /\ Len(u) = Len(s) + Len(t)
      /\ \A i \in 1..Len(u) : u[i] = IF i <= Len(s) THEN s[i] ELSE t[i - Len(s)]
  BY ConcatProperties, LenProperties
<1>2. DOMAIN u = 1..(Len(s) + Len(t))
  BY <1>1
<1> HIDE DEF u
<1>3. ASSUME NEW i \in DOMAIN s PROVE i \in DOMAIN u /\ u[i] = s[i]
  BY <1>1, <1>2
<1>4. ASSUME NEW i \in 1..Len(t)
      PROVE  /\ Len(s) + i \in DOMAIN u
             /\ u[Len(s) + i] = <<g, c + i>>
  <2>1. /\ Len(s) + i \in 1..Len(u) /\ ~(Len(s) + i <= Len(s))
        /\ (Len(s) + i) - Len(s) = i
    BY <1>1
  <2> DEFINE k == Len(s) + i
  <2>2. k \in 1..Len(u) /\ ~(k <= Len(s)) /\ k - Len(s) = i
    BY <2>1
  <2> HIDE DEF k
  <2>3. u[k] = t[i]
    BY <1>1, <2>2
  <2> QED
    BY <1>1, <1>2, <2>2, <2>3 DEF k
<1>5. ASSUME NEW i \in DOMAIN u PROVE i \in DOMAIN s \/ i - Len(s) \in 1..Len(t)
  BY <1>1, <1>2
<1>6. ASSUME NEW i \in DOMAIN u, NEW j \in DOMAIN u, i < j, u[i][1] = u[j][1]
      PROVE  u[i][2] < u[j][2]
  <2>0. i \in Nat /\ j \in Nat
    BY <1>1, <1>2
  <2>1. CASE j \in DOMAIN s
    <3>1. i \in DOMAIN s
      BY <1>1, <1>2, <1>6, <2>1
    <3>2. u[i] = s[i] /\ u[j] = s[j]
      BY <1>3, <2>1, <3>1
    <3> QED
      BY <1>6, <2>1, <3>1, <3>2 DEF InOrder
  <2>2. CASE j - Len(s) \in 1..Len(t)
    <3> DEFINE m == j - Len(s)
    <3>1. m \in 1..Len(t) /\ Len(s) + m = j /\ m \in Nat
      BY <1>1, <2>0, <2>2
    <3> HIDE DEF m
    <3>2. u[j] = <<g, c + m>>
      BY <1>4, <3>1
    <3>3. CASE i \in DOMAIN s
      <4>1. s[i][2] <= c /\ s[i] \in Bytes /\ u[i] = s[i]
        BY <1>1, <1>3, <1>6, <3>2, <3>3, ElementOfSeq
      <4>2. s[i][2] \in Nat
        BY <4>1 DEF Bytes
      <4> QED
        BY <3>1, <3>2, <4>1, <4>2
    <3>4. CASE i - Len(s) \in 1..Len(t)
      <4> DEFINE l == i - Len(s)
      <4>1. l \in 1..Len(t) /\ Len(s) + l = i /\ l \in Nat
        BY <1>1, <2>0, <3>4
      <4> HIDE DEF l
      <4>2. u[i] = <<g, c + l>>
        BY <1>4, <4>1
      <4>3. l < m
        BY <1>1, <1>6, <3>1, <4>1
      <4> QED
        BY <3>1, <3>2, <4>1, <4>2, <4>3
    <3> QED
      BY <1>5, <3>3, <3>4
  <2> QED
    BY <1>5, <2>1, <2>2
<1>7. InOrder(u)
  BY <1>6 DEF InOrder
<1> QED
  BY <1>3, <1>4, <1>5, <1>7 DEF u

LEMMA InitIntactInv == Init => IntactInv
<1> SUFFICES ASSUME Init PROVE IntactInv
  OBVIOUS
<1>1. Output = <<>>
  BY DEF Init, Output
<1>2. \A g \in Gens : Len(tty[g]) = 0 /\ written[g] = 0
  BY DEF Init
<1>3. CallsApart
  BY DEF Init, CallsApart
<1>4. TtyIsTheRest
  BY <1>2 DEF TtyIsTheRest
<1>5. OutputIsRead
  BY <1>1, <1>2 DEF OutputIsRead, InOrder, ReadFrom
<1> QED
  BY <1>3, <1>4, <1>5, InitTypeOK DEF IntactInv

\* A step that moves no byte.
LEMMA OutputStays ==
  ASSUME TtyIsTheRest, ~raced => OutputIsRead, UNCHANGED <<tty, written>>,
         ~raced' => ~raced /\ Output' = Output
  PROVE  TtyIsTheRest' /\ (~raced' => OutputIsRead')
<1>1. \A g : ReadFrom(g)' = ReadFrom(g)
  BY DEF ReadFrom
<1>2. TtyIsTheRest'
  BY <1>1 DEF TtyIsTheRest
<1>3. ASSUME ~raced' PROVE OutputIsRead'
  BY <1>1, <1>3 DEF OutputIsRead
<1> QED
  BY <1>2, <1>3

\* read() of the slot.
LEMMA SlotReadIntact ==
  ASSUME IntactInv, TypeOK', SlotRead
  PROVE  IntactInv'
<1> DEFINE n == Least(BlockSize, Len(tty[master]))
           data == readData \o Taken(n)
           c == ReadFrom(master)
           New(g) == written'[g] - Len(tty'[g])
<1>1. master # 0 /\ slot # 0 /\ TypeOK
  BY DEF SlotRead, IntactInv
<1>2. /\ tty[master] \in Seq(1..MaxBytes) /\ master \in Gens
      /\ written[master] \in Nat
  <2>1. master \in Gens
    BY <1>1, ConstantsAssumption DEF TypeOK, Gens
  <2> QED
    BY <1>1, <2>1 DEF TypeOK
<1>3. n \in Nat /\ n <= Len(tty[master]) /\ Len(tty[master]) \in Nat
  BY <1>2, LeastType, LenProperties
<1>4. tty' = [tty EXCEPT ![master] = SubSeq(tty[master], n + 1, Len(tty[master]))]
  BY DEF SlotRead
<1>5. /\ readData' = data /\ UNCHANGED slot /\ grown = <<>>
      /\ \/ UNCHANGED <<grown, raced>>
         \/ grown' = readBuffer \o data /\ raced' = (raced \/ caller = "copied")
  BY DEF SlotRead, SlotLoops, AppendBegins
<1>6. UNCHANGED <<master, written, readBuffer, caller, copy, delivered, moved>>
  BY DEF SlotRead, SlotKeeps, descriptors
<1> HIDE DEF n
<1>7. /\ Taken(n) \in Seq(Bytes) /\ Len(Taken(n)) = n
      /\ \A i \in 1..n : Taken(n)[i] = <<master, tty[master][i]>>
  BY <1>1, <1>3, TakenType
<1>8. /\ readData \in Seq(Bytes) /\ readBuffer \in Seq(Bytes)
      /\ delivered \in Seq(Bytes) /\ copy \in Seq(Bytes) /\ <<>> \in Seq(Bytes)
  BY <1>1 DEF TypeOK
<1>9. Output' = Output \o Taken(n) /\ Output \in Seq(Bytes)
  <2> DEFINE p == delivered \o readBuffer
             bytes == Taken(n)
  <2>1. p \in Seq(Bytes) /\ data \in Seq(Bytes) /\ bytes \in Seq(Bytes)
    BY <1>7, <1>8, ConcatProperties
  <2>2. (p \o readData) \o bytes = p \o data /\ p \o readData \in Seq(Bytes)
    <3>1. data = readData \o bytes
      OBVIOUS
    <3> HIDE DEF p, bytes, data
    <3>2. (p \o readData) \o bytes = p \o (readData \o bytes)
      <4>1. p \in Seq(Bytes) /\ readData \in Seq(Bytes) /\ bytes \in Seq(Bytes)
        BY <1>8, <2>1
      <4> QED
        BY <4>1, ConcatAssociative
    <3>3. p \o readData \in Seq(Bytes)
      BY <1>8, <2>1, ConcatProperties
    <3> QED
      BY <3>1, <3>2, <3>3
  <2>5. Output' = p \o data
    BY <1>5, <1>6 DEF Output
  <2>6. Output = p \o readData
    BY DEF Output
  <2> QED
    BY <2>2, <2>5, <2>6
<1>10. /\ Len(tty[master]) <= written[master] /\ c \in Nat
       /\ \A i \in 1..Len(tty[master]) : tty[master][i] = c + i
  BY <1>2, <1>3 DEF IntactInv, TtyIsTheRest, ReadFrom
<1>11. \A i \in 1..Len(Taken(n)) : Taken(n)[i] = <<master, c + i>>
  <2> SUFFICES ASSUME NEW i \in 1..n PROVE Taken(n)[i] = <<master, c + i>>
    BY <1>7
  <2>1. i \in 1..Len(tty[master])
    BY <1>3
  <2> QED
    BY <1>7, <1>10, <2>1
<1> HIDE DEF c
<1> DEFINE t == Taken(n)
<1> HIDE DEF t
<1>15. /\ New(master) = c + n
       /\ \A g \in Gens \ {master} : New(g) = ReadFrom(g) /\ tty'[g] = tty[g]
       /\ tty'[master] = SubSeq(tty[master], n + 1, Len(tty[master]))
       /\ Len(tty'[master]) = Len(tty[master]) - n
       /\ \A i \in 1..(Len(tty[master]) - n) : tty'[master][i] = tty[master][n + i]
  <2> DEFINE s == tty[master]
  <2>1. s \in Seq(1..MaxBytes) /\ n \in 0..Len(s)
    BY <1>2, <1>3
  <2>2. tty \in [Gens -> Seq(1..MaxBytes)]
    BY <1>1 DEF TypeOK
  <2>3. tty'[master] = SubSeq(s, n + 1, Len(s))
    BY <1>2, <1>4, <2>2
  <2> HIDE DEF s
  <2>4. /\ Len(tty'[master]) = Len(s) - n
        /\ \A i \in 1..(Len(s) - n) : tty'[master][i] = s[n + i]
    BY <2>1, <2>3, RestOf
  <2>5. written'[master] - Len(tty'[master]) = c + n
    BY <1>2, <1>3, <1>6, <2>4 DEF s, c, ReadFrom
  <2>6. \A g \in Gens \ {master} : tty'[g] = tty[g]
    BY <1>2, <1>4, <2>2
  <2> QED
    BY <1>6, <2>3, <2>4, <2>5, <2>6 DEF s, ReadFrom
<1> HIDE DEF New
<1>16. TtyIsTheRest'
  <2> SUFFICES ASSUME NEW g \in Gens
               PROVE  /\ Len(tty'[g]) <= written'[g]
                      /\ \A i \in 1..Len(tty'[g]) : tty'[g][i] = New(g) + i
    BY DEF TtyIsTheRest, ReadFrom, New
  <2>1. CASE g # master
    BY <1>6, <1>15, <2>1 DEF IntactInv, TtyIsTheRest
  <2>2. CASE g = master
    <3>1. Len(tty'[master]) <= written'[master]
      BY <1>2, <1>3, <1>6, <1>10, <1>15
    <3>2. ASSUME NEW i \in 1..Len(tty'[master])
          PROVE  tty'[master][i] = New(master) + i
      <4>1. n + i \in 1..Len(tty[master]) /\ i \in Nat
        BY <1>3, <1>15, <3>2
      <4>2. tty'[master][i] = tty[master][n + i]
        BY <1>15, <3>2
      <4>3. tty[master][n + i] = c + (n + i)
        BY <1>10, <4>1
      <4> QED
        BY <1>3, <1>10, <1>15, <4>1, <4>2, <4>3
    <3>3. \A i \in 1..Len(tty'[master]) : tty'[master][i] = New(master) + i
      BY <3>2
    <3> QED
      BY <2>2, <3>1, <3>3
  <2> QED
    BY <2>1, <2>2
<1>17. ASSUME ~raced' PROVE OutputIsRead'
  <2> DEFINE out == Output \o t
  <2>0. OutputIsRead
    BY <1>5, <1>17 DEF IntactInv
  <2>12. /\ InOrder(Output)
         /\ \A i \in DOMAIN Output : Output[i][2] <= ReadFrom(Output[i][1])
    BY <2>0 DEF OutputIsRead
  <2>13. \A i \in DOMAIN Output : Output[i][1] = master => Output[i][2] <= c
    BY <2>12 DEF c
  <2>14. /\ InOrder(Output \o t)
         /\ \A i \in DOMAIN Output : /\ i \in DOMAIN (Output \o t)
                                     /\ (Output \o t)[i] = Output[i]
         /\ \A i \in 1..n : /\ Len(Output) + i \in DOMAIN (Output \o t)
                            /\ (Output \o t)[Len(Output) + i] = <<master, c + i>>
         /\ \A i \in DOMAIN (Output \o t) : \/ i \in DOMAIN Output
                                            \/ i - Len(Output) \in 1..n
    <3>1. t \in Seq(Bytes) /\ Len(t) = n
      BY <1>7 DEF t
    <3>2. \A i \in 1..Len(t) : t[i] = <<master, c + i>>
      BY <1>11 DEF t
    <3> QED
      BY <1>2, <1>9, <1>10, <2>12, <2>13, <3>1, <3>2, BytesAdded
  <2>1. Output' = out
    BY <1>9 DEF t
  <2>2. InOrder(out)
    BY <2>14
  <2>3. ASSUME NEW i \in DOMAIN out
        PROVE  out[i][2] <= New(out[i][1])
    <3>1. CASE i \in DOMAIN Output
      <4>1. out[i] = Output[i] /\ Output[i] \in Bytes
        BY <1>9, <2>14, <3>1, ElementOfSeq
      <4>2. Output[i][1] \in Gens /\ Output[i][2] \in Nat
        BY <4>1 DEF Bytes
      <4>3. CASE Output[i][1] = master
        <5>1. Output[i][2] <= c
          BY <2>13, <3>1, <4>3
        <5>2. out[i][1] = master /\ out[i][2] = Output[i][2] /\ New(master) = c + n
          BY <1>15, <4>1, <4>3
        <5>3. Output[i][2] <= c + n
          BY <1>3, <1>10, <4>2, <5>1
        <5> QED
          BY <5>2, <5>3
      <4>4. CASE Output[i][1] # master
        <5>1. New(Output[i][1]) = ReadFrom(Output[i][1])
          BY <1>15, <4>2, <4>4
        <5>2. Output[i][2] <= ReadFrom(Output[i][1])
          BY <2>12, <3>1
        <5> QED
          BY <4>1, <5>1, <5>2
      <4> QED
        BY <4>3, <4>4
    <3>2. CASE i - Len(Output) \in 1..n
      <4> DEFINE k == i - Len(Output)
      <4>1. Len(Output) \in Nat /\ DOMAIN out = 1..Len(out)
        <5>1. t \in Seq(Bytes)
          BY <1>7 DEF t
        <5>2. out \in Seq(Bytes)
          BY <1>9, <5>1, ConcatProperties
        <5> QED
          BY <1>9, <5>2, LenProperties
      <4>2. k \in 1..n /\ Len(Output) + k = i
        BY <3>2, <4>1
      <4> HIDE DEF k
      <4>3. out[i] = <<master, c + k>>
        BY <2>14, <4>2
      <4>4. out[i][1] = master /\ out[i][2] = c + k /\ New(master) = c + n
        BY <1>15, <4>3
      <4>5. c + k <= c + n
        BY <1>3, <1>10, <4>2
      <4> QED
        BY <4>4, <4>5
    <3> QED
      BY <2>14, <3>1, <3>2
  <2>4. ASSUME NEW g \in Gens, NEW m \in 1..New(g)
        PROVE  \E i \in DOMAIN out : out[i] = <<g, m>>
    <3>1. CASE m \in 1..ReadFrom(g)
      <4>1. PICK i \in DOMAIN Output : Output[i] = <<g, m>>
        BY <2>0, <3>1 DEF OutputIsRead
      <4> QED
        BY <2>14, <4>1
    <3>2. CASE m \notin 1..ReadFrom(g)
      <4>1. g = master
        BY <1>15, <2>4, <3>2
      <4>2. m \in 1..(c + n) /\ m \notin 1..c
        <5>1. New(g) = c + n /\ ReadFrom(g) = c
          BY <1>15, <4>1 DEF c
        <5> QED
          BY <2>4, <3>2, <5>1
      <4>3. m - c \in 1..n /\ c + (m - c) = m
        BY <1>3, <1>10, <4>2
      <4> DEFINE k == m - c
      <4>4. k \in 1..n /\ c + k = m
        BY <4>3
      <4> HIDE DEF k
      <4>5. Len(Output) + k \in DOMAIN out /\ out[Len(Output) + k] = <<master, c + k>>
        BY <2>14, <4>4
      <4> QED
        BY <4>1, <4>4, <4>5
    <3> QED
      BY <3>1, <3>2
  <2> HIDE DEF out
  <2>5. InOrder(Output')
    BY <2>1, <2>2
  <2>6. \A i \in DOMAIN Output' : Output'[i][2] <= New(Output'[i][1])
    BY <2>1, <2>3
  <2>7. \A g \in Gens : \A m \in 1..New(g) :
          \E i \in DOMAIN Output' : Output'[i] = <<g, m>>
    BY <1>6, <2>1, <2>4
  <2> QED
    BY <2>5, <2>6, <2>7 DEF OutputIsRead, InOrder, ReadFrom, New
<1>18. CallsApart'
  <2>1. CASE UNCHANGED <<grown, raced>>
    BY <1>1, <1>5, <1>6, <2>1 DEF IntactInv, CallsApart
  <2>2. CASE grown' = readBuffer \o data /\ raced' = (raced \/ caller = "copied")
    <3>1. (raced => moved) /\ (caller = "copied" => slot = 0 \/ moved)
      BY DEF IntactInv, CallsApart
    <3>2. grown' = readBuffer' \o readData'
      BY <1>5, <1>6, <2>2
    <3>3. raced' => raced \/ caller = "copied"
      BY <2>2
    <3>4. ~raced' => caller # "copied"
      BY <2>2
    <3>5. (raced' => moved') /\ slot' # 0
      BY <1>1, <1>5, <1>6, <3>1, <3>3
    <3> QED
      BY <1>5, <1>6, <3>1, <3>2, <3>4, <3>5 DEF CallsApart
  <2> QED
    BY <1>5, <2>1, <2>2
<1> QED
  BY <1>16, <1>17, <1>18 DEF IntactInv

\* The end of a slot whose read() fails.
LEMMA SlotFailsIntact ==
  ASSUME IntactInv, TypeOK', SlotFails
  PROVE  IntactInv'
<1>1. /\ slot # 0 /\ grown = <<>>
      /\ \/ slot' = 0 /\ readData = <<>> /\ UNCHANGED <<grown, raced>>
         \/ /\ grown' = readBuffer \o readData /\ UNCHANGED slot
            /\ raced' = (raced \/ caller = "copied")
      /\ UNCHANGED <<tty, written, readData, readBuffer, caller, copy,
                     delivered, moved>>
  BY DEF SlotFails, AppendBegins, SlotKeeps
<1>2. Output' = Output
  BY <1>1 DEF Output
<1>3. TtyIsTheRest' /\ (~raced' => OutputIsRead')
  <2>1. ~raced' => ~raced
    BY <1>1
  <2> QED
    BY <1>1, <1>2, <2>1, OutputStays DEF IntactInv
<1>4. CallsApart'
  <2>1. CASE slot' = 0 /\ readData = <<>> /\ UNCHANGED <<grown, raced>>
    BY <1>1, <2>1 DEF IntactInv, CallsApart
  <2>2. CASE /\ grown' = readBuffer \o readData /\ UNCHANGED slot
             /\ raced' = (raced \/ caller = "copied")
    <3>1. (raced => moved) /\ (caller = "copied" => slot = 0 \/ moved)
      BY DEF IntactInv, CallsApart
    <3>2. (raced' => raced \/ caller = "copied") /\ (~raced' => caller # "copied")
      BY <2>2
    <3>3. raced' => moved'
      BY <1>1, <3>1, <3>2
    <3> QED
      BY <1>1, <2>2, <3>1, <3>2, <3>3 DEF CallsApart
  <2> QED
    BY <1>1, <2>1, <2>2
<1> QED
  BY <1>3, <1>4 DEF IntactInv

\* The end of an append that no readAll() has overlapped.
LEMMA AppendEndsIntact ==
  ASSUME IntactInv, TypeOK', AppendEnds
  PROVE  IntactInv'
<1>1. /\ slot # 0 /\ grown # <<>> /\ readBuffer' = grown
      /\ slot' = 0 /\ readData' = <<>> /\ grown' = <<>>
      /\ UNCHANGED <<tty, written, raced, caller, copy, delivered, moved>>
  BY DEF AppendEnds, SlotKeeps
<1>2. CallsApart'
  BY <1>1 DEF IntactInv, CallsApart
<1>3. ASSUME ~raced PROVE Output' = Output
  <2> DEFINE p == delivered \o readBuffer
  <2>1. /\ readData \in Seq(Bytes) /\ readBuffer \in Seq(Bytes)
        /\ delivered \in Seq(Bytes)
    BY DEF IntactInv, TypeOK
  <2>2. grown = readBuffer \o readData
    BY <1>1, <1>3 DEF IntactInv, CallsApart
  <2>3. delivered \o (readBuffer \o readData) = p \o readData
    BY <2>1, ConcatAssociative
  <2>4. p \in Seq(Bytes)
    BY <2>1, ConcatProperties
  <2> HIDE DEF p
  <2>5. p \o readData \in Seq(Bytes)
    BY <2>1, <2>4, ConcatProperties
  <2>6. (p \o readData) \o <<>> = p \o readData
    BY <2>5, ConcatEmptySeq
  <2> QED
    BY <1>1, <2>2, <2>3, <2>6 DEF Output, p
<1>4. TtyIsTheRest' /\ (~raced' => OutputIsRead')
  BY <1>1, <1>3, OutputStays DEF IntactInv
<1> QED
  BY <1>2, <1>4 DEF IntactInv

\* The second half of readAll(): no append has overlapped it, so the copy is
\* all there is in the buffer.
LEMMA ReadAllClearIntact ==
  ASSUME IntactInv, TypeOK', ReadAllClear
  PROVE  IntactInv'
<1> DEFINE p == delivered \o copy
<1>1. /\ caller = "copied" /\ caller' = "idle" /\ delivered' = p
      /\ readBuffer' = <<>>
      /\ UNCHANGED <<tty, written, slot, readData, grown, raced, moved>>
  BY DEF ReadAllClear, slotVars
<1>2. CallsApart'
  BY <1>1 DEF IntactInv, CallsApart
<1>3. ASSUME ~raced PROVE Output' = Output
  <2>1. delivered \in Seq(Bytes) /\ copy \in Seq(Bytes)
    BY DEF IntactInv, TypeOK
  <2>2. p \in Seq(Bytes)
    BY <2>1, ConcatProperties
  <2>3. p \o <<>> = p
    BY <2>2, ConcatEmptySeq
  <2>4. copy = readBuffer
    BY <1>1, <1>3 DEF IntactInv, CallsApart
  <2> QED
    BY <1>1, <2>3, <2>4 DEF Output
<1>4. TtyIsTheRest' /\ (~raced' => OutputIsRead')
  BY <1>1, <1>3, OutputStays DEF IntactInv
<1> QED
  BY <1>2, <1>4 DEF IntactInv

\* The shell writes a byte.
LEMMA ShellWritesIntact ==
  ASSUME IntactInv, TypeOK', NEW g \in Gens, ShellWrites(g)
  PROVE  IntactInv'
<1> DEFINE s == tty[g]
           x == written[g] + 1
           New(h) == written'[h] - Len(tty'[h])
<1>1. /\ UNCHANGED <<slot, readData, grown, readBuffer, caller, copy,
                     delivered, raced, moved>>
      /\ written' = [written EXCEPT ![g] = x]
      /\ tty' = [tty EXCEPT ![g] = Append(s, x)]
      /\ written[g] < MaxBytes
  BY DEF ShellWrites, slotVars, callVars
<1>2. /\ tty \in [Gens -> Seq(1..MaxBytes)] /\ written \in [Gens -> 0..MaxBytes]
      /\ s \in Seq(1..MaxBytes) /\ written[g] \in Nat /\ x \in 1..MaxBytes
  BY <1>1, ConstantsAssumption DEF IntactInv, TypeOK
<1>3. /\ written'[g] = x /\ tty'[g] = Append(s, x)
      /\ \A h \in Gens \ {g} : written'[h] = written[h] /\ tty'[h] = tty[h]
  BY <1>1, <1>2
<1>4. /\ Len(s) \in Nat /\ Len(s) <= written[g]
      /\ \A i \in 1..Len(s) : s[i] = (written[g] - Len(s)) + i
  BY <1>2, LenProperties DEF IntactInv, TtyIsTheRest, ReadFrom
<1> HIDE DEF s
<1>5. /\ Len(tty'[g]) = Len(s) + 1 /\ tty'[g][Len(s) + 1] = x
      /\ \A i \in 1..Len(s) : tty'[g][i] = s[i]
  BY <1>2, <1>3, AppendProperties
<1>6. New(g) = written[g] - Len(s)
  BY <1>2, <1>3, <1>4, <1>5
<1>7. \A h \in Gens : New(h) = ReadFrom(h)
  BY <1>3, <1>6 DEF ReadFrom, s
<1>8. TtyIsTheRest'
  <2> SUFFICES ASSUME NEW h \in Gens
               PROVE  /\ Len(tty'[h]) <= written'[h]
                      /\ \A i \in 1..Len(tty'[h]) : tty'[h][i] = New(h) + i
    BY DEF TtyIsTheRest, ReadFrom
  <2>1. CASE h # g
    BY <1>3, <1>7, <2>1 DEF IntactInv, TtyIsTheRest
  <2>2. CASE h = g
    <3>1. Len(tty'[g]) <= written'[g]
      BY <1>2, <1>3, <1>4, <1>5
    <3>2. ASSUME NEW i \in 1..Len(tty'[g]) PROVE tty'[g][i] = New(g) + i
      <4>1. CASE i \in 1..Len(s)
        BY <1>4, <1>5, <1>6, <4>1
      <4>2. CASE i = Len(s) + 1
        BY <1>2, <1>4, <1>5, <1>6, <4>2
      <4> QED
        BY <1>4, <1>5, <4>1, <4>2
    <3> HIDE DEF New
    <3>3. \A i \in 1..Len(tty'[g]) : tty'[g][i] = New(g) + i
      BY <3>2
    <3> QED
      BY <2>2, <3>1, <3>3
  <2> QED
    BY <2>1, <2>2
<1>9. ASSUME ~raced PROVE OutputIsRead'
  <2>0. OutputIsRead
    BY <1>9 DEF IntactInv
  <2>1. Output' = Output /\ Output \in Seq(Bytes)
    BY <1>1, ThreeInARow DEF Output, IntactInv, TypeOK
  <2> HIDE DEF New
  <2>2. ASSUME NEW i \in DOMAIN Output
        PROVE  Output[i][2] <= New(Output[i][1])
    <3>1. Output[i] \in Bytes
      BY <2>1, ElementOfSeq
    <3>2. Output[i][1] \in Gens
      BY <3>1 DEF Bytes
    <3>3. New(Output[i][1]) = ReadFrom(Output[i][1])
      BY <1>7, <3>2
    <3> QED
      BY <2>0, <3>3 DEF OutputIsRead
  <2>3. \A h \in Gens : \A m \in 1..New(h) :
          \E i \in DOMAIN Output : Output[i] = <<h, m>>
    BY <1>7, <2>0 DEF OutputIsRead
  <2>4. InOrder(Output)
    BY <2>0 DEF OutputIsRead
  <2>5. /\ InOrder(Output')
        /\ \A i \in DOMAIN Output' : Output'[i][2] <= New(Output'[i][1])
        /\ \A h \in Gens : \A m \in 1..New(h) :
             \E i \in DOMAIN Output' : Output'[i] = <<h, m>>
    BY <1>1, <2>1, <2>2, <2>3, <2>4
  <2> QED
    BY <2>5 DEF OutputIsRead, InOrder, ReadFrom, New
<1>10. CallsApart'
  BY <1>1 DEF IntactInv, CallsApart
<1> QED
  BY <1>1, <1>8, <1>9, <1>10 DEF IntactInv

LEMMA NextIntactInv == IntactInv /\ [Next]_vars => IntactInv'
<1> SUFFICES ASSUME IntactInv, [Next]_vars PROVE IntactInv'
  OBVIOUS
<1>0. TypeOK' /\ CallsApart /\ TtyIsTheRest /\ (~raced => OutputIsRead)
  BY NextTypeOK DEF IntactInv
<1>1. ASSUME UNCHANGED <<tty, written, slot, readData, grown, readBuffer, copy,
                         delivered, raced>>,
             caller' # "copied" \/ caller' = caller, moved' \/ moved' = moved
      PROVE  IntactInv'
  <2>1. Output' = Output
    BY <1>1 DEF Output
  <2>2. CallsApart'
    BY <1>0, <1>1 DEF CallsApart
  <2> QED
    BY <1>0, <1>1, <2>1, <2>2, OutputStays DEF IntactInv
<1>2. CASE \/ \E rung \in Rungs, started, alive \in BOOLEAN :
                CreateProcess(rung, started, alive)
           \/ \E alive \in BOOLEAN : Destroy(alive)
           \/ DeferredDelete \/ MoveToThread \/ Poll \/ ShellExits
           \/ UNCHANGED vars
  <2>1. /\ UNCHANGED <<tty, written, slot, readData, grown, readBuffer, copy,
                       delivered, raced>>
        /\ caller' # "copied" \/ caller' = caller
        /\ moved' \/ moved' = moved
    BY <1>2 DEF CreateProcess, Destroy, DeferredDelete, MoveToThread, Poll,
                ShellExits, slotVars, callVars, vars
  <2> QED
    BY <1>1, <2>1
<1>3. CASE SlotRead
  BY <1>0, <1>3, SlotReadIntact
<1>4. CASE SlotFails
  BY <1>0, <1>4, SlotFailsIntact
<1>9. CASE AppendEnds
  BY <1>0, <1>9, AppendEndsIntact
<1>5. CASE ReadAllCopy
  <2>1. /\ copy' = readBuffer /\ (slot = 0 \/ moved)
        /\ raced' = (raced \/ grown # <<>>)
        /\ UNCHANGED <<tty, written, slot, readData, grown, readBuffer,
                       delivered, moved>>
    BY <1>5 DEF ReadAllCopy, CallerRuns, slotVars
  <2>2. Output' = Output
    BY <2>1 DEF Output
  <2>3. CallsApart'
    BY <1>0, <2>1 DEF CallsApart
  <2> QED
    BY <1>0, <2>1, <2>2, <2>3, OutputStays DEF IntactInv
<1>6. CASE ReadAllClear
  BY <1>0, <1>6, ReadAllClearIntact
<1>7. ASSUME NEW g \in Gens, Activated(g) PROVE IntactInv'
  <2>1. /\ slot = 0 /\ readData' = <<>> /\ (caller = "idle" \/ moved)
        /\ slot' = g
        /\ UNCHANGED <<tty, written, grown, readBuffer, caller, copy,
                       delivered, raced, moved>>
    BY <1>7 DEF Activated, callVars
  <2>2. readData = <<>> /\ grown = <<>>
    BY <1>0, <2>1 DEF CallsApart
  <2>3. Output' = Output
    BY <2>1, <2>2 DEF Output
  <2>4. CallsApart'
    BY <1>0, <2>1, <2>2 DEF CallsApart
  <2> QED
    BY <1>0, <2>1, <2>3, <2>4, OutputStays DEF IntactInv
<1>8. ASSUME NEW g \in Gens, ShellWrites(g) PROVE IntactInv'
  BY <1>0, <1>8, ShellWritesIntact
<1> QED
  BY <1>2, <1>3, <1>4, <1>5, <1>6, <1>7, <1>8, <1>9
     DEF Next, SlotContinues, Spin, Halted

\* Until an append of the slot overlaps a readAll() of another thread, what
\* readAll() returns is the output of each shell in order, without repetition
\* and without a gap, down to the byte that is next in the terminal; when slot
\* and callers share a thread they never overlap.
THEOREM OutputIsIntact == Spec => []OutputIntact
<1>1. IntactInv => OutputIntact
  <2> SUFFICES ASSUME IntactInv PROVE OutputIntact
    OBVIOUS
  <2>1. raced => moved
    BY DEF IntactInv, CallsApart
  <2>2. ~raced => OutputIsRead
    BY DEF IntactInv
  <2>4. ASSUME ~raced, NEW g \in Gens
        PROVE  {n \in 1..MaxBytes : \E i \in DOMAIN Output : Output[i] = <<g, n>>}
                 = 1..ReadFrom(g)
    <3>1. /\ ReadFrom(g) \in 0..MaxBytes
      <4>1. tty[g] \in Seq(1..MaxBytes) /\ written[g] \in 0..MaxBytes
        BY DEF IntactInv, TypeOK
      <4>2. Len(tty[g]) \in Nat /\ Len(tty[g]) <= written[g]
        BY <4>1, LenProperties DEF IntactInv, TtyIsTheRest
      <4> QED
        BY <4>1, <4>2, ConstantsAssumption DEF ReadFrom
    <3>2. ASSUME NEW n \in 1..MaxBytes, NEW i \in DOMAIN Output,
                 Output[i] = <<g, n>>
          PROVE  n \in 1..ReadFrom(g)
      <4>1. Output[i][2] <= ReadFrom(Output[i][1])
        BY <2>2, <2>4 DEF OutputIsRead
      <4>2. n <= ReadFrom(g)
        BY <3>2, <4>1
      <4> QED
        BY <3>1, <4>2
    <3>3. ASSUME NEW n \in 1..ReadFrom(g)
          PROVE  n \in 1..MaxBytes /\ \E i \in DOMAIN Output : Output[i] = <<g, n>>
      <4>1. n \in 1..MaxBytes
        BY <3>1, ConstantsAssumption
      <4> QED
        BY <2>2, <2>4, <4>1 DEF OutputIsRead
    <3> QED
      BY <3>2, <3>3
  <2> QED
    BY <2>1, <2>2, <2>4 DEF OutputIntact, OutputIsRead
<1> QED
  BY <1>1, InitIntactInv, NextIntactInv, PTL DEF Spec
=============================================================================
