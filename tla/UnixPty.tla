------------------------------ MODULE UnixPty ------------------------------
(***************************************************************************)
(* Pty/UnixPty and its ShellProcess: a pseudo terminal whose output the     *)
(* slot of a QSocketNotifier collects in m_shellReadBuffer.                 *)
(*                                                                          *)
(* The g-th createProcess() that gets past its first checks makes the       *)
(* descriptors, the notifier and the shell of generation g.  The members    *)
(* hold generations, 0 for -1.  The slot reads the descriptor of the MEMBER *)
(* m_handleMaster, whichever notifier fired.  Slot and callers share one    *)
(* thread unless the two are moved apart; m_shellReadBuffer has no lock, so  *)
(* an append and a readAll() in two threads may overlap.                    *)
(***************************************************************************)
EXTENDS Integers, Sequences, FiniteSets

CONSTANTS
  BlockSize,    \* BUFFER_SIZE
  MaxStarts,    \* bound: terminals opened
  MaxBytes      \* bound: bytes a shell writes

ASSUME ConstantsAssumption ==
  /\ BlockSize \in Nat \ {0}
  /\ MaxStarts \in Nat \ {0}
  /\ MaxBytes \in Nat

Gens == 1..MaxStarts

VARIABLES
  starts,       \* terminals opened so far
  master,       \* m_handleMaster
  slave,        \* m_handleSlave
  open,         \* descriptors that are really open: <<kind, generation>>
  notify,       \* m_readMasterNotify, 0 for nullptr
  live,         \* notifiers that are connected
  deleted,      \* notifiers that have been deleted
  ready,        \* notifiers the event loop has found ready and not yet called
  shell,        \* the generation QProcess runs, 0 for NotRunning
  tty,          \* unread output of each terminal
  written,      \* bytes each shell has written
  slot,         \* the notifier whose slot runs, 0 for none
  readData,     \* local variable of the slot
  grown,        \* what an append that has begun will leave, <<>> for none
  readBuffer,   \* m_shellReadBuffer
  announced,    \* readyRead is on its way
  caller,       \* "idle", "copied" inside readAll(), "destroyed"
  copy,         \* local variable of readAll()
  moved,        \* slot and callers run in different threads
  delivered,    \* history: what readAll() has returned
  raced,        \* history: an append and a readAll() have overlapped
  endedAlone,   \* history: shells that ended, or failed to start, by themselves
  survived,     \* history: a shell outlived stop()
  fault

descriptors == <<starts, master, slave, open, notify, shell, endedAlone>>
slotVars    == <<slot, readData, grown>>
callVars    == <<caller, copy, delivered, raced>>
vars == <<starts, master, slave, open, notify, live, deleted, ready, shell,
          tty, written, slot, readData, grown, readBuffer, announced, caller,
          copy, moved, delivered, raced, endedAlone, survived, fault>>

Init ==
  /\ starts = 0
  /\ master = 0
  /\ slave = 0
  /\ open = {}
  /\ notify = 0
  /\ live = {}
  /\ deleted = {}
  /\ ready = {}
  /\ shell = 0
  /\ tty = [g \in Gens |-> <<>>]
  /\ written = [g \in Gens |-> 0]
  /\ slot = 0
  /\ readData = <<>>
  /\ grown = <<>>
  /\ readBuffer = <<>>
  /\ announced = FALSE
  /\ caller = "idle"
  /\ copy = <<>>
  /\ moved = FALSE
  /\ delivered = <<>>
  /\ raced = FALSE
  /\ endedAlone = {}
  /\ survived = FALSE
  /\ fault = "none"

\* The caller's thread can run: it is not the one the slot is in.
CallerRuns == slot = 0 \/ moved

-----------------------------------------------------------------------------
(* stop() and createProcess().                                             *)

Descriptors(m, s) == {<<"master", m>>, <<"slave", s>>}

\* Faulty: the slave's descriptor is only forgotten.
StopKeepsSlave(m, s, opened, n, running, lives, alive) ==
  /\ master' = 0
  /\ slave' = 0
  /\ open' = opened \ {<<"master", m>>}
  /\ notify' = n
  /\ live' = IF running # 0 THEN lives \ {n} ELSE lives
  /\ shell' = IF alive THEN running ELSE 0
  /\ survived' = (survived \/ (running # 0 /\ alive))
  /\ fault' = IF running # 0 /\ n \in deleted THEN "deletedNotifier"
              ELSE fault

\* stop(), with the members as they are when it is called: the descriptors are
\* closed and forgotten; only while the process runs is the notifier
\* disconnected and doomed, and the process terminated, then killed, with one
\* second each; alive says that it outlived both.
Stop(m, s, opened, n, running, lives, alive) ==
  /\ master' = 0
  /\ slave' = 0
  /\ open' = opened \ Descriptors(m, s)
  /\ notify' = n
  /\ live' = IF running # 0 THEN lives \ {n} ELSE lives
  /\ shell' = IF alive THEN running ELSE 0
  /\ survived' = (survived \/ (running # 0 /\ alive))
  /\ fault' = IF running # 0 /\ n \in deleted THEN "deletedNotifier"
              ELSE fault

\* How far the ladder of createProcess() gets before a call fails.
Rungs == {"openMaster", "prepareMaster", "openSlave", "configure", "resize",
          "ok"}

\* What is open, and the members, at the end of the ladder.  Each member is
\* overwritten, never closed: an earlier shell that ended by itself has left
\* its descriptors and its notifier there.
MasterAt(rung, g) == IF rung = "openMaster" THEN 0 ELSE g
SlaveAt(rung, g)  == CASE rung \in {"openMaster", "prepareMaster"} -> slave
                       [] rung = "openSlave" -> 0
                       [] OTHER -> g
OpenAt(rung, g) ==
  open \cup (IF rung = "openMaster" THEN {} ELSE {<<"master", g>>})
       \cup (IF rung \in {"openMaster", "prepareMaster", "openSlave"} THEN {}
             ELSE {<<"slave", g>>})

\* createProcess() returns false at once when a shell is running.
MayCreate == shell = 0

\* createProcess(): the notifier exists from the start of the shell on;
\* waitForStarted() is not asked for its result, so the call succeeds without
\* a shell when only the window size could be set.
CreateProcess(rung, started, alive) ==
  LET g        == starts + 1
      notified == rung \in {"resize", "ok"}
      running  == IF notified /\ started THEN g ELSE 0
      n        == IF notified THEN g ELSE notify
      lives    == IF notified THEN live \cup {g} ELSE live
  IN
  /\ caller = "idle" /\ CallerRuns
  /\ starts < MaxStarts
  /\ MayCreate
  /\ starts' = g
  /\ endedAlone' = IF notified /\ ~started THEN endedAlone \cup {g}
                   ELSE endedAlone
  /\ IF rung = "ok"
     THEN /\ master' = g /\ slave' = g /\ open' = OpenAt(rung, g)
          /\ notify' = n /\ live' = lives /\ shell' = running
          /\ UNCHANGED <<survived, fault>>
     ELSE Stop(MasterAt(rung, g), SlaveAt(rung, g), OpenAt(rung, g), n,
               running, lives, alive)
  /\ UNCHANGED <<deleted, ready, tty, written, slotVars, readBuffer,
                 announced, callVars, moved>>

\* ~UnixPty(): stop(), then the block buffer is freed and the QProcess dies
\* with its notifiers.
Destroy(alive) ==
  /\ caller = "idle" /\ CallerRuns
  /\ caller' = "destroyed"
  /\ master' = 0 /\ slave' = 0 /\ notify' = 0 /\ live' = {} /\ ready' = {}
  /\ shell' = 0
  /\ open' = open \ Descriptors(master, slave)
  /\ survived' = (survived \/ (shell # 0 /\ alive))
  /\ fault' = IF shell # 0 /\ notify \in deleted THEN "deletedNotifier"
              ELSE IF slot # 0 THEN "freedBuffer" ELSE fault
  /\ UNCHANGED <<starts, deleted, tty, written, slotVars, readBuffer,
                 announced, copy, moved, delivered, raced, endedAlone>>

\* The event loop carries out deleteLater() of disconnected notifiers.
DeferredDelete ==
  LET doomed == {g \in 1..starts : g = notify /\ g \notin live} IN
  /\ slot = 0
  /\ doomed \ deleted # {}
  /\ deleted' = deleted \cup doomed
  /\ UNCHANGED <<descriptors, live, ready, tty, written, slotVars,
                 readBuffer, announced, callVars, moved, survived, fault>>

\* moveToThread() of m_shellProcess: its notifier follows.
MoveToThread ==
  /\ caller = "idle" /\ slot = 0 /\ notify = 0
  /\ ~moved
  /\ moved' = TRUE
  /\ UNCHANGED <<descriptors, live, deleted, ready, tty, written, slotVars,
                 readBuffer, announced, callVars, survived, fault>>

-----------------------------------------------------------------------------
(* The slot of QSocketNotifier::activated.                                 *)

\* One round of the event loop's poll(), in the thread of the notifiers: it
\* finds those whose descriptor has data.  The number of a descriptor that has
\* been closed may belong to any other one by now, so its notifier may be found
\* ready as well.
Poll ==
  LET readable == {g \in live : <<"master", g>> \in open /\ tty[g] # <<>>}
      closed   == {g \in live : <<"master", g>> \notin open}
  IN
  /\ slot = 0
  /\ caller = "idle" \/ moved
  /\ ready \cap live = {}
  /\ \E reused \in SUBSET closed :
       /\ ready' = readable \cup reused
       /\ ready' # {}
  /\ UNCHANGED <<descriptors, live, deleted, tty, written, slotVars,
                 readBuffer, announced, callVars, moved, survived, fault>>

\* The notifiers a round has found ready are called one after the other, also
\* when an earlier slot has left nothing to read.
Activated(g) ==
  /\ slot = 0
  /\ caller = "idle" \/ moved
  /\ g \in ready \cap live
  /\ ready' = ready \ {g}
  /\ slot' = g
  /\ readData' = <<>>
  /\ UNCHANGED <<descriptors, live, deleted, tty, written, grown, readBuffer,
                 announced, callVars, moved, survived, fault>>

Least(m, n) == IF m <= n THEN m ELSE n

\* The append begins: the bytes of m_shellReadBuffer and those that were read
\* are put together outside of it.
AppendBegins(data) ==
  /\ readData' = data
  /\ grown' = readBuffer \o data
  /\ raced' = (raced \/ caller = "copied")
  /\ UNCHANGED slot

\* The loop goes round again with what it has.
SlotLoops(data) == readData' = data /\ UNCHANGED <<slot, grown, raced>>

\* What a step of the slot leaves alone.
SlotKeeps == UNCHANGED <<descriptors, live, deleted, ready, written, caller,
                         copy, delivered, moved, survived, fault>>

\* The n bytes read() takes from the terminal of m_handleMaster.
Taken(n) == [i \in 1..n |-> <<master, tty[master][i]>>]

\* Faulty: the loop ends only when read() has nothing to give.
SlotReadUntilEmpty ==
  LET n == Least(BlockSize, Len(tty[master])) IN
  /\ slot # 0 /\ grown = <<>> /\ master # 0 /\ tty[master] # <<>>
  /\ tty' = [tty EXCEPT ![master] = SubSeq(@, n + 1, Len(@))]
  /\ SlotLoops(readData \o Taken(n))
  /\ UNCHANGED <<readBuffer, announced>> /\ SlotKeeps

\* Faulty: all of m_buffer is appended, not just what read() filled.
SlotReadWholeBlock ==
  LET n     == Least(BlockSize, Len(tty[master]))
      block == [i \in 1..BlockSize |->
                  IF i <= n THEN <<master, tty[master][i]>> ELSE <<master, 0>>]
  IN
  /\ slot # 0 /\ grown = <<>> /\ master # 0 /\ tty[master] # <<>>
  /\ tty' = [tty EXCEPT ![master] = SubSeq(@, n + 1, Len(@))]
  /\ IF n = BlockSize THEN SlotLoops(readData \o block)
     ELSE AppendBegins(readData \o block)
  /\ UNCHANGED <<readBuffer, announced>> /\ SlotKeeps

\* read() returns up to a block; the loop goes on while the block is full.
\* After EAGAIN it goes on too: then nothing happens until data comes.
SlotRead ==
  LET n == Least(BlockSize, Len(tty[master])) IN
  /\ slot # 0 /\ grown = <<>> /\ master # 0 /\ tty[master] # <<>>
  /\ tty' = [tty EXCEPT ![master] = SubSeq(@, n + 1, Len(@))]
  /\ IF n = BlockSize THEN SlotLoops(readData \o Taken(n))
     ELSE AppendBegins(readData \o Taken(n))
  /\ UNCHANGED <<readBuffer, announced>> /\ SlotKeeps

\* Any error but EAGAIN ends the loop; what was read before it is kept.
SlotFails ==
  /\ slot # 0 /\ grown = <<>> /\ master = 0
  /\ IF readData = <<>> THEN slot' = 0 /\ UNCHANGED <<readData, grown, raced>>
     ELSE AppendBegins(readData)
  /\ UNCHANGED <<tty, readBuffer, announced>> /\ SlotKeeps

\* The append ends: m_shellReadBuffer is what was put together, whatever it has
\* become meanwhile; readyRead is emitted and the slot returns.
AppendEnds ==
  /\ slot # 0 /\ grown # <<>>
  /\ readBuffer' = grown
  /\ announced' = TRUE
  /\ slot' = 0 /\ readData' = <<>> /\ grown' = <<>>
  /\ UNCHANGED <<tty, raced>> /\ SlotKeeps

-----------------------------------------------------------------------------
(* readAll() and the shell.                                                *)

\* The first line of readAll(): a copy of the buffer, without a lock.
ReadAllCopy ==
  /\ caller = "idle" /\ CallerRuns
  /\ announced \/ readBuffer # <<>>
  /\ caller' = "copied"
  /\ copy' = readBuffer
  /\ announced' = FALSE
  /\ raced' = (raced \/ grown # <<>>)
  /\ UNCHANGED <<descriptors, live, deleted, ready, tty, written, slotVars,
                 readBuffer, moved, delivered, survived, fault>>

\* Faulty: the buffer is not cleared.
ReadAllKeeps ==
  /\ caller = "copied" /\ CallerRuns
  /\ caller' = "idle"
  /\ delivered' = delivered \o copy
  /\ copy' = <<>>
  /\ UNCHANGED <<descriptors, live, deleted, ready, tty, written, slotVars,
                 readBuffer, announced, raced, moved, survived, fault>>

\* The second: the buffer is cleared, whatever has come into it meanwhile.
ReadAllClear ==
  /\ caller = "copied" /\ CallerRuns
  /\ caller' = "idle"
  /\ delivered' = delivered \o copy
  /\ copy' = <<>>
  /\ readBuffer' = <<>>
  /\ UNCHANGED <<descriptors, live, deleted, ready, tty, written, slotVars,
                 announced, raced, moved, survived, fault>>

ShellWrites(g) ==
  /\ shell = g
  /\ <<"master", g>> \in open
  /\ written[g] < MaxBytes
  /\ written' = [written EXCEPT ![g] = @ + 1]
  /\ tty' = [tty EXCEPT ![g] = Append(@, written[g] + 1)]
  /\ UNCHANGED <<descriptors, live, deleted, ready, slotVars, readBuffer,
                 announced, callVars, moved, survived, fault>>

\* The shell exits by itself: QProcess is NotRunning, nothing else changes.
ShellExits ==
  /\ shell # 0
  /\ shell' = 0
  /\ endedAlone' = endedAlone \cup {shell}
  /\ UNCHANGED <<starts, master, slave, open, notify, live, deleted, ready,
                 tty, written, slotVars, readBuffer, announced, callVars, moved,
                 survived, fault>>

-----------------------------------------------------------------------------
\* Nothing is left to do, or behaviour has become undefined.
Halted ==
  /\ fault # "none" \/ caller = "destroyed"
  /\ UNCHANGED vars

\* The slot spins on EAGAIN and nobody in its thread can run any more.
Spinning == slot # 0 /\ grown = <<>> /\ master # 0 /\ tty[master] = <<>>
Spin     == Spinning /\ UNCHANGED vars

SlotContinues == SlotRead \/ SlotFails \/ AppendEnds

Next ==
  \/ /\ fault = "none" /\ caller # "destroyed"
     /\ \/ \E rung \in Rungs, started, alive \in BOOLEAN :
             CreateProcess(rung, started, alive)
        \/ \E alive \in BOOLEAN : Destroy(alive)
        \/ DeferredDelete \/ MoveToThread \/ Poll
        \/ SlotContinues \/ ReadAllCopy \/ ReadAllClear \/ ShellExits
        \/ \E g \in Gens : Activated(g) \/ ShellWrites(g)
        \/ Spin
  \/ Halted

\* The slot's thread runs on.
Spec == Init /\ [][Next]_vars /\ WF_vars(fault = "none" /\ SlotContinues)

-----------------------------------------------------------------------------
Bytes == Gens \X (1..MaxBytes)

TypeOK ==
  /\ starts \in 0..MaxStarts
  /\ master \in 0..MaxStarts /\ slave \in 0..MaxStarts
  /\ notify \in 0..MaxStarts /\ shell \in 0..MaxStarts
  /\ slot \in 0..MaxStarts
  /\ open \subseteq {"master", "slave"} \X Gens
  /\ live \subseteq Gens /\ deleted \subseteq Gens /\ ready \subseteq Gens
  /\ endedAlone \subseteq Gens
  /\ tty \in [Gens -> Seq(1..MaxBytes)]
  /\ written \in [Gens -> 0..MaxBytes]
  /\ readData \in Seq(Bytes) /\ readBuffer \in Seq(Bytes)
  /\ grown \in Seq(Bytes) /\ raced \in BOOLEAN
  /\ copy \in Seq(Bytes) /\ delivered \in Seq(Bytes)
  /\ caller \in {"idle", "copied", "destroyed"}
  /\ announced \in BOOLEAN /\ moved \in BOOLEAN /\ survived \in BOOLEAN
  /\ fault \in {"none", "deletedNotifier", "freedBuffer"}

\* Bytes of the same terminal come in the order in which they were written,
\* none of them twice.
InOrder(bytes) ==
  \A i, j \in DOMAIN bytes :
    i < j /\ bytes[i][1] = bytes[j][1] => bytes[i][2] < bytes[j][2]

\* What has left the terminals: returned by readAll(), waiting for it, and in
\* the hands of the slot.
Output == delivered \o readBuffer \o readData

\* How many bytes have been read from the terminal of g.
ReadFrom(g) == written[g] - Len(tty[g])

\* What readAll() returns, and what waits for it, is the output of each shell
\* in order, without repetition and without a gap, down to the byte that is next
\* in the terminal, until an append of the slot overlaps a readAll() of another
\* thread; when slot and callers share a thread that never happens.
OutputIntact ==
  /\ raced => moved
  /\ ~raced => /\ InOrder(Output)
               /\ \A g \in Gens :
                    {n \in 1..MaxBytes :
                       \E i \in DOMAIN Output : Output[i] = <<g, n>>}
                      = 1..ReadFrom(g)

\* The bytes fill a number of blocks exactly.
FillBlocks(bytes) == \E k \in 0..Len(bytes) : Len(bytes) = k * BlockSize

\* The notifier of an earlier terminal, whose shell ended or failed by itself,
\* is still connected.
StaleNotifier == \E g \in live \cap endedAlone : g # master

\* The slot can spin on EAGAIN only when what it has read fills whole blocks,
\* and with nothing read at all only while the notifier of an earlier terminal
\* is still connected: it fires for the present terminal too, or takes the data
\* that the notifier of the present one was found ready for.
SpinsOnFullBlocks ==
  Spinning =>
    /\ FillBlocks(readData)
    /\ readData = <<>> => StaleNotifier

\* A descriptor that no member refers to is still open, or a notifier is still
\* connected that watches no current descriptor, only when its shell ended or
\* failed by itself; the notifier is touched after its deletion only when a
\* shell outlived stop(), and the block buffer only across threads.
NothingDangles ==
  /\ \A g \in Gens :
       \/ <<"master", g>> \in open /\ master # g
       \/ <<"slave", g>> \in open /\ slave # g
       \/ g \in live /\ master # g
       => g \in endedAlone
  /\ fault = "deletedNotifier" => survived
  /\ fault = "freedBuffer" => moved

-----------------------------------------------------------------------------
(* What a comment says, and the code does not do.                          *)

\* UnixPty.cpp: "last data block always < readSize": a short block ends the
\* loop of the slot, so the slot returns.
SlotReturns == \A g \in Gens : slot = g ~> (slot = 0 \/ fault # "none")

-----------------------------------------------------------------------------
(* The inductive invariant of the proof of NothingDangles.                 *)

MemberTypeOK ==
  /\ starts \in 0..MaxStarts
  /\ master \in 0..MaxStarts
  /\ slave \in 0..MaxStarts
  /\ notify \in 0..MaxStarts
  /\ shell \in 0..MaxStarts
  /\ deleted \subseteq 1..starts

\* The descriptors of the members are those of the running shell, or of one
\* that ended by itself; that of m_handleMaster is open.
MembersCurrent ==
  /\ \A m \in {master, slave} \ {0} : m = shell \/ m \in endedAlone
  /\ master # 0 => <<"master", master>> \in open

\* While a shell runs its notifier is connected, unless a shell outlived stop().
NotifierConnected == shell # 0 /\ ~survived => notify \in live \ deleted

DangleInv ==
  /\ MemberTypeOK
  /\ MembersCurrent
  /\ NotifierConnected
  /\ NothingDangles

-----------------------------------------------------------------------------
(* The inductive invariant of the proof of SpinsOnFullBlocks.              *)

\* A slot belongs to a notifier that is still connected, until the destructor
\* has run.
SlotIsConnected ==
  /\ live \subseteq 1..starts /\ ready \subseteq 1..starts
  /\ slot # 0 => slot \in live \/ (caller = "destroyed" /\ master = 0)

\* The slot keeps on only after full blocks.
SlotReadsBlocks == slot # 0 /\ grown = <<>> => FillBlocks(readData)

\* While only the notifier of the present terminal is connected, what made it
\* ready is still there when its slot begins to read.
ReadyHasData ==
  StaleNotifier \/
    /\ slot # 0 /\ readData = <<>> /\ master # 0 => tty[master] # <<>>
    /\ ready \cap live # {} => slot = 0 /\ tty[master] # <<>>

SpinInv ==
  TypeOK /\ DangleInv /\ SlotIsConnected /\ SlotReadsBlocks /\ ReadyHasData

-----------------------------------------------------------------------------
(* The inductive invariant of the proof of OutputIntact.                   *)

\* A call overlaps the slot only in another thread; until an append overlaps a
\* readAll(), the copy of readAll() is the buffer, and what an append puts
\* together is the buffer and what was read.
CallsApart ==
  /\ slot = 0 => readData = <<>> /\ grown = <<>>
  /\ raced => moved
  /\ caller = "copied" => slot = 0 \/ moved
  /\ ~raced => /\ caller = "copied" => copy = readBuffer /\ grown = <<>>
               /\ grown # <<>> => grown = readBuffer \o readData

\* A terminal holds the last bytes its shell has written.
TtyIsTheRest ==
  \A g \in Gens :
    /\ Len(tty[g]) <= written[g]
    /\ \A i \in 1..Len(tty[g]) : tty[g][i] = ReadFrom(g) + i

\* What has left the terminals is in order, comes before what is in them, and
\* nothing of it is missing.
OutputIsRead ==
  /\ InOrder(Output)
  /\ \A i \in DOMAIN Output : Output[i][2] <= ReadFrom(Output[i][1])
  /\ \A g \in Gens : \A n \in 1..ReadFrom(g) :
       \E i \in DOMAIN Output : Output[i] = <<g, n>>

IntactInv ==
  TypeOK /\ CallsApart /\ TtyIsTheRest /\ (~raced => OutputIsRead)
=============================================================================
