------------------------- MODULE SynchronizedBuffer -------------------------
(***************************************************************************)
(* Terminal/SynchronizedBuffer: the output gate of CSI 2026.  While the    *)
(* synchronized mode is on, written items are collected in m_buffer and    *)
(* are handed to the renderer in one batch; while it is off an item goes   *)
(* straight through.                                                       *)
(*                                                                         *)
(* Every public method may be called from any thread.  A critical section  *)
(* (the scope of a ThreadLocker) is one step, except where the code emits  *)
(* a signal inside it: then the lock is kept in mutex until the emission   *)
(* step.  Everything the code does after unlocking is a step of its own,   *)
(* so other threads can run in between.                                    *)
(***************************************************************************)
EXTENDS Integers, Sequences, FiniteSets

CONSTANTS
  Threads,      \* the threads that call the buffer
  NoThread,     \* the value of mutex when the SpinMutex is free
  Sizes,        \* item.data.size() of the items that are written
  Header,       \* sizeof(BufferItem)
  DefaultMax,   \* m_maxBufferSize set by the constructor
  Limits,       \* the arguments setMaxBufferSize is called with
  MaxLimit,     \* an upper bound of DefaultMax and Limits
  Timeout,      \* SYNC_TIMEOUT_MS
  Clock,        \* the readings of QDateTime::currentMSecsSinceEpoch()
  WordSize,     \* 2^64: quint64 differences are taken modulo WordSize
  MaxItems      \* bound: the number of write() calls

ASSUME ConstantsAssumption ==
  /\ NoThread \notin Threads
  /\ Sizes \subseteq Nat
  /\ Header \in Nat \ {0}
  /\ MaxLimit \in Nat
  /\ DefaultMax \in 1..MaxLimit
  /\ Limits \subseteq 0..MaxLimit
  /\ Timeout \in Nat \ {0}
  /\ WordSize \in Nat \ {0}
  /\ Clock \subseteq 1..(WordSize - 1)
  /\ Clock # {}
  /\ MaxItems \in Nat

VARIABLES
  mutex,        \* owner of m_mutex between two steps
  mode,         \* m_synchronizedMode
  buffer,       \* m_buffer
  currentSize,  \* m_currentSize
  maxSize,      \* m_maxBufferSize
  syncStart,    \* m_syncStartTime
  now,          \* the wall clock
  pc,           \* what each thread does next
  carry,        \* ids of the items a thread holds as argument of dataReady
  rendered,     \* history: ids delivered by dataReady, in order
  refused,      \* history: ids whose write() emitted bufferOverflow
  discarded,    \* history: ids thrown away by clear()
  nextId,       \* history: number of the next item written
  shrunk,       \* history: setMaxBufferSize put the limit at or below the size
  overlapped    \* history: two calls have run at the same time

lockVars  == <<mutex, pc>>
stateVars == <<mode, buffer, currentSize, maxSize, syncStart>>
histVars  == <<refused, discarded, nextId, shrunk, overlapped>>
vars == <<mutex, mode, buffer, currentSize, maxSize, syncStart, now, pc, carry,
          rendered, refused, discarded, nextId, shrunk, overlapped>>

\* A BufferItem: len bytes of what was written are kept; at is the
\* clock reading when write() was called.
Item == [id : Nat, len : Nat, at : Nat]

PCs == {"idle", "notifyOn", "notifyOff", "emitDirect", "emitOverflow",
        "flush", "emitBatch"}

Smaller(m, n) == IF m <= n THEN m ELSE n
Larger(m, n)  == IF m <= n THEN n ELSE m

\* The ids of a sequence of items, in order, and the members of a sequence.
IdsOf(items) == [i \in DOMAIN items |-> items[i].id]
Members(s)   == {s[i] : i \in DOMAIN s}

-----------------------------------------------------------------------------
(* Helpers of the code.                                                    *)

\* Faulty variants, defined just before what they vary: each makes one
\* property below fail.
NeedsFlushOffByOne(size, limit, start, time) ==
  \/ size > limit
  \/ start > 0 /\ (time - start) % WordSize >= Timeout
NeedsFlushWithoutTimeout(size, limit, start, time) == size >= limit

\* needsFlush(): full, or elapsed (a quint64 difference) reached the timeout.
NeedsFlush(size, limit, start, time) ==
  \/ size >= limit
  \/ start > 0 /\ (time - start) % WordSize >= Timeout

\* Faulty: items are appended to a full buffer.
HasRoomUnchecked(size, limit) == TRUE

\* appendItem's check that the buffer is not full.
HasRoom(size, limit) == size < limit

\* The bytes appendItem keeps of an item of n bytes.
KeptLen(n, limit) ==
  IF n + Header > limit THEN Smaller(n, limit \div 2) ELSE n

-----------------------------------------------------------------------------
Init ==
  /\ mutex = NoThread
  /\ mode = FALSE
  /\ buffer = <<>>
  /\ currentSize = 0
  /\ maxSize = DefaultMax
  /\ syncStart = 0
  /\ now \in Clock
  /\ pc = [t \in Threads |-> "idle"]
  /\ carry = [t \in Threads |-> <<>>]
  /\ rendered = <<>>
  /\ refused = {}
  /\ discarded = {}
  /\ nextId = 1
  /\ shrunk = FALSE
  /\ overlapped = FALSE

\* A call of t starts and gets the SpinMutex.
Enter(t) ==
  /\ pc[t] = "idle"
  /\ mutex = NoThread
  /\ overlapped' = (overlapped \/ \E u \in Threads \ {t} : pc[u] # "idle")

Goto(t, l) == pc' = [pc EXCEPT ![t] = l]

\* setSynchronizedMode(on) up to the unlock.  When the mode is already on
\* (off) the call returns false and changes nothing.
SetSynchronizedMode(t, on) ==
  /\ Enter(t)
  /\ mode # on
  /\ mode' = on
  /\ syncStart' = IF on THEN now ELSE 0
  /\ Goto(t, IF on THEN "notifyOn" ELSE "notifyOff")
  /\ UNCHANGED <<mutex, buffer, currentSize, maxSize, now, carry, rendered,
                 refused, discarded, nextId, shrunk>>

\* Faulty: disabling does not flush.
NotifyModeWithoutFlush(t) ==
  /\ pc[t] \in {"notifyOn", "notifyOff"}
  /\ Goto(t, "idle")
  /\ UNCHANGED <<mutex, stateVars, now, carry, rendered, histVars>>

\* emit synchronizedModeChanged(enabled), outside the lock; disabling goes on
\* to flush().
NotifyMode(t) ==
  /\ pc[t] \in {"notifyOn", "notifyOff"}
  /\ Goto(t, IF pc[t] = "notifyOn" THEN "idle" ELSE "flush")
  /\ UNCHANGED <<mutex, stateVars, now, carry, rendered, histVars>>

\* Faulty: the lock is released before dataReady is emitted.
WriteDirectUnlocked(t) ==
  /\ Enter(t)
  /\ nextId <= MaxItems
  /\ ~mode
  /\ carry' = [carry EXCEPT ![t] = <<nextId>>]
  /\ nextId' = nextId + 1
  /\ Goto(t, "emitDirect")
  /\ UNCHANGED <<mutex, stateVars, now, rendered, refused, discarded, shrunk>>

\* write(item), mode off: the lock is kept while dataReady is emitted.
WriteDirect(t) ==
  /\ Enter(t)
  /\ nextId <= MaxItems
  /\ ~mode
  /\ mutex' = t
  /\ carry' = [carry EXCEPT ![t] = <<nextId>>]
  /\ nextId' = nextId + 1
  /\ Goto(t, "emitDirect")
  /\ UNCHANGED <<stateVars, now, rendered, refused, discarded,
                 shrunk>>

\* write(item), mode on, buffer full: appendItem emits bufferOverflow, under
\* the lock, and the item is refused.
WriteRefused(t) ==
  /\ Enter(t)
  /\ nextId <= MaxItems
  /\ mode
  /\ ~HasRoom(currentSize, maxSize)
  /\ mutex' = t
  /\ nextId' = nextId + 1
  /\ Goto(t, "emitOverflow")
  /\ UNCHANGED <<stateVars, now, carry, rendered, refused,
                 discarded, shrunk>>

\* write(item), mode on: appendItem, then needsFlush, in one critical section.
WriteBuffered(t, n) ==
  LET len  == KeptLen(n, maxSize)
      size == currentSize + len + Header
  IN
  /\ Enter(t)
  /\ nextId <= MaxItems
  /\ mode
  /\ HasRoom(currentSize, maxSize)
  /\ buffer' = Append(buffer, [id |-> nextId, len |-> len, at |-> now])
  /\ currentSize' = size
  /\ nextId' = nextId + 1
  /\ Goto(t, IF NeedsFlush(size, maxSize, syncStart, now)
             THEN "flush" ELSE "idle")
  /\ UNCHANGED <<mutex, mode, maxSize, syncStart, now, carry, rendered,
                 refused, discarded, shrunk>>

\* emit dataReady of write(), then the ThreadLocker unlocks.
EmitDirect(t) ==
  /\ pc[t] = "emitDirect"
  /\ rendered' = rendered \o carry[t]
  /\ carry' = [carry EXCEPT ![t] = <<>>]
  /\ mutex' = NoThread
  /\ Goto(t, "idle")
  /\ UNCHANGED <<stateVars, now, histVars>>

\* emit bufferOverflow of appendItem, then write() returns false and unlocks.
EmitOverflow(t) ==
  /\ pc[t] = "emitOverflow"
  /\ refused' = refused \cup {nextId - 1}
  /\ mutex' = NoThread
  /\ Goto(t, "idle")
  /\ UNCHANGED <<stateVars, now, carry, rendered, discarded,
                 nextId, shrunk, overlapped>>

\* flush() called from outside.
Flush(t) ==
  /\ Enter(t)
  /\ Goto(t, "flush")
  /\ UNCHANGED <<mutex, stateVars, now, carry, rendered, refused,
                 discarded, nextId, shrunk>>

\* Faulty: the items are copied but not removed.
FlushTakeCopies(t) ==
  /\ pc[t] = "flush"
  /\ mutex = NoThread
  /\ carry' = [carry EXCEPT ![t] = IdsOf(buffer)]
  /\ Goto(t, IF buffer = <<>> THEN "idle" ELSE "emitBatch")
  /\ UNCHANGED <<mutex, stateVars, now, rendered, histVars>>

\* Faulty: flush() assumes that the buffer is full.
FlushTakeSubtracts(t) ==
  /\ pc[t] = "flush"
  /\ mutex = NoThread
  /\ carry' = [carry EXCEPT ![t] = IdsOf(buffer)]
  /\ buffer' = <<>>
  /\ currentSize' = IF buffer = <<>> THEN currentSize
                    ELSE currentSize - maxSize
  /\ Goto(t, IF buffer = <<>> THEN "idle" ELSE "emitBatch")
  /\ UNCHANGED <<mutex, mode, maxSize, syncStart, now, rendered, histVars>>

\* Faulty: flush() returns early when the mode is off.
FlushTakeOnlyInMode(t) ==
  /\ pc[t] = "flush"
  /\ mutex = NoThread
  /\ carry' = [carry EXCEPT ![t] = IF mode THEN IdsOf(buffer) ELSE <<>>]
  /\ buffer' = IF mode THEN <<>> ELSE buffer
  /\ currentSize' = IF mode THEN 0 ELSE currentSize
  /\ Goto(t, IF mode /\ buffer # <<>> THEN "emitBatch" ELSE "idle")
  /\ UNCHANGED <<mutex, mode, maxSize, syncStart, now, rendered, histVars>>

\* The critical section of flush(): take everything, or return if empty.
FlushTake(t) ==
  /\ pc[t] = "flush"
  /\ mutex = NoThread
  /\ carry' = [carry EXCEPT ![t] = IdsOf(buffer)]
  /\ buffer' = <<>>
  /\ currentSize' = IF buffer = <<>> THEN currentSize ELSE 0
  /\ shrunk' = (shrunk /\ maxSize = 0)
  /\ Goto(t, IF buffer = <<>> THEN "idle" ELSE "emitBatch")
  /\ UNCHANGED <<mutex, mode, maxSize, syncStart, now, rendered,
                 refused, discarded, nextId, overlapped>>

\* Faulty: dataReady is emitted for every item by itself.
EmitBatchItemwise(t) ==
  /\ pc[t] = "emitBatch"
  /\ rendered' = Append(rendered, Head(carry[t]))
  /\ carry' = [carry EXCEPT ![t] = Tail(@)]
  /\ Goto(t, IF Len(carry[t]) = 1 THEN "idle" ELSE "emitBatch")
  /\ UNCHANGED <<mutex, stateVars, now, histVars>>

\* emit dataReady(items) of flush(), outside the lock.
EmitBatch(t) ==
  /\ pc[t] = "emitBatch"
  /\ rendered' = rendered \o carry[t]
  /\ carry' = [carry EXCEPT ![t] = <<>>]
  /\ Goto(t, "idle")
  /\ UNCHANGED <<mutex, stateVars, now, histVars>>

\* Faulty: clear() forgets the size.
ClearKeepsSize(t) ==
  /\ Enter(t)
  /\ buffer' = <<>>
  /\ discarded' = discarded \cup Members(IdsOf(buffer))
  /\ UNCHANGED <<mutex, mode, currentSize, maxSize, syncStart, now, pc, carry,
                 rendered, refused, nextId, shrunk>>

\* clear(): one critical section.
Clear(t) ==
  /\ Enter(t)
  /\ buffer' = <<>>
  /\ currentSize' = 0
  /\ discarded' = discarded \cup Members(IdsOf(buffer))
  /\ shrunk' = (shrunk /\ maxSize = 0)
  /\ UNCHANGED <<mutex, mode, maxSize, syncStart, now, pc, carry, rendered,
                 refused, nextId>>

\* setMaxBufferSize(limit): one critical section; the buffered items stay.
SetMaxBufferSize(t, limit) ==
  /\ Enter(t)
  /\ maxSize' = limit
  /\ shrunk' = (currentSize >= limit)
  /\ UNCHANGED <<mutex, mode, buffer, currentSize, syncStart, now, pc, carry,
                 rendered, refused, discarded, nextId>>

\* The wall clock moves on ...
Tick ==
  /\ now' \in Clock
  /\ now' > now
  /\ UNCHANGED <<lockVars, stateVars, carry, rendered, histVars>>

\* ... or is set back.
SetClockBack ==
  /\ now' \in Clock
  /\ now' < now
  /\ UNCHANGED <<lockVars, stateVars, carry, rendered, histVars>>

Call(t) ==
  \/ \E on \in BOOLEAN : SetSynchronizedMode(t, on)
  \/ WriteDirect(t) \/ WriteRefused(t)
  \/ \E n \in Sizes : WriteBuffered(t, n)
  \/ Flush(t)
  \/ Clear(t)
  \/ \E limit \in Limits : SetMaxBufferSize(t, limit)

\* What a thread that is inside a call does next.
Continue(t) ==
  NotifyMode(t) \/ EmitDirect(t) \/ EmitOverflow(t) \/ FlushTake(t)
  \/ EmitBatch(t)

Step == \E t \in Threads : Call(t) \/ Continue(t)

Next == Tick \/ SetClockBack \/ Step

Spec == Init /\ [][Next]_vars

\* Fairness: a thread inside a call is scheduled again and again.
FairSpec == Spec /\ \A t \in Threads : WF_vars(Continue(t))

\* ... and, for what depends on time, with a clock that runs and only forwards.
TimedSpec ==
  /\ Init /\ [][Tick \/ Step]_vars
  /\ WF_vars(Tick) /\ \A t \in Threads : WF_vars(Continue(t))

-----------------------------------------------------------------------------
TypeOK ==
  /\ mutex \in Threads \cup {NoThread}
  /\ mode \in BOOLEAN
  /\ buffer \in Seq(Item)
  /\ currentSize \in Nat
  /\ maxSize \in 0..MaxLimit
  /\ now \in Clock
  /\ syncStart \in Clock \cup {0}
  /\ pc \in [Threads -> PCs]
  /\ carry \in [Threads -> Seq(Nat)]
  /\ rendered \in Seq(Nat)
  /\ refused \subseteq Nat
  /\ discarded \subseteq Nat
  /\ nextId \in Nat \ {0}
  /\ shrunk \in BOOLEAN
  /\ overlapped \in BOOLEAN

\* Some thread is going to run the critical section of flush().
FlushUnderWay == \E t \in Threads : pc[t] \in {"notifyOff", "flush"}

\* Output is never stranded: once setSynchronizedMode(false) has returned, or
\* no flush is under way, nothing is left in m_buffer while the mode is off,
\* although write(), flush() and mode changes interleave with its unlocked
\* tail.
NothingStranded == ~mode /\ buffer # <<>> => FlushUnderWay

\* A full buffer is on its way out, so write() refuses items only for as long
\* as some thread has yet to flush; the one exception is a limit lowered to
\* or below what is already buffered by setMaxBufferSize.
FullMeansFlushing == currentSize >= maxSize => FlushUnderWay \/ shrunk

\* An item written after the deadline of its block (100 ms in the code) does
\* not wait for the end of the block: a flush is under way.
LateItemsLeave ==
  \A i \in DOMAIN buffer :
    syncStart > 0 /\ (buffer[i].at - syncStart) % WordSize >= Timeout
      => FlushUnderWay

\* m_currentSize exceeds the limit by less than one item: appendItem checks
\* the limit before it adds, and truncates an item that is too big by itself.
MemoryBound ==
  currentSize < MaxLimit + Larger(MaxLimit, MaxLimit \div 2 + Header)

\* What a sequence of items takes, each with its header.
TotalSize(items) ==
  LET sum[i \in 0..Len(items)] ==
        IF i = 0 THEN 0 ELSE sum[i - 1] + items[i].len + Header
  IN sum[Len(items)]

\* m_currentSize is the sum of the sizes of the buffered items, a truncated
\* item counted with what is left of it: appendItem, flush() and clear() keep
\* the counter and the list in step.
SizeAccounting == currentSize = TotalSize(buffer)

\* dataReady of an unbuffered write reaches the renderer while the mode is
\* still off: the mode cannot be switched on between the check and the signal.
DirectOnlyWhenOff == \A t \in Threads : pc[t] = "emitDirect" => ~mode

\* Every item written is in exactly one place: buffered, held by one thread
\* that is about to emit it, rendered, thrown away by clear(), or refused.  No
\* interleaving of flushes loses an item or shows it twice.
Buffered     == Members(IdsOf(buffer))
InFlight(t)  == Members(carry[t])
InTransit(t) == pc[t] = "emitOverflow"
Injective(s) == \A i, j \in DOMAIN s : s[i] = s[j] => i = j

Accounted ==
  \A i \in 1..(nextId - 1) :
    \/ i \in Buffered \/ i \in Members(rendered)
    \/ i \in discarded \/ i \in refused
    \/ \E t \in Threads : i \in InFlight(t)
    \/ i = nextId - 1 /\ \E t \in Threads : InTransit(t)
Apart ==
  /\ Buffered \cap (Members(rendered) \cup discarded \cup refused) = {}
  /\ Members(rendered) \cap (discarded \cup refused) = {}
  /\ discarded \cap refused = {}
  /\ \A t \in Threads :
       InFlight(t) \cap (Buffered \cup Members(rendered) \cup discarded
                        \cup refused) = {}
  /\ \A t, u \in Threads : t # u => InFlight(t) \cap InFlight(u) = {}
ExactlyOnce == Accounted /\ Apart /\ Injective(rendered)

\* Calls that do not overlap in time, from whichever threads, keep the order
\* of the output: what is rendered, then in flight, then buffered is in the
\* order of the write() calls.
Increasing(s) == \A i, j \in DOMAIN s : i < j => s[i] < s[j]
SerialOrder ==
  ~overlapped =>
    /\ Increasing(rendered)
    /\ \A t \in Threads :
         Increasing(rendered \o carry[t] \o IdsOf(buffer))

\* An item accepted before the mode is off appears on the screen (or is
\* cleared), whatever the other threads do.
DisabledOutputAppears ==
  \A i \in 1..MaxItems :
    (i < nextId /\ ~mode) ~>
      (i \in Members(rendered) \cup discarded \cup refused)

\* What the buffer promises, in terms of OutputGate: a batch is what a thread
\* holds as the argument of dataReady, and an item is refused as soon as
\* appendItem has found no room for it.
Gate == INSTANCE OutputGate WITH
  held    <- IdsOf(buffer),
  batches <- {carry[t] : t \in {u \in Threads : carry[u] # <<>>}},
  shown   <- rendered,
  dropped <- discarded,
  refused <- refused \cup
               {i \in {nextId - 1} : \E t \in Threads : InTransit(t)},
  next    <- nextId

\* Every interleaving of the calls looks to the renderer like the gate: a
\* flushed frame appears in one piece and in its order, exactly once.
ImplementsGate == Gate!Spec

-----------------------------------------------------------------------------
(* The inductive invariants of the proofs.                                 *)

\* The lock outlives a step exactly while its owner emits under it.
LockOwner ==
  \A t \in Threads : pc[t] \in {"emitDirect", "emitOverflow"} <=> mutex = t

EmptyIsZero      == buffer = <<>> => currentSize = 0
ZeroLimitShrunk  == maxSize = 0 => shrunk

WaitInv ==
  /\ TypeOK
  /\ NothingStranded
  /\ FullMeansFlushing
  /\ LateItemsLeave
  /\ EmptyIsZero
  /\ ZeroLimitShrunk

\* A thread holds a batch exactly while it is about to emit it.
CarryOwner ==
  \A t \in Threads : carry[t] # <<>> <=> pc[t] \in {"emitDirect", "emitBatch"}

\* Items are numbered below nextId, and one that is being refused, the last
\* one, is nowhere yet.
Numbered ==
  LET Known == Buffered \cup Members(rendered) \cup discarded \cup refused
               \cup UNION {InFlight(t) : t \in Threads}
  IN /\ Known \subseteq 1..(nextId - 1)
     /\ \A t \in Threads : InTransit(t) => nextId > 1 /\ nextId - 1 \notin Known

GateInv ==
  /\ TypeOK
  /\ LockOwner
  /\ CarryOwner
  /\ Numbered
  /\ Apart
  /\ Accounted
  /\ Injective(rendered)
  /\ Injective(IdsOf(buffer))
  /\ \A t \in Threads : Injective(carry[t])

-----------------------------------------------------------------------------
(* What the documents say, and the code does not do.                       *)

\* INTEGRATION.md: "Timeout: 100ms flush to prevent stuck output": buffered
\* output that is older than the timeout leaves the buffer.
BufferedOutputAppears ==
  \A i \in 1..MaxItems :
    (i \in Members(IdsOf(buffer)) /\ now - syncStart >= Timeout)
      ~> (i \notin Members(IdsOf(buffer)))
=============================================================================
