---------------------- MODULE SynchronizedBufferProofs ----------------------
(***************************************************************************)
(* SynchronizedBuffer for any set of threads, any sizes, limits, timeout   *)
(* and clock: type correctness, the reasons for which an item may wait in  *)
(* the buffer, the bound on the memory it takes, and the refinement of      *)
(* OutputGate.                                                             *)
(***************************************************************************)
EXTENDS SynchronizedBuffer, WellFoundedInduction, TLAPS

-----------------------------------------------------------------------------
(* Facts about the operators.                                              *)

\* What appendItem keeps of an item is a length, no longer than the item, and
\* with its header it takes at most the limit or half of it plus a header.
LEMMA KeptLenBound ==
  ASSUME NEW n \in Nat, NEW limit \in Nat
  PROVE  /\ KeptLen(n, limit) \in Nat
         /\ KeptLen(n, limit) <= n
         /\ KeptLen(n, limit) + Header
              <= Larger(limit, limit \div 2 + Header)
  BY ConstantsAssumption DEF KeptLen, Smaller, Larger

\* The ids of a sequence of items form a sequence of numbers.
LEMMA IdsOfType ==
  ASSUME NEW items \in Seq(Item)
  PROVE  IdsOf(items) \in Seq(Nat)
<1>1. /\ Len(items) \in Nat
      /\ DOMAIN items = 1..Len(items)
      /\ \A i \in 1..Len(items) : items[i] \in Item
  OBVIOUS
<1>2. \A item \in Item : item.id \in Nat
  BY DEF Item
<1>3. IdsOf(items) \in [1..Len(items) -> Nat]
  BY <1>1, <1>2 DEF IdsOf
<1> QED
  BY <1>1, <1>3

\* The members of a sequence of numbers are numbers.
LEMMA MembersType ==
  ASSUME NEW s \in Seq(Nat)
  PROVE  Members(s) \subseteq Nat
  BY DEF Members

\* What Append does to a sequence.
LEMMA AppendFacts ==
  ASSUME NEW S, NEW s \in Seq(S), NEW e \in S
  PROVE  /\ Append(s, e) \in Seq(S)
         /\ Append(s, e) # <<>>
         /\ DOMAIN s = 1..Len(s)
         /\ DOMAIN Append(s, e) = 1..(Len(s) + 1)
         /\ \A i \in DOMAIN s : Append(s, e)[i] = s[i]
         /\ Append(s, e)[Len(s) + 1] = e
  OBVIOUS

\* The item that write() appends.
LEMMA WrittenItem ==
  ASSUME TypeOK, NEW n \in Sizes
  PROVE  [id |-> nextId, len |-> KeptLen(n, maxSize), at |-> now]
           \in Item
<1>1. n \in Nat /\ now \in Nat /\ maxSize \in Nat /\ nextId \in Nat
  BY ConstantsAssumption DEF TypeOK
<1>2. KeptLen(n, maxSize) \in Nat
  BY <1>1, KeptLenBound
<1> QED
  BY <1>1, <1>2 DEF Item

-----------------------------------------------------------------------------
(* Type correctness.                                                       *)

LEMMA InitTypeOK == Init => TypeOK
<1> SUFFICES ASSUME Init
             PROVE  TypeOK
  OBVIOUS
<1>1. /\ currentSize \in Nat
      /\ maxSize \in 0..MaxLimit
      /\ now \in Clock
      /\ syncStart \in Clock \cup {0}
      /\ nextId \in Nat \ {0}
  BY ConstantsAssumption DEF Init
<1>2. /\ pc \in [Threads -> PCs]
      /\ carry \in [Threads -> Seq(Nat)]
      /\ buffer \in Seq(Item)
      /\ rendered \in Seq(Nat)
  BY DEF Init, PCs
<1>3. /\ mutex \in Threads \cup {NoThread}
      /\ mode \in BOOLEAN /\ shrunk \in BOOLEAN /\ overlapped \in BOOLEAN
      /\ refused \subseteq Nat /\ discarded \subseteq Nat
  BY DEF Init
<1> QED
  BY <1>1, <1>2, <1>3 DEF TypeOK

LEMMA NextTypeOK == TypeOK /\ [Next]_vars => TypeOK'
<1> SUFFICES ASSUME TypeOK, [Next]_vars
             PROVE  TypeOK'
  OBVIOUS
<1> USE ConstantsAssumption DEF TypeOK, Enter, Goto, PCs, lockVars, stateVars,
                               histVars
<1>1. CASE Tick \/ SetClockBack
  BY <1>1 DEF Tick, SetClockBack
<1>2. ASSUME NEW t \in Threads, NEW on \in BOOLEAN, SetSynchronizedMode(t, on)
      PROVE  TypeOK'
  BY <1>2 DEF SetSynchronizedMode
<1>3. ASSUME NEW t \in Threads, WriteDirect(t)
      PROVE  TypeOK'
  BY <1>3 DEF WriteDirect
<1>4. ASSUME NEW t \in Threads, WriteRefused(t)
      PROVE  TypeOK'
  BY <1>4 DEF WriteRefused
<1>5. ASSUME NEW t \in Threads, NEW n \in Sizes, WriteBuffered(t, n)
      PROVE  TypeOK'
  <2>1. n \in Nat /\ now \in Nat /\ maxSize \in Nat
    OBVIOUS
  <2>2. KeptLen(n, maxSize) \in Nat
    BY <2>1, KeptLenBound
  <2>3. buffer' \in Seq(Item)
    BY <1>5, WrittenItem, AppendFacts DEF WriteBuffered
  <2>4. currentSize' \in Nat
    BY <1>5, <2>2 DEF WriteBuffered
  <2> QED
    BY <1>5, <2>3, <2>4 DEF WriteBuffered
<1>6. ASSUME NEW t \in Threads, Flush(t)
      PROVE  TypeOK'
  BY <1>6 DEF Flush
<1>7. ASSUME NEW t \in Threads, Clear(t)
      PROVE  TypeOK'
  <2>1. Members(IdsOf(buffer)) \subseteq Nat
    BY IdsOfType, MembersType
  <2>2. discarded' \subseteq Nat
    BY <1>7, <2>1 DEF Clear
  <2> QED
    BY <1>7, <2>2 DEF Clear
<1>8. ASSUME NEW t \in Threads, NEW limit \in Limits, SetMaxBufferSize(t, limit)
      PROVE  TypeOK'
  BY <1>8 DEF SetMaxBufferSize
<1>9. ASSUME NEW t \in Threads, NotifyMode(t)
      PROVE  TypeOK'
  BY <1>9 DEF NotifyMode
<1>10. ASSUME NEW t \in Threads, EmitDirect(t)
       PROVE  TypeOK'
  BY <1>10 DEF EmitDirect
<1>11. ASSUME NEW t \in Threads, EmitOverflow(t)
       PROVE  TypeOK'
  BY <1>11 DEF EmitOverflow
<1>12. ASSUME NEW t \in Threads, FlushTake(t)
       PROVE  TypeOK'
  BY <1>12, IdsOfType DEF FlushTake
<1>13. ASSUME NEW t \in Threads, EmitBatch(t)
       PROVE  TypeOK'
  BY <1>13 DEF EmitBatch
<1>14. CASE UNCHANGED vars
  BY <1>14 DEF vars
<1> QED
  BY <1>1, <1>2, <1>3, <1>4, <1>5, <1>6, <1>7, <1>8, <1>9, <1>10, <1>11,
     <1>12, <1>13, <1>14 DEF Next, Step, Call, Continue

\* The variables keep their types, for every value of the constants.
THEOREM TypeCorrect == Spec => []TypeOK
  BY InitTypeOK, NextTypeOK, PTL DEF Spec

-----------------------------------------------------------------------------
(* Why an item may wait.                                                   *)

Pending == {"notifyOff", "flush"}

\* A step of t leaves a pending flush pending unless it is t's own flush.
LEMMA FlushStaysUnderWay ==
  ASSUME TypeOK, NEW t \in Threads, NEW l \in PCs, Goto(t, l),
         pc[t] \notin Pending \/ l \in Pending,
         FlushUnderWay
  PROVE  FlushUnderWay'
  BY DEF TypeOK, Goto, FlushUnderWay, Pending

\* A step that sends t to flush() makes a flush pending.
LEMMA FlushBegins ==
  ASSUME TypeOK, NEW t \in Threads, NEW l \in Pending, Goto(t, l)
  PROVE  FlushUnderWay'
  BY DEF TypeOK, Goto, FlushUnderWay, Pending

LEMMA InitWaitInv == Init => WaitInv
<1> SUFFICES ASSUME Init
             PROVE  WaitInv
  OBVIOUS
<1>1. buffer = <<>> /\ currentSize = 0 /\ maxSize > 0 /\ maxSize \in Nat
  BY ConstantsAssumption DEF Init
<1>2. TypeOK
  BY InitTypeOK
<1> QED
  BY <1>1, <1>2 DEF WaitInv, NothingStranded, FullMeansFlushing,
                    LateItemsLeave, EmptyIsZero, ZeroLimitShrunk

\* An action that neither changes the buffer nor its limit, nor ends a flush.
LEMMA QuietStep ==
  ASSUME WaitInv, TypeOK', NEW t \in Threads, NEW l \in PCs, Goto(t, l),
         pc[t] \notin Pending \/ l \in Pending,
         UNCHANGED <<stateVars, shrunk>>
  PROVE  WaitInv'
<1>1. FlushUnderWay => FlushUnderWay'
  BY FlushStaysUnderWay DEF WaitInv
<1> QED
  BY <1>1 DEF WaitInv, stateVars, NothingStranded, FullMeansFlushing,
              LateItemsLeave, EmptyIsZero, ZeroLimitShrunk

LEMMA NextWaitInv == WaitInv /\ [Next]_vars => WaitInv'
<1> SUFFICES ASSUME WaitInv, [Next]_vars
             PROVE  WaitInv'
  OBVIOUS
<1>0. TypeOK /\ TypeOK'
  BY NextTypeOK DEF WaitInv
<1>1. CASE Tick \/ SetClockBack
  BY <1>0, <1>1 DEF Tick, SetClockBack, WaitInv, lockVars, stateVars, histVars,
     FlushUnderWay, NothingStranded, FullMeansFlushing, LateItemsLeave,
     EmptyIsZero, ZeroLimitShrunk
<1>2. ASSUME NEW t \in Threads, NEW on \in BOOLEAN, SetSynchronizedMode(t, on)
      PROVE  WaitInv'
  <2>1. pc[t] = "idle" /\ mode # on /\ mode' = on
        /\ UNCHANGED <<buffer, currentSize, maxSize, shrunk>>
    BY <1>2 DEF SetSynchronizedMode, Enter
  <2>2. CASE on
    <3>1. Goto(t, "notifyOn") /\ ~mode /\ mode'
      BY <1>0, <1>2, <2>1, <2>2 DEF SetSynchronizedMode, TypeOK
    <3>2. FlushUnderWay => FlushUnderWay'
      BY <1>0, <2>1, <3>1, FlushStaysUnderWay DEF PCs, Pending
    <3>3. buffer # <<>> => FlushUnderWay'
      BY <3>1, <3>2 DEF WaitInv, NothingStranded
    <3>4. NothingStranded' /\ FullMeansFlushing' /\ EmptyIsZero'
          /\ ZeroLimitShrunk'
      BY <2>1, <3>1, <3>2, <3>3 DEF WaitInv, NothingStranded,
         FullMeansFlushing, EmptyIsZero, ZeroLimitShrunk
    <3>5. LateItemsLeave'
      BY <1>0, <2>1, <3>3 DEF LateItemsLeave, TypeOK
    <3> QED
      BY <1>0, <3>4, <3>5 DEF WaitInv
  <2>3. CASE ~on
    <3>1. Goto(t, "notifyOff")
      BY <1>2, <2>3 DEF SetSynchronizedMode
    <3>2. FlushUnderWay'
      BY <1>0, <3>1, FlushBegins DEF Pending
    <3> QED
      BY <1>0, <2>1, <3>2 DEF WaitInv, NothingStranded, FullMeansFlushing,
         LateItemsLeave, EmptyIsZero, ZeroLimitShrunk
  <2> QED
    BY <2>2, <2>3
<1>3. ASSUME NEW t \in Threads, WriteDirect(t)
      PROVE  WaitInv'
  BY <1>0, <1>3, QuietStep DEF WriteDirect, Enter, PCs, Pending
<1>4. ASSUME NEW t \in Threads, WriteRefused(t)
      PROVE  WaitInv'
  BY <1>0, <1>4, QuietStep DEF WriteRefused, Enter, PCs, Pending
<1>5. ASSUME NEW t \in Threads, NEW n \in Sizes, WriteBuffered(t, n)
      PROVE  WaitInv'
  <2> DEFINE size == currentSize + KeptLen(n, maxSize) + Header
             item == [id |-> nextId, len |-> KeptLen(n, maxSize),
                      at |-> now]
  <2>1. /\ pc[t] = "idle" /\ mode /\ mode' /\ currentSize < maxSize
        /\ buffer' = Append(buffer, item) /\ currentSize' = size
        /\ UNCHANGED <<maxSize, syncStart, shrunk>>
    BY <1>5 DEF WriteBuffered, Enter, HasRoom
  <2>a. item \in Item /\ buffer \in Seq(Item)
    BY <1>0, WrittenItem DEF TypeOK
  <2> HIDE DEF item
  <2>b. /\ buffer' # <<>>
        /\ DOMAIN buffer = 1..Len(buffer)
        /\ DOMAIN buffer' = 1..(Len(buffer) + 1)
        /\ \A i \in DOMAIN buffer : buffer'[i] = buffer[i]
        /\ buffer'[Len(buffer) + 1] = item
    BY <2>1, <2>a, AppendFacts
  <2>2. NothingStranded'
    BY <2>1 DEF NothingStranded
  <2>3. EmptyIsZero' /\ ZeroLimitShrunk'
    BY <2>1, <2>b DEF EmptyIsZero, ZeroLimitShrunk, WaitInv
  <2>4. CASE NeedsFlush(size, maxSize, syncStart, now)
    <3>1. Goto(t, "flush")
      BY <1>5, <2>4 DEF WriteBuffered
    <3>2. FlushUnderWay'
      BY <1>0, <3>1, FlushBegins DEF Pending
    <3> QED
      BY <1>0, <2>2, <2>3, <3>2 DEF WaitInv, FullMeansFlushing, LateItemsLeave
  <2>5. CASE ~NeedsFlush(size, maxSize, syncStart, now)
    <3>1. Goto(t, "idle")
      BY <1>5, <2>5 DEF WriteBuffered
    <3>2. FlushUnderWay => FlushUnderWay'
      BY <1>0, <2>1, <3>1, FlushStaysUnderWay DEF PCs, Pending
    <3>3. FullMeansFlushing'
      BY <2>1, <2>5 DEF FullMeansFlushing, NeedsFlush
    <3>4. ASSUME NEW i \in DOMAIN buffer', syncStart' > 0,
                 (buffer'[i].at - syncStart') % WordSize >= Timeout
          PROVE  FlushUnderWay'
      <4>1. CASE i \in DOMAIN buffer
        <5>1. buffer'[i] = buffer[i]
          BY <2>b, <4>1
        <5> QED
          BY <2>1, <3>2, <3>4, <4>1, <5>1 DEF WaitInv, LateItemsLeave
      <4>2. CASE i \notin DOMAIN buffer
        <5>1. i = Len(buffer) + 1
          BY <2>a, <2>b, <4>2
        <5>2. buffer'[i].at = now
          BY <2>b, <5>1 DEF item
        <5> QED
          BY <2>1, <2>5, <3>4, <5>2 DEF NeedsFlush
      <4> QED
        BY <4>1, <4>2
    <3> QED
      BY <1>0, <2>2, <2>3, <3>3, <3>4 DEF WaitInv, LateItemsLeave
  <2> QED
    BY <2>4, <2>5
<1>6. ASSUME NEW t \in Threads, Flush(t)
      PROVE  WaitInv'
  BY <1>0, <1>6, QuietStep DEF Flush, Enter, PCs, Pending
<1>7. ASSUME NEW t \in Threads, Clear(t)
      PROVE  WaitInv'
  <2>1. /\ buffer' = <<>> /\ currentSize' = 0
        /\ shrunk' = (shrunk /\ maxSize = 0) /\ maxSize' = maxSize
    BY <1>7 DEF Clear
  <2> QED
    BY <1>0, <2>1 DEF WaitInv, TypeOK, NothingStranded, FullMeansFlushing,
       LateItemsLeave, EmptyIsZero, ZeroLimitShrunk
<1>8. ASSUME NEW t \in Threads, NEW limit \in Limits, SetMaxBufferSize(t, limit)
      PROVE  WaitInv'
  <2>1. /\ UNCHANGED <<mode, buffer, currentSize, syncStart, pc>>
        /\ maxSize' = limit /\ shrunk' = (currentSize >= limit)
    BY <1>8 DEF SetMaxBufferSize
  <2>2. NothingStranded' /\ LateItemsLeave' /\ EmptyIsZero'
    BY <2>1 DEF WaitInv, FlushUnderWay, NothingStranded, LateItemsLeave,
                EmptyIsZero
  <2>3. FullMeansFlushing'
    BY <2>1 DEF FullMeansFlushing
  <2>4. ZeroLimitShrunk'
    <3>1. currentSize >= 0
      BY <1>0 DEF TypeOK
    <3> QED
      BY <2>1, <3>1 DEF ZeroLimitShrunk
  <2> QED
    BY <1>0, <2>2, <2>3, <2>4 DEF WaitInv
<1>9. ASSUME NEW t \in Threads, NotifyMode(t)
      PROVE  WaitInv'
  BY <1>0, <1>9, QuietStep DEF NotifyMode, PCs, Pending, histVars
<1>10. ASSUME NEW t \in Threads, EmitDirect(t)
       PROVE  WaitInv'
  BY <1>0, <1>10, QuietStep DEF EmitDirect, PCs, Pending, histVars
<1>11. ASSUME NEW t \in Threads, EmitOverflow(t)
       PROVE  WaitInv'
  BY <1>0, <1>11, QuietStep DEF EmitOverflow, PCs, Pending
<1>12. ASSUME NEW t \in Threads, FlushTake(t)
       PROVE  WaitInv'
  <2>1. /\ buffer' = <<>> /\ currentSize' = 0
        /\ shrunk' = (shrunk /\ maxSize = 0) /\ maxSize' = maxSize
    BY <1>12 DEF FlushTake, WaitInv, EmptyIsZero
  <2> QED
    BY <1>0, <2>1 DEF WaitInv, TypeOK, NothingStranded, FullMeansFlushing,
       LateItemsLeave, EmptyIsZero, ZeroLimitShrunk
<1>13. ASSUME NEW t \in Threads, EmitBatch(t)
       PROVE  WaitInv'
  BY <1>0, <1>13, QuietStep DEF EmitBatch, PCs, Pending, histVars
<1>14. CASE UNCHANGED vars
  BY <1>0, <1>14 DEF vars, WaitInv, FlushUnderWay, NothingStranded,
     FullMeansFlushing, LateItemsLeave, EmptyIsZero, ZeroLimitShrunk
<1> QED
  BY <1>1, <1>2, <1>3, <1>4, <1>5, <1>6, <1>7, <1>8, <1>9, <1>10, <1>11,
     <1>12, <1>13, <1>14 DEF Next, Step, Call, Continue

LEMMA WaitInvariant == Spec => []WaitInv
  BY InitWaitInv, NextWaitInv, PTL DEF Spec

\* Nothing is left behind in the buffer when the mode is off: some thread is
\* still going to flush it.
THEOREM NothingIsStranded == Spec => []NothingStranded
<1>1. WaitInv => NothingStranded
  BY DEF WaitInv
<1> QED
  BY <1>1, WaitInvariant, PTL

\* write() refuses an item only while a flush is under way, or after the limit
\* was lowered to what is already buffered.
THEOREM FullBufferIsFlushed == Spec => []FullMeansFlushing
<1>1. WaitInv => FullMeansFlushing
  BY DEF WaitInv
<1> QED
  BY <1>1, WaitInvariant, PTL

\* An item written after the deadline of its block does not wait.
THEOREM LateItemsAreFlushed == Spec => []LateItemsLeave
<1>1. WaitInv => LateItemsLeave
  BY DEF WaitInv
<1> QED
  BY <1>1, WaitInvariant, PTL

-----------------------------------------------------------------------------
(* The memory bound.                                                       *)

LEMMA LargerMonotone ==
  ASSUME NEW limit \in 0..MaxLimit
  PROVE  Larger(limit, limit \div 2 + Header)
           <= Larger(MaxLimit, MaxLimit \div 2 + Header)
  BY ConstantsAssumption DEF Larger

LEMMA NextMemoryBound == TypeOK /\ MemoryBound /\ [Next]_vars => MemoryBound'
<1> SUFFICES ASSUME TypeOK, MemoryBound, [Next]_vars
             PROVE  MemoryBound'
  OBVIOUS
<1> DEFINE Bound == MaxLimit + Larger(MaxLimit, MaxLimit \div 2 + Header)
<1>1. Bound \in Nat /\ Bound > 0
  BY ConstantsAssumption DEF Larger
<1>2. ASSUME NEW t \in Threads, NEW n \in Sizes, WriteBuffered(t, n)
      PROVE  MemoryBound'
  <2> DEFINE kept == KeptLen(n, maxSize) + Header
             room == Larger(maxSize, maxSize \div 2 + Header)
             most == Larger(MaxLimit, MaxLimit \div 2 + Header)
  <2>1. n \in Nat /\ maxSize \in Nat /\ maxSize <= MaxLimit
        /\ currentSize \in Nat /\ MaxLimit \in Nat
    BY ConstantsAssumption DEF TypeOK
  <2>2. kept \in Nat /\ kept <= room
    <3>1. KeptLen(n, maxSize) \in Nat /\ kept <= room
      BY <2>1, KeptLenBound
    <3>2. Header \in Nat
      BY ConstantsAssumption
    <3> QED
      BY <3>1, <3>2
  <2>3. room <= most /\ room \in Nat /\ most \in Nat
    BY <2>1, LargerMonotone, ConstantsAssumption DEF Larger
  <2>4. currentSize < maxSize /\ currentSize' = currentSize + kept
    <3>1. currentSize < maxSize
      BY <1>2 DEF WriteBuffered, HasRoom
    <3>2. currentSize' = currentSize + KeptLen(n, maxSize) + Header
      BY <1>2 DEF WriteBuffered
    <3>3. KeptLen(n, maxSize) \in Nat /\ Header \in Nat
      BY <2>1, KeptLenBound, ConstantsAssumption
    <3> QED
      BY <2>1, <3>1, <3>2, <3>3
  <2> HIDE DEF kept, room, most
  <2>5. currentSize' < MaxLimit + most
    BY <2>1, <2>2, <2>3, <2>4
  <2> QED
    BY <2>5 DEF MemoryBound, most
<1>3. ASSUME NEW t \in Threads, Clear(t) \/ FlushTake(t)
      PROVE  MemoryBound'
  <2>1. currentSize' = 0 \/ currentSize' = currentSize
    BY <1>3 DEF Clear, FlushTake
  <2> QED
    BY <1>1, <2>1 DEF MemoryBound
<1>4. CASE UNCHANGED currentSize
  BY <1>4 DEF MemoryBound
<1> QED
  BY <1>2, <1>3, <1>4 DEF Next, Step, Call, Continue, vars, stateVars, histVars,
     Tick, SetClockBack, SetSynchronizedMode, WriteDirect, WriteRefused, Flush,
     SetMaxBufferSize, NotifyMode, EmitDirect, EmitOverflow, EmitBatch

\* Whatever is written, the buffer takes less than the limit plus one item.
THEOREM MemoryIsBounded == Spec => []MemoryBound
<1>1. Init => MemoryBound
  BY ConstantsAssumption DEF Init, MemoryBound, Larger
<1> QED
  BY <1>1, TypeCorrect, NextMemoryBound, PTL DEF Spec

-----------------------------------------------------------------------------
(* The lock and the direct write.                                          *)

DirectInv == TypeOK /\ LockOwner /\ DirectOnlyWhenOff

LEMMA InitDirectInv == Init => DirectInv
<1> SUFFICES ASSUME Init
             PROVE  DirectInv
  OBVIOUS
<1>1. TypeOK
  BY InitTypeOK
<1>2. \A t \in Threads : pc[t] = "idle" /\ mutex # t
  BY ConstantsAssumption DEF Init
<1> QED
  BY <1>1, <1>2 DEF DirectInv, LockOwner, DirectOnlyWhenOff

LEMMA NextDirectInv == DirectInv /\ [Next]_vars => DirectInv'
<1> SUFFICES ASSUME DirectInv, [Next]_vars
             PROVE  DirectInv'
  OBVIOUS
<1>0. TypeOK /\ TypeOK'
  BY NextTypeOK DEF DirectInv
<1> USE <1>0, ConstantsAssumption
    DEF DirectInv, TypeOK, LockOwner, DirectOnlyWhenOff, Enter, Goto,
        lockVars, stateVars, histVars
<1>1. CASE Tick \/ SetClockBack
  BY <1>1 DEF Tick, SetClockBack
<1>2. ASSUME NEW t \in Threads, NEW on \in BOOLEAN, SetSynchronizedMode(t, on)
      PROVE  DirectInv'
  <2>1. \A u \in Threads : pc[u] # "emitDirect"
    BY <1>2 DEF SetSynchronizedMode
  <2> QED
    BY <1>2, <2>1 DEF SetSynchronizedMode
<1>3. ASSUME NEW t \in Threads, WriteDirect(t)
      PROVE  DirectInv'
  BY <1>3 DEF WriteDirect
<1>4. ASSUME NEW t \in Threads, WriteRefused(t)
      PROVE  DirectInv'
  BY <1>4 DEF WriteRefused
<1>5. ASSUME NEW t \in Threads, NEW n \in Sizes, WriteBuffered(t, n)
      PROVE  DirectInv'
  BY <1>5 DEF WriteBuffered
<1>6. ASSUME NEW t \in Threads,
             Flush(t) \/ Clear(t) \/ FlushTake(t) \/ EmitBatch(t)
             \/ NotifyMode(t)
      PROVE  DirectInv'
  BY <1>6 DEF Flush, Clear, FlushTake, EmitBatch, NotifyMode
<1>7. ASSUME NEW t \in Threads, NEW limit \in Limits, SetMaxBufferSize(t, limit)
      PROVE  DirectInv'
  BY <1>7 DEF SetMaxBufferSize
<1>8. ASSUME NEW t \in Threads, EmitDirect(t) \/ EmitOverflow(t)
      PROVE  DirectInv'
  BY <1>8 DEF EmitDirect, EmitOverflow
<1>9. CASE UNCHANGED vars
  BY <1>9 DEF vars
<1> QED
  BY <1>1, <1>2, <1>3, <1>4, <1>5, <1>6, <1>7, <1>8, <1>9
     DEF Next, Step, Call, Continue

\* An unbuffered item is handed over while the mode is off: holding the lock
\* during the emission keeps the mode from being switched on under it.
THEOREM DirectWritesWhileOff == Spec => []DirectOnlyWhenOff
<1>1. DirectInv => DirectOnlyWhenOff
  BY DEF DirectInv
<1> QED
  BY <1>1, InitDirectInv, NextDirectInv, PTL DEF Spec

-----------------------------------------------------------------------------
(***************************************************************************)
(* SynchronizedBuffer implements OutputGate.  GateInv carries the argument: *)
(* the numbers of the items in the buffer, in the hands of the threads, on  *)
(* the screen, thrown away and refused are pairwise different and below     *)
(* nextId.                                                                  *)
(***************************************************************************)

(* Sequences of numbers.                                                   *)

LEMMA EmptySequence ==
  /\ Members(<<>>) = {}
  /\ IdsOf(<<>>) = <<>>
  /\ Injective(<<>>)
  BY DEF Members, IdsOf, Injective

LEMMA MembersConcat ==
  ASSUME NEW s \in Seq(Nat), NEW r \in Seq(Nat)
  PROVE  Members(s \o r) = Members(s) \cup Members(r)
<1>1. /\ DOMAIN (s \o r) = 1..(Len(s) + Len(r))
      /\ \A i \in 1..Len(s) : (s \o r)[i] = s[i]
      /\ \A i \in 1..Len(r) : (s \o r)[Len(s) + i] = r[i]
      /\ DOMAIN s = 1..Len(s) /\ DOMAIN r = 1..Len(r)
      /\ Len(s) \in Nat /\ Len(r) \in Nat
  OBVIOUS
<1>2. ASSUME NEW x \in Members(s \o r)
      PROVE  x \in Members(s) \cup Members(r)
  <2>1. PICK i \in 1..(Len(s) + Len(r)) : x = (s \o r)[i]
    BY <1>1, <1>2 DEF Members
  <2>2. CASE i \in 1..Len(s)
    BY <1>1, <2>1, <2>2 DEF Members
  <2>3. CASE i \notin 1..Len(s)
    <3>1. i - Len(s) \in 1..Len(r) /\ Len(s) + (i - Len(s)) = i
      BY <1>1, <2>3
    <3>2. x = r[i - Len(s)]
      BY <1>1, <2>1, <3>1
    <3> QED
      BY <1>1, <3>1, <3>2 DEF Members
  <2> QED
    BY <2>2, <2>3
<1>3. ASSUME NEW x \in Members(s)
      PROVE  x \in Members(s \o r)
  <2>1. PICK i \in 1..Len(s) : x = s[i]
    BY <1>1, <1>3 DEF Members
  <2>2. i \in DOMAIN (s \o r) /\ (s \o r)[i] = x
    BY <1>1, <2>1
  <2> QED
    BY <2>2 DEF Members
<1>4. ASSUME NEW x \in Members(r)
      PROVE  x \in Members(s \o r)
  <2>1. PICK i \in 1..Len(r) : x = r[i]
    BY <1>1, <1>4 DEF Members
  <2>2. Len(s) + i \in DOMAIN (s \o r) /\ (s \o r)[Len(s) + i] = x
    BY <1>1, <2>1
  <2> QED
    BY <2>2 DEF Members
<1> QED
  BY <1>2, <1>3, <1>4

LEMMA InjectiveConcat ==
  ASSUME NEW s \in Seq(Nat), NEW r \in Seq(Nat),
         Injective(s), Injective(r), Members(s) \cap Members(r) = {}
  PROVE  Injective(s \o r)
<1>1. /\ DOMAIN (s \o r) = 1..(Len(s) + Len(r))
      /\ \A i \in 1..Len(s) : (s \o r)[i] = s[i]
      /\ \A i \in 1..Len(r) : (s \o r)[Len(s) + i] = r[i]
      /\ DOMAIN s = 1..Len(s) /\ DOMAIN r = 1..Len(r)
      /\ Len(s) \in Nat /\ Len(r) \in Nat
  OBVIOUS
<1> SUFFICES ASSUME NEW i \in 1..(Len(s) + Len(r)),
                    NEW j \in 1..(Len(s) + Len(r)),
                    (s \o r)[i] = (s \o r)[j]
             PROVE  i = j
  BY <1>1 DEF Injective
<1>2. \A k \in 1..(Len(s) + Len(r)) :
        \/ k \in 1..Len(s) /\ (s \o r)[k] = s[k] /\ s[k] \in Members(s)
        \/ /\ k - Len(s) \in 1..Len(r) /\ (s \o r)[k] = r[k - Len(s)]
           /\ r[k - Len(s)] \in Members(r)
  <2> TAKE k \in 1..(Len(s) + Len(r))
  <2>1. CASE k \in 1..Len(s)
    BY <1>1, <2>1 DEF Members
  <2>2. CASE k \notin 1..Len(s)
    <3>1. k - Len(s) \in 1..Len(r) /\ Len(s) + (k - Len(s)) = k
      BY <1>1, <2>2
    <3>2. (s \o r)[k] = r[k - Len(s)]
      BY <1>1, <3>1
    <3> QED
      BY <1>1, <3>1, <3>2 DEF Members
  <2> QED
    BY <2>1, <2>2
<1>3. CASE i \in 1..Len(s) /\ (s \o r)[i] = s[i] /\ s[i] \in Members(s)
  <2>1. j \in 1..Len(s) /\ (s \o r)[j] = s[j]
    BY <1>2, <1>3
  <2> QED
    BY <1>1, <1>3, <2>1 DEF Injective
<1>4. CASE /\ i - Len(s) \in 1..Len(r) /\ (s \o r)[i] = r[i - Len(s)]
           /\ r[i - Len(s)] \in Members(r)
  <2>1. j - Len(s) \in 1..Len(r) /\ (s \o r)[j] = r[j - Len(s)]
    BY <1>2, <1>4
  <2>2. i - Len(s) = j - Len(s)
    BY <1>1, <1>4, <2>1 DEF Injective
  <2> QED
    BY <1>1, <2>2
<1> QED
  BY <1>2, <1>3, <1>4

LEMMA Singleton ==
  ASSUME NEW n \in Nat
  PROVE  /\ <<n>> \in Seq(Nat) /\ <<n>> # <<>>
         /\ Members(<<n>>) = {n}
         /\ Injective(<<n>>)
  BY DEF Members, Injective

LEMMA LastOfConcat ==
  ASSUME NEW s \in Seq(Nat), NEW n \in Nat
  PROVE  (s \o <<n>>)[Len(s) + 1] = n
  OBVIOUS

\* write() adds the number of the new item at the end.
LEMMA IdsOfAppend ==
  ASSUME NEW items \in Seq(Item), NEW item \in Item
  PROVE  IdsOf(Append(items, item)) = IdsOf(items) \o <<item.id>>
<1>1. IdsOf(items) \in Seq(Nat) /\ item.id \in Nat
  BY IdsOfType DEF Item
<1>2. /\ Len(items) \in Nat /\ DOMAIN items = 1..Len(items)
      /\ DOMAIN IdsOf(items) = 1..Len(items)
      /\ Len(IdsOf(items)) = Len(items)
  BY <1>1 DEF IdsOf
<1>3. DOMAIN IdsOf(Append(items, item)) = 1..(Len(items) + 1)
  BY AppendFacts DEF IdsOf
<1>4. DOMAIN (IdsOf(items) \o <<item.id>>) = 1..(Len(items) + 1)
  BY <1>1, <1>2
<1>5. ASSUME NEW i \in 1..(Len(items) + 1)
      PROVE  IdsOf(Append(items, item))[i] = (IdsOf(items) \o <<item.id>>)[i]
  <2>1. IdsOf(Append(items, item))[i] = Append(items, item)[i].id
    BY AppendFacts DEF IdsOf
  <2>2. CASE i \in 1..Len(items)
    <3>1. Append(items, item)[i] = items[i]
      BY <1>2, <2>2, AppendFacts
    <3>2. (IdsOf(items) \o <<item.id>>)[i] = IdsOf(items)[i]
      BY <1>1, <1>2, <2>2
    <3>3. IdsOf(items)[i] = items[i].id
      BY <1>2, <2>2 DEF IdsOf
    <3> QED
      BY <2>1, <3>1, <3>2, <3>3
  <2>3. CASE i \notin 1..Len(items)
    <3>1. i = Len(items) + 1
      BY <1>2, <2>3
    <3>2. Append(items, item)[i] = item
      BY <3>1, AppendFacts
    <3>3. (IdsOf(items) \o <<item.id>>)[i] = item.id
      <4>1. (IdsOf(items) \o <<item.id>>)[Len(IdsOf(items)) + 1] = item.id
        BY <1>1, LastOfConcat
      <4> QED
        BY <1>2, <3>1, <4>1
    <3> QED
      BY <2>1, <3>2, <3>3
  <2> QED
    BY <2>2, <2>3
<1>6. /\ IdsOf(Append(items, item)) =
           [i \in 1..(Len(items) + 1) |-> IdsOf(Append(items, item))[i]]
      /\ IdsOf(items) \o <<item.id>> =
           [i \in 1..(Len(items) + 1) |-> (IdsOf(items) \o <<item.id>>)[i]]
  <2>1. Append(items, item) \in Seq(Item)
    BY AppendFacts
  <2>2. IdsOf(Append(items, item)) \in Seq(Nat)
    BY <2>1, IdsOfType
  <2>3. IdsOf(items) \o <<item.id>> \in Seq(Nat)
    BY <1>1
  <2> QED
    BY <1>3, <1>4, <2>2, <2>3
<1> QED
  BY <1>5, <1>6

\* An empty buffer is one without numbers.
LEMMA IdsOfEmpty ==
  ASSUME NEW items \in Seq(Item)
  PROVE  IdsOf(items) = <<>> <=> items = <<>>
<1>1. IdsOf(items) \in Seq(Nat) /\ Len(IdsOf(items)) = Len(items)
  BY IdsOfType DEF IdsOf
<1> QED
  BY <1>1

-----------------------------------------------------------------------------
(* The invariant.                                                          *)

\* The facts about the state that the steps below use.
LEMMA GateTypes ==
  ASSUME TypeOK
  PROVE  /\ IdsOf(buffer) \in Seq(Nat)
         /\ rendered \in Seq(Nat)
         /\ \A t \in Threads : carry[t] \in Seq(Nat)
         /\ nextId \in Nat \ {0}
         /\ NoThread \notin Threads
  BY IdsOfType, ConstantsAssumption DEF TypeOK

LEMMA InitGateInv == Init => GateInv
<1> SUFFICES ASSUME Init
             PROVE  GateInv
  OBVIOUS
<1>1. TypeOK
  BY InitTypeOK
<1>2. /\ buffer = <<>> /\ rendered = <<>> /\ discarded = {} /\ refused = {}
      /\ nextId = 1
      /\ \A t \in Threads : carry[t] = <<>> /\ pc[t] = "idle"
      /\ \A t \in Threads : mutex # t
  BY ConstantsAssumption DEF Init
<1>3. /\ Buffered = {} /\ Members(rendered) = {}
      /\ \A t \in Threads : InFlight(t) = {}
  BY <1>2, EmptySequence DEF Buffered, InFlight
<1>4. LockOwner /\ CarryOwner
  BY <1>2 DEF LockOwner, CarryOwner
<1>5. Numbered /\ Apart
  BY <1>2, <1>3 DEF Numbered, Apart, InTransit
<1>6. Accounted
  BY <1>2 DEF Accounted
<1> QED
  BY <1>1, <1>2, <1>4, <1>5, <1>6, EmptySequence DEF GateInv

\* What is in which place decides most of GateInv.
placeVars == <<buffer, carry, rendered, discarded, refused, nextId>>

\* A step that moves no item and enters or leaves no emission.
LEMMA StillStep ==
  ASSUME GateInv, TypeOK', NEW t \in Threads, NEW l \in PCs, Goto(t, l),
         {pc[t], l} \cap {"emitDirect", "emitBatch", "emitOverflow"} = {},
         UNCHANGED <<placeVars, mutex>>
  PROVE  GateInv'
<1>1. \A u \in Threads :
        /\ pc'[u] \in {"emitDirect", "emitOverflow"} <=>
             pc[u] \in {"emitDirect", "emitOverflow"}
        /\ pc'[u] \in {"emitDirect", "emitBatch"} <=>
             pc[u] \in {"emitDirect", "emitBatch"}
        /\ InTransit(u)' <=> InTransit(u)
  BY DEF GateInv, TypeOK, Goto, InTransit
<1>2. LockOwner' /\ CarryOwner'
  BY <1>1 DEF GateInv, LockOwner, CarryOwner, placeVars
<1>3. Numbered' /\ Apart' /\ Accounted'
  BY <1>1 DEF GateInv, Numbered, Apart, Accounted, Buffered, InFlight,
              placeVars
<1> QED
  BY <1>2, <1>3 DEF GateInv, placeVars
\* Facts about a state of GateInv that do not mention the locals.
LEMMA KnownNumbers ==
  ASSUME GateInv
  PROVE  /\ Buffered \subseteq 1..(nextId - 1)
         /\ Members(rendered) \subseteq 1..(nextId - 1)
         /\ discarded \subseteq 1..(nextId - 1)
         /\ refused \subseteq 1..(nextId - 1)
         /\ \A t \in Threads : InFlight(t) \subseteq 1..(nextId - 1)
         /\ nextId \in Nat \ {0}
         /\ 1..((nextId + 1) - 1) = 1..(nextId - 1) \cup {nextId}
         /\ nextId \notin 1..(nextId - 1)
         /\ (nextId + 1) - 1 = nextId
<1>1. nextId \in Nat \ {0}
  BY DEF GateInv, TypeOK
<1>2. /\ 1..((nextId + 1) - 1) = 1..(nextId - 1) \cup {nextId}
      /\ nextId \notin 1..(nextId - 1)
      /\ (nextId + 1) - 1 = nextId
  BY <1>1
<1>3. /\ Buffered \subseteq 1..(nextId - 1)
      /\ Members(rendered) \subseteq 1..(nextId - 1)
      /\ discarded \subseteq 1..(nextId - 1)
      /\ refused \subseteq 1..(nextId - 1)
      /\ \A t \in Threads : InFlight(t) \subseteq 1..(nextId - 1)
  BY DEF GateInv, Numbered
<1> QED
  BY <1>1, <1>2, <1>3

\* While the lock is free nobody is refusing an item.
LEMMA FreeLock ==
  ASSUME GateInv, mutex = NoThread, NEW t \in Threads
  PROVE  pc[t] \notin {"emitDirect", "emitOverflow"} /\ ~InTransit(t)
  BY ConstantsAssumption DEF GateInv, LockOwner, InTransit

\* write(), mode off: the new number is alone in the hands of t.
LEMMA WriteDirectGate ==
  ASSUME GateInv, TypeOK', LockOwner', NEW t \in Threads, WriteDirect(t)
  PROVE  GateInv'
<1>1. /\ pc[t] = "idle" /\ mutex = NoThread
      /\ pc' = [pc EXCEPT ![t] = "emitDirect"]
      /\ carry' = [carry EXCEPT ![t] = <<nextId>>]
      /\ nextId' = nextId + 1
      /\ UNCHANGED <<buffer, rendered, discarded, refused>>
  BY DEF WriteDirect, Enter, Goto, stateVars
<1>2. /\ TypeOK /\ nextId \in Nat /\ carry[t] = <<>>
      /\ \A u \in Threads : carry'[u] = IF u = t THEN <<nextId>> ELSE carry[u]
      /\ \A u \in Threads : pc'[u] = IF u = t THEN "emitDirect" ELSE pc[u]
  BY <1>1 DEF GateInv, TypeOK, CarryOwner
<1>3. /\ \A u \in Threads :
           InFlight(u)' = IF u = t THEN {nextId} ELSE InFlight(u)
      /\ Buffered' = Buffered
      /\ InFlight(t) = {}
      /\ \A u \in Threads : ~InTransit(u) /\ ~InTransit(u)'
  <2>1. Members(<<nextId>>) = {nextId} /\ Members(carry[t]) = {}
    BY <1>2, Singleton, EmptySequence
  <2>2. \A u \in Threads : ~InTransit(u)
    BY <1>1, FreeLock
  <2>3. \A u \in Threads : ~InTransit(u)'
    BY <1>2, <2>2 DEF InTransit
  <2>4. ASSUME NEW u \in Threads
        PROVE  InFlight(u)' = IF u = t THEN {nextId} ELSE InFlight(u)
    <3>1. CASE u = t
      BY <1>2, <2>1, <3>1 DEF InFlight
    <3>2. CASE u # t
      <4>1. carry'[u] = carry[u]
        BY <1>2, <3>2
      <4> QED
        BY <3>2, <4>1 DEF InFlight
    <3> QED
      BY <3>1, <3>2
  <2>5. Buffered' = Buffered /\ InFlight(t) = {}
    BY <1>1, <2>1 DEF InFlight, Buffered
  <2> QED
    BY <2>2, <2>3, <2>4, <2>5
<1>4. CarryOwner'
  BY <1>1, <1>2, Singleton DEF GateInv, CarryOwner
<1>5. Numbered'
  BY <1>1, <1>3, KnownNumbers DEF Numbered
<1>6. Apart'
  BY <1>1, <1>3, KnownNumbers DEF GateInv, Apart
<1>7. Accounted'
  BY <1>1, <1>3, KnownNumbers DEF GateInv, Accounted
<1>8. \A u \in Threads : Injective(carry[u])'
  BY <1>1, <1>2, Singleton DEF GateInv, Injective
<1> QED
  BY <1>1, <1>4, <1>5, <1>6, <1>7, <1>8 DEF GateInv

\* write(), no room: the new number belongs to the refusal under way.
LEMMA WriteRefusedGate ==
  ASSUME GateInv, TypeOK', LockOwner', NEW t \in Threads, WriteRefused(t)
  PROVE  GateInv'
<1>1. /\ pc[t] = "idle" /\ mutex = NoThread
      /\ pc' = [pc EXCEPT ![t] = "emitOverflow"]
      /\ nextId' = nextId + 1
      /\ UNCHANGED <<buffer, carry, rendered, discarded, refused>>
  BY DEF WriteRefused, Enter, Goto, stateVars
<1>2. \A u \in Threads : pc'[u] = IF u = t THEN "emitOverflow" ELSE pc[u]
  BY <1>1 DEF GateInv, TypeOK
<1>3. /\ \A u \in Threads : InFlight(u)' = InFlight(u)
      /\ Buffered' = Buffered
      /\ \A u \in Threads : ~InTransit(u) /\ (InTransit(u)' <=> u = t)
  BY <1>1, <1>2, FreeLock DEF InFlight, Buffered, InTransit
<1>4. CarryOwner'
  BY <1>1, <1>2 DEF GateInv, CarryOwner
<1>5. Numbered'
  BY <1>1, <1>3, KnownNumbers DEF Numbered
<1>6. Apart'
  BY <1>1, <1>3, KnownNumbers DEF GateInv, Apart
<1>7. Accounted'
  BY <1>1, <1>3, KnownNumbers DEF GateInv, Accounted
<1> QED
  BY <1>1, <1>4, <1>5, <1>6, <1>7 DEF GateInv

\* write(), buffered: the new number goes to the end of the buffer.
LEMMA WriteBufferedGate ==
  ASSUME GateInv, TypeOK', LockOwner', NEW t \in Threads, NEW n \in Sizes,
         WriteBuffered(t, n)
  PROVE  /\ GateInv'
         /\ IdsOf(buffer') = IdsOf(buffer) \o <<nextId>>
<1> DEFINE item == [id |-> nextId, len |-> KeptLen(n, maxSize),
                    at |-> now]
<1>1. /\ pc[t] = "idle" /\ mutex = NoThread
      /\ pc' = [pc EXCEPT ![t] = IF NeedsFlush(currentSize'
                                               , maxSize, syncStart, now)
                                 THEN "flush" ELSE "idle"]
      /\ buffer' = Append(buffer, item)
      /\ nextId' = nextId + 1
      /\ UNCHANGED <<carry, rendered, discarded, refused>>
  BY DEF WriteBuffered, Enter, Goto
<1>2. \A u \in Threads :
        /\ u # t => pc'[u] = pc[u]
        /\ u = t => pc'[u] \in {"flush", "idle"} /\ pc[u] = "idle"
  BY <1>1 DEF GateInv, TypeOK
<1>3. /\ item \in Item /\ item.id = nextId
      /\ buffer \in Seq(Item) /\ nextId \in Nat /\ IdsOf(buffer) \in Seq(Nat)
  BY WrittenItem, IdsOfType DEF GateInv, TypeOK
<1>4. IdsOf(buffer') = IdsOf(buffer) \o <<nextId>>
  <2> HIDE DEF item
  <2> QED
    BY <1>1, <1>3, IdsOfAppend
<1>5. Buffered' = Buffered \cup {nextId}
  BY <1>3, <1>4, MembersConcat, Singleton DEF Buffered
<1>6. \A u \in Threads : /\ InFlight(u)' = InFlight(u)
                         /\ ~InTransit(u) /\ ~InTransit(u)'
  BY <1>1, <1>2, FreeLock DEF InFlight, InTransit
<1>7. CarryOwner'
  BY <1>1, <1>2 DEF GateInv, CarryOwner
<1>8. Numbered'
  BY <1>1, <1>5, <1>6, KnownNumbers DEF Numbered
<1>9. Apart'
  BY <1>1, <1>5, <1>6, KnownNumbers DEF GateInv, Apart
<1>10. Accounted'
  <2> SUFFICES ASSUME NEW i \in 1..nextId
               PROVE  \/ i \in Buffered' \/ i \in Members(rendered)
                      \/ i \in discarded \/ i \in refused
                      \/ \E u \in Threads : i \in InFlight(u)
    BY <1>1, <1>3, <1>6 DEF Accounted
  <2>1. CASE i = nextId
    BY <1>5, <2>1
  <2>2. CASE i # nextId
    <3>1. i \in 1..(nextId - 1)
      BY <1>3, <2>2
    <3> QED
      BY <1>5, <1>6, <3>1 DEF GateInv, Accounted
  <2> QED
    BY <2>1, <2>2
<1>11. Injective(IdsOf(buffer'))
  <2>1. Members(IdsOf(buffer)) \cap Members(<<nextId>>) = {}
    BY <1>3, Singleton, KnownNumbers DEF Buffered
  <2> QED
    BY <1>3, <1>4, <2>1, Singleton, InjectiveConcat DEF GateInv
<1> QED
  BY <1>1, <1>4, <1>7, <1>8, <1>9, <1>10, <1>11 DEF GateInv
\* emit dataReady: what t held is appended to the screen.
LEMMA DeliverGate ==
  ASSUME GateInv, TypeOK', LockOwner', NEW t \in Threads,
         EmitDirect(t) \/ EmitBatch(t)
  PROVE  GateInv'
<1>1. /\ pc[t] \in {"emitDirect", "emitBatch"}
      /\ pc' = [pc EXCEPT ![t] = "idle"]
      /\ carry' = [carry EXCEPT ![t] = <<>>]
      /\ rendered' = rendered \o carry[t]
      /\ UNCHANGED <<buffer, discarded, refused, nextId>>
  BY DEF EmitDirect, EmitBatch, Goto, stateVars, histVars
<1>2. /\ carry'[t] = <<>> /\ pc'[t] = "idle"
      /\ \A u \in Threads \ {t} : carry'[u] = carry[u] /\ pc'[u] = pc[u]
      /\ rendered \in Seq(Nat) /\ carry[t] \in Seq(Nat)
  BY <1>1 DEF GateInv, TypeOK
<1>3. /\ InFlight(t)' = {}
      /\ \A u \in Threads \ {t} : InFlight(u)' = InFlight(u)
  BY <1>2, EmptySequence DEF InFlight
<1>4. Members(rendered') = Members(rendered) \cup InFlight(t)
  BY <1>1, <1>2, MembersConcat DEF InFlight
<1>5. /\ Buffered' = Buffered
      /\ \A u \in Threads : InTransit(u)' <=> InTransit(u)
  BY <1>1, <1>2 DEF Buffered, InTransit
<1>6. CarryOwner'
  BY <1>2 DEF GateInv, CarryOwner
<1>7. Numbered'
  BY <1>1, <1>3, <1>4, <1>5 DEF GateInv, Numbered
<1>8. Apart'
  <2>1. /\ Buffered' \cap (Members(rendered') \cup discarded' \cup refused') = {}
        /\ Members(rendered') \cap (discarded' \cup refused') = {}
        /\ discarded' \cap refused' = {}
    BY <1>1, <1>4, <1>5 DEF GateInv, Apart
  <2>2. ASSUME NEW u \in Threads
        PROVE  InFlight(u)' \cap (Buffered' \cup Members(rendered')
                                   \cup discarded' \cup refused') = {}
    <3>1. CASE u = t
      BY <1>3, <3>1
    <3>2. CASE u # t
      <4>1. /\ InFlight(u) \cap InFlight(t) = {}
            /\ InFlight(u) \cap (Buffered \cup Members(rendered)
                                  \cup discarded \cup refused) = {}
        BY <3>2 DEF GateInv, Apart
      <4> QED
        BY <1>1, <1>3, <1>4, <1>5, <3>2, <4>1
    <3> QED
      BY <3>1, <3>2
  <2>3. \A u, v \in Threads : u # v => InFlight(u)' \cap InFlight(v)' = {}
    BY <1>3 DEF GateInv, Apart
  <2> QED
    BY <2>1, <2>2, <2>3 DEF Apart
<1>9. Accounted'
  BY <1>1, <1>3, <1>4, <1>5 DEF GateInv, Accounted
<1>10. Injective(rendered')
  <2>1. Members(rendered) \cap Members(carry[t]) = {}
    BY DEF GateInv, Apart, InFlight
  <2> QED
    BY <1>1, <1>2, <2>1, InjectiveConcat DEF GateInv
<1>11. \A u \in Threads : Injective(carry'[u])
  BY <1>2, EmptySequence DEF GateInv
<1> QED
  BY <1>1, <1>6, <1>7, <1>8, <1>9, <1>10, <1>11 DEF GateInv

\* emit bufferOverflow: the number of the refusal is entered as refused.
LEMMA OverflowGate ==
  ASSUME GateInv, TypeOK', LockOwner', NEW t \in Threads, EmitOverflow(t)
  PROVE  /\ GateInv'
         /\ \A u \in Threads : ~InTransit(u)' /\ (InTransit(u) <=> u = t)
<1>1. /\ pc[t] = "emitOverflow" /\ mutex' = NoThread
      /\ pc' = [pc EXCEPT ![t] = "idle"]
      /\ refused' = refused \cup {nextId - 1}
      /\ UNCHANGED <<buffer, carry, rendered, discarded, nextId>>
  BY DEF EmitOverflow, Goto, stateVars
<1>2. /\ pc'[t] = "idle"
      /\ \A u \in Threads \ {t} : pc'[u] = pc[u]
  BY <1>1 DEF GateInv, TypeOK
<1>3. /\ Buffered' = Buffered
      /\ \A u \in Threads : InFlight(u)' = InFlight(u)
  BY <1>1 DEF Buffered, InFlight
<1>4. \A u \in Threads : ~InTransit(u)' /\ (InTransit(u) <=> u = t)
  <2>1. mutex = t
    BY <1>1 DEF GateInv, LockOwner
  <2>2. \A u \in Threads \ {t} : pc[u] # "emitOverflow"
    BY <2>1 DEF GateInv, LockOwner
  <2> QED
    BY <1>1, <1>2, <2>2 DEF InTransit
<1>5. CarryOwner'
  BY <1>1, <1>2 DEF GateInv, CarryOwner
<1>6. /\ nextId > 1 /\ nextId - 1 \notin Buffered
      /\ nextId - 1 \notin Members(rendered)
      /\ nextId - 1 \notin discarded
      /\ \A u \in Threads : nextId - 1 \notin InFlight(u)
      /\ nextId - 1 \in 1..(nextId - 1)
  BY <1>4, KnownNumbers DEF GateInv, Numbered
<1>7. Numbered'
  BY <1>1, <1>3, <1>4, <1>6, KnownNumbers DEF Numbered
<1>8. Apart'
  BY <1>1, <1>3, <1>6 DEF GateInv, Apart
<1>9. Accounted'
  BY <1>1, <1>3 DEF GateInv, Accounted
<1> QED
  BY <1>1, <1>4, <1>5, <1>7, <1>8, <1>9 DEF GateInv

\* flush(): the numbers in the buffer pass into the hands of t.
LEMMA FlushTakeGate ==
  ASSUME GateInv, TypeOK', LockOwner', NEW t \in Threads, FlushTake(t)
  PROVE  GateInv'
<1>1. /\ pc[t] = "flush" /\ mutex = NoThread
      /\ pc' = [pc EXCEPT ![t] = IF buffer = <<>> THEN "idle" ELSE "emitBatch"]
      /\ carry' = [carry EXCEPT ![t] = IdsOf(buffer)]
      /\ buffer' = <<>>
      /\ UNCHANGED <<rendered, discarded, refused, nextId>>
  BY DEF FlushTake, Goto
<1>2. /\ carry'[t] = IdsOf(buffer)
      /\ pc'[t] = IF buffer = <<>> THEN "idle" ELSE "emitBatch"
      /\ \A u \in Threads \ {t} : carry'[u] = carry[u] /\ pc'[u] = pc[u]
      /\ buffer \in Seq(Item)
  BY <1>1 DEF GateInv, TypeOK
<1>3. carry[t] = <<>>
  BY <1>1 DEF GateInv, CarryOwner
<1>4. /\ InFlight(t)' = Buffered /\ InFlight(t) = {}
      /\ \A u \in Threads \ {t} : InFlight(u)' = InFlight(u)
      /\ Buffered' = {}
  BY <1>1, <1>2, <1>3, EmptySequence DEF InFlight, Buffered
<1>5. \A u \in Threads : ~InTransit(u) /\ ~InTransit(u)'
  <2>1. \A u \in Threads : ~InTransit(u)
    BY <1>1, FreeLock
  <2> QED
    BY <1>2, <2>1 DEF InTransit
<1>6. CarryOwner'
  BY <1>2, IdsOfEmpty DEF GateInv, CarryOwner
<1>7. Numbered'
  BY <1>1, <1>4, <1>5, KnownNumbers DEF Numbered
<1>8. Apart'
  BY <1>1, <1>4 DEF GateInv, Apart
<1>9. Accounted'
  BY <1>1, <1>4, <1>5 DEF GateInv, Accounted
<1>10. \A u \in Threads : Injective(carry'[u])
  BY <1>2 DEF GateInv
<1>11. Injective(IdsOf(buffer'))
  BY <1>1, EmptySequence
<1> QED
  BY <1>1, <1>6, <1>7, <1>8, <1>9, <1>10, <1>11 DEF GateInv

\* clear(): the numbers in the buffer are thrown away.
LEMMA ClearGate ==
  ASSUME GateInv, TypeOK', LockOwner', NEW t \in Threads, Clear(t)
  PROVE  GateInv'
<1>1. /\ mutex = NoThread /\ buffer' = <<>>
      /\ discarded' = discarded \cup Buffered
      /\ UNCHANGED <<pc, carry, rendered, refused, nextId>>
  BY DEF Clear, Enter, Buffered
<1>2. /\ Buffered' = {}
      /\ \A u \in Threads : InFlight(u)' = InFlight(u)
      /\ \A u \in Threads : ~InTransit(u) /\ ~InTransit(u)'
  <2>1. \A u \in Threads : ~InTransit(u)
    BY <1>1, FreeLock
  <2> QED
    BY <1>1, <2>1, EmptySequence DEF Buffered, InFlight, InTransit
<1>3. CarryOwner'
  BY <1>1 DEF GateInv, CarryOwner
<1>4. Numbered'
  BY <1>1, <1>2, KnownNumbers DEF Numbered
<1>5. Apart'
  BY <1>1, <1>2 DEF GateInv, Apart
<1>6. Accounted'
  BY <1>1, <1>2 DEF GateInv, Accounted
<1> QED
  BY <1>1, <1>3, <1>4, <1>5, <1>6, EmptySequence DEF GateInv
LEMMA NextGateInv == GateInv /\ DirectInv /\ [Next]_vars => GateInv'
<1> SUFFICES ASSUME GateInv, DirectInv, [Next]_vars
             PROVE  GateInv'
  OBVIOUS
<1>0. TypeOK /\ TypeOK' /\ LockOwner'
  BY NextTypeOK, NextDirectInv DEF GateInv, DirectInv
<1>1. CASE UNCHANGED <<placeVars, mutex, pc>>
  <2>1. /\ Buffered' = Buffered
        /\ \A u \in Threads : InFlight(u)' = InFlight(u)
        /\ \A u \in Threads : InTransit(u)' <=> InTransit(u)
    BY <1>1 DEF Buffered, InFlight, InTransit, placeVars
  <2>2. CarryOwner' /\ Numbered' /\ Apart' /\ Accounted'
    BY <1>1, <2>1 DEF GateInv, CarryOwner, Numbered, Apart, Accounted,
                      placeVars
  <2> QED
    BY <1>0, <1>1, <2>2 DEF GateInv, placeVars
<1>2. ASSUME NEW t \in Threads, NEW on \in BOOLEAN, SetSynchronizedMode(t, on)
      PROVE  GateInv'
  <2>1. /\ pc[t] = "idle" /\ UNCHANGED <<placeVars, mutex>>
        /\ Goto(t, IF on THEN "notifyOn" ELSE "notifyOff")
    BY <1>2 DEF SetSynchronizedMode, Enter, placeVars
  <2> QED
    BY <1>0, <2>1, StillStep DEF PCs
<1>3. ASSUME NEW t \in Threads, Flush(t)
      PROVE  GateInv'
  <2>1. pc[t] = "idle" /\ UNCHANGED <<placeVars, mutex>> /\ Goto(t, "flush")
    BY <1>3 DEF Flush, Enter, placeVars, stateVars
  <2> QED
    BY <1>0, <2>1, StillStep DEF PCs
<1>4. ASSUME NEW t \in Threads, NotifyMode(t)
      PROVE  GateInv'
  <2>1. /\ pc[t] \in {"notifyOn", "notifyOff"} /\ UNCHANGED <<placeVars, mutex>>
        /\ Goto(t, IF pc[t] = "notifyOn" THEN "idle" ELSE "flush")
    BY <1>4 DEF NotifyMode, placeVars, stateVars, histVars
  <2> QED
    BY <1>0, <2>1, StillStep DEF PCs
<1>5. ASSUME NEW t \in Threads,
             \/ WriteDirect(t) \/ WriteRefused(t) \/ Clear(t)
             \/ EmitDirect(t) \/ EmitBatch(t) \/ EmitOverflow(t)
             \/ FlushTake(t)
      PROVE  GateInv'
  BY <1>0, <1>5, WriteDirectGate, WriteRefusedGate, ClearGate, DeliverGate,
     OverflowGate, FlushTakeGate
<1>6. ASSUME NEW t \in Threads, NEW n \in Sizes, WriteBuffered(t, n)
      PROVE  GateInv'
  BY <1>0, <1>6, WriteBufferedGate
<1>7. ASSUME NEW t \in Threads, NEW limit \in Limits, SetMaxBufferSize(t, limit)
      PROVE  GateInv'
  BY <1>1, <1>7 DEF SetMaxBufferSize, placeVars
<1>8. CASE Tick \/ SetClockBack
  BY <1>1, <1>8 DEF Tick, SetClockBack, placeVars, lockVars, stateVars,
                    histVars
<1>9. CASE UNCHANGED vars
  BY <1>1, <1>9 DEF vars, placeVars
<1> QED
  BY <1>2, <1>3, <1>4, <1>5, <1>6, <1>7, <1>8, <1>9
     DEF Next, Step, Call, Continue

\* Every item written is in exactly one place and is shown at most once,
\* however write(), flush(), clear() and mode changes interleave.
THEOREM ItemsExactlyOnce == Spec => []ExactlyOnce
<1>1. GateInv => ExactlyOnce
  BY DEF GateInv, ExactlyOnce
<1> QED
  BY <1>1, InitGateInv, NextGateInv, InitDirectInv, NextDirectInv, PTL DEF Spec

-----------------------------------------------------------------------------
(* The refinement.                                                         *)

Batches  == {carry[t] : t \in {u \in Threads : carry[u] # <<>>}}
Refusals == refused \cup {i \in {nextId - 1} : \E t \in Threads : InTransit(t)}

\* A batch has a first item.
LEMMA BatchHasMember ==
  ASSUME NEW s \in Seq(Nat), s # <<>>
  PROVE  Members(s) # {}
<1>1. 1 \in DOMAIN s
  OBVIOUS
<1> QED
  BY <1>1 DEF Members

\* When the batch of t alone changes, so do the batches.
LEMMA BatchesOfOthers ==
  ASSUME GateInv, NEW t \in Threads, NEW s \in Seq(Nat),
         carry' = [carry EXCEPT ![t] = s]
  PROVE  /\ s = <<>> => Batches' = Batches \ {carry[t]}
         /\ carry[t] = <<>> /\ s # <<>> => Batches' = Batches \cup {s}
<1>1. /\ carry'[t] = s
      /\ \A u \in Threads \ {t} : carry'[u] = carry[u]
  BY DEF GateInv, TypeOK
<1>2. ASSUME NEW u \in Threads \ {t}, carry[u] # <<>>
      PROVE  carry[u] # carry[t]
  <2>1. /\ carry[u] \in Seq(Nat)
        /\ Members(carry[u]) \cap Members(carry[t]) = {}
    BY DEF GateInv, TypeOK, Apart, InFlight
  <2> QED
    BY <1>2, <2>1, BatchHasMember
<1>3. ASSUME s = <<>>
      PROVE  Batches' = Batches \ {carry[t]}
  BY <1>1, <1>2, <1>3 DEF Batches
<1>4. ASSUME carry[t] = <<>>, s # <<>>
      PROVE  Batches' = Batches \cup {s}
  BY <1>1, <1>4 DEF Batches
<1> QED
  BY <1>3, <1>4

LEMMA InitGate == Init => Gate!Init
<1> SUFFICES ASSUME Init
             PROVE  Gate!Init
  OBVIOUS
<1>1. IdsOf(buffer) = <<>> /\ Batches = {} /\ Refusals = {}
  BY EmptySequence DEF Init, Batches, Refusals, InTransit
<1> QED
  BY <1>1 DEF Gate!Init, Init, Batches, Refusals

\* The state of the gate.
gateState == <<IdsOf(buffer), Batches, rendered, discarded, Refusals, nextId>>

\* A step that moves no item and neither begins nor ends a refusal.
LEMMA StillGate ==
  ASSUME UNCHANGED placeVars,
         \A u \in Threads : InTransit(u)' <=> InTransit(u)
  PROVE  UNCHANGED gateState
<1>1. Batches' = Batches
  BY DEF Batches, placeVars
<1>2. Refusals' = Refusals
  BY DEF Refusals, placeVars
<1> QED
  BY <1>1, <1>2 DEF gateState, placeVars
LEMMA NextGate ==
  GateInv /\ GateInv' /\ [Next]_vars => [Gate!Next]_(Gate!gateVars)
<1> SUFFICES ASSUME GateInv, GateInv', [Next]_vars
             PROVE  Gate!Next \/ UNCHANGED gateState
  BY DEF Gate!gateVars, gateState, Batches, Refusals
<1>0. TypeOK /\ TypeOK' /\ LockOwner /\ LockOwner'
  BY DEF GateInv
<1>1. CASE UNCHANGED <<placeVars, pc>>
  <2>1. \A u \in Threads : InTransit(u)' <=> InTransit(u)
    BY <1>1 DEF InTransit
  <2> QED
    BY <1>1, <2>1, StillGate
<1>2. ASSUME NEW t \in Threads, NEW l \in PCs, Goto(t, l),
             {pc[t], l} \cap {"emitOverflow"} = {}, UNCHANGED placeVars
      PROVE  UNCHANGED gateState
  <2>1. \A u \in Threads : InTransit(u)' <=> InTransit(u)
    BY <1>0, <1>2 DEF InTransit, TypeOK, Goto
  <2> QED
    BY <1>2, <2>1, StillGate
<1>3. ASSUME NEW t \in Threads, NEW on \in BOOLEAN, SetSynchronizedMode(t, on)
      PROVE  UNCHANGED gateState
  <2>1. /\ pc[t] = "idle" /\ UNCHANGED placeVars
        /\ Goto(t, IF on THEN "notifyOn" ELSE "notifyOff")
    BY <1>3 DEF SetSynchronizedMode, Enter, placeVars
  <2> QED
    BY <1>2, <2>1 DEF PCs
<1>4. ASSUME NEW t \in Threads, Flush(t) \/ NotifyMode(t)
      PROVE  UNCHANGED gateState
  <2>1. /\ pc[t] \in {"idle", "notifyOn", "notifyOff"} /\ UNCHANGED placeVars
        /\ Goto(t, IF pc[t] = "notifyOn" THEN "idle" ELSE "flush")
    BY <1>4 DEF Flush, NotifyMode, Enter, placeVars, stateVars, histVars
  <2> QED
    BY <1>2, <2>1 DEF PCs
<1>5. ASSUME NEW t \in Threads, WriteDirect(t)
      PROVE  Gate!Next
  <2>1. /\ pc[t] = "idle" /\ mutex = NoThread
        /\ pc' = [pc EXCEPT ![t] = "emitDirect"]
        /\ carry' = [carry EXCEPT ![t] = <<nextId>>]
        /\ nextId' = nextId + 1
        /\ UNCHANGED <<buffer, rendered, discarded, refused>>
    BY <1>5 DEF WriteDirect, Enter, Goto, stateVars
  <2>2. Batches' = Batches \cup {<<nextId>>}
    <3>1. carry[t] = <<>> /\ <<nextId>> \in Seq(Nat) /\ <<nextId>> # <<>>
      BY <2>1, Singleton DEF GateInv, CarryOwner, TypeOK
    <3> QED
      BY <2>1, <3>1, BatchesOfOthers
  <2>3. Refusals' = Refusals
    <3>1. \A u \in Threads : ~InTransit(u)
      BY <2>1, FreeLock
    <3>2. \A u \in Threads : ~InTransit(u)'
      BY <1>0, <2>1, <3>1 DEF InTransit, TypeOK
    <3> QED
      BY <2>1, <3>1, <3>2 DEF Refusals
  <2>4. Gate!Pass
    BY <2>1, <2>2, <2>3 DEF Gate!Pass, Batches, Refusals
  <2> QED
    BY <2>4 DEF Gate!Next
<1>6. ASSUME NEW t \in Threads, WriteRefused(t)
      PROVE  Gate!Next
  <2>1. /\ pc[t] = "idle" /\ mutex = NoThread
        /\ pc' = [pc EXCEPT ![t] = "emitOverflow"]
        /\ nextId' = nextId + 1
        /\ UNCHANGED <<buffer, carry, rendered, discarded, refused>>
    BY <1>6 DEF WriteRefused, Enter, Goto, stateVars
  <2>2. Batches' = Batches
    BY <2>1 DEF Batches
  <2>3. Refusals' = Refusals \cup {nextId}
    <3>1. \A u \in Threads : ~InTransit(u)
      BY <2>1, FreeLock
    <3>2. InTransit(t)'
      BY <1>0, <2>1 DEF InTransit, TypeOK
    <3>3. (nextId + 1) - 1 = nextId
      BY <1>0 DEF TypeOK
    <3> QED
      BY <2>1, <3>1, <3>2, <3>3 DEF Refusals
  <2>4. Gate!Refuse
    BY <2>1, <2>2, <2>3 DEF Gate!Refuse, Batches, Refusals
  <2> QED
    BY <2>4 DEF Gate!Next
<1>7. ASSUME NEW t \in Threads, NEW n \in Sizes, WriteBuffered(t, n)
      PROVE  Gate!Next
  <2>1. /\ pc[t] = "idle" /\ mutex = NoThread
        /\ \E l \in {"flush", "idle"} : Goto(t, l)
        /\ nextId' = nextId + 1
        /\ UNCHANGED <<carry, rendered, discarded, refused>>
    BY <1>7 DEF WriteBuffered, Enter
  <2>2. IdsOf(buffer') = IdsOf(buffer) \o <<nextId>>
    BY <1>0, <1>7, WriteBufferedGate
  <2>3. Batches' = Batches
    BY <2>1 DEF Batches
  <2>4. Refusals' = Refusals
    <3>1. \A u \in Threads : ~InTransit(u)
      BY <2>1, FreeLock
    <3>2. \A u \in Threads : ~InTransit(u)'
      BY <1>0, <2>1, <3>1 DEF InTransit, TypeOK, Goto
    <3> QED
      BY <2>1, <3>1, <3>2 DEF Refusals
  <2>5. Gate!Hold
    BY <2>1, <2>2, <2>3, <2>4 DEF Gate!Hold, Batches, Refusals
  <2> QED
    BY <2>5 DEF Gate!Next
<1>8. ASSUME NEW t \in Threads, EmitDirect(t) \/ EmitBatch(t)
      PROVE  Gate!Next
  <2>1. /\ pc[t] \in {"emitDirect", "emitBatch"}
        /\ Goto(t, "idle")
        /\ carry' = [carry EXCEPT ![t] = <<>>]
        /\ rendered' = rendered \o carry[t]
        /\ UNCHANGED <<buffer, discarded, refused, nextId>>
    BY <1>8 DEF EmitDirect, EmitBatch, stateVars, histVars
  <2>2. Batches' = Batches \ {carry[t]}
    <3>1. <<>> \in Seq(Nat)
      OBVIOUS
    <3> QED
      BY <2>1, <3>1, BatchesOfOthers
  <2>3. carry[t] \in Batches
    BY <2>1 DEF GateInv, CarryOwner, Batches
  <2>4. Refusals' = Refusals
    <3>1. \A u \in Threads : InTransit(u)' <=> InTransit(u)
      BY <1>0, <2>1 DEF InTransit, TypeOK, Goto
    <3> QED
      BY <2>1, <3>1 DEF Refusals
  <2>5. \E batch \in Batches :
          /\ rendered' = rendered \o batch
          /\ Batches' = Batches \ {batch}
    BY <2>1, <2>2, <2>3
  <2>6. \E batch \in Batches : Gate!Show(batch)
    BY <2>1, <2>4, <2>5 DEF Gate!Show, Batches, Refusals
  <2> QED
    BY <2>6 DEF Gate!Next, Batches
<1>9. ASSUME NEW t \in Threads, EmitOverflow(t)
      PROVE  UNCHANGED gateState
  <2>1. /\ refused' = refused \cup {nextId - 1}
        /\ UNCHANGED <<buffer, carry, rendered, discarded, nextId>>
    BY <1>9 DEF EmitOverflow, stateVars
  <2>2. \A u \in Threads : ~InTransit(u)' /\ (InTransit(u) <=> u = t)
    BY <1>0, <1>9, OverflowGate
  <2>3. Refusals' = Refusals
    BY <2>1, <2>2 DEF Refusals
  <2>4. Batches' = Batches
    BY <2>1 DEF Batches
  <2> QED
    BY <2>1, <2>3, <2>4 DEF gateState
<1>10. ASSUME NEW t \in Threads, FlushTake(t)
       PROVE  Gate!Next \/ UNCHANGED gateState
  <2>1. /\ pc[t] = "flush" /\ mutex = NoThread
        /\ Goto(t, IF buffer = <<>> THEN "idle" ELSE "emitBatch")
        /\ carry' = [carry EXCEPT ![t] = IdsOf(buffer)]
        /\ buffer' = <<>>
        /\ UNCHANGED <<rendered, discarded, refused, nextId>>
    BY <1>10 DEF FlushTake
  <2>2. /\ carry[t] = <<>> /\ IdsOf(buffer) \in Seq(Nat)
        /\ IdsOf(buffer) = <<>> <=> buffer = <<>>
        /\ IdsOf(buffer') = <<>>
    BY <1>0, <2>1, IdsOfType, IdsOfEmpty, EmptySequence
       DEF GateInv, CarryOwner, TypeOK
  <2>3. Refusals' = Refusals
    <3>1. \A u \in Threads : ~InTransit(u)
      BY <2>1, FreeLock
    <3>2. \A u \in Threads : ~InTransit(u)'
      BY <1>0, <2>1, <3>1 DEF InTransit, TypeOK, Goto
    <3> QED
      BY <2>1, <3>1, <3>2 DEF Refusals
  <2>4. CASE buffer = <<>>
    <3>1. carry' = carry
      BY <1>0, <2>1, <2>2, <2>4 DEF TypeOK
    <3>2. Batches' = Batches
      BY <3>1 DEF Batches
    <3> QED
      BY <2>1, <2>2, <2>3, <2>4, <3>2 DEF gateState
  <2>5. CASE buffer # <<>>
    <3>1. Batches' = Batches \cup {IdsOf(buffer)}
      BY <2>1, <2>2, <2>5, BatchesOfOthers
    <3>2. Gate!Release
      BY <2>1, <2>2, <2>3, <2>5, <3>1 DEF Gate!Release, Batches, Refusals
    <3> QED
      BY <3>2 DEF Gate!Next
  <2> QED
    BY <2>4, <2>5
<1>11. ASSUME NEW t \in Threads, Clear(t)
       PROVE  Gate!Next
  <2>1. /\ buffer' = <<>>
        /\ discarded' = discarded \cup Members(IdsOf(buffer))
        /\ UNCHANGED <<pc, carry, rendered, refused, nextId>>
    BY <1>11 DEF Clear
  <2>2. IdsOf(buffer') = <<>>
    BY <2>1, EmptySequence
  <2>3. Batches' = Batches /\ Refusals' = Refusals
    BY <2>1 DEF Batches, Refusals, InTransit
  <2>4. Gate!Drop
    BY <2>1, <2>2, <2>3 DEF Gate!Drop, Gate!Elements, Members, Batches, Refusals
  <2> QED
    BY <2>4 DEF Gate!Next
<1>12. ASSUME NEW t \in Threads, NEW limit \in Limits, SetMaxBufferSize(t, limit)
       PROVE  Gate!Next \/ UNCHANGED gateState
  BY <1>1, <1>12 DEF SetMaxBufferSize, placeVars
<1>13. CASE Tick \/ SetClockBack \/ UNCHANGED vars
  BY <1>1, <1>13 DEF Tick, SetClockBack, vars, placeVars, lockVars, stateVars,
                     histVars
<1> QED
  BY <1>3, <1>4, <1>5, <1>6, <1>7, <1>8, <1>9, <1>10, <1>11, <1>12, <1>13
     DEF Next, Step, Call, Continue

\* SynchronizedBuffer implements OutputGate: to the renderer every
\* interleaving of the calls looks like a gate that holds items back, lets
\* them out in whole batches and in order, and loses none of them.
THEOREM GateRefinement == Spec => ImplementsGate
  BY InitGateInv, NextGateInv, InitDirectInv, NextDirectInv, InitGate,
     NextGate, PTL DEF Spec, ImplementsGate, Gate!Spec

-----------------------------------------------------------------------------
(* Calls that do not overlap keep the order.                               *)

\* Every number of s is below every number of r.
Before(s, r) == \A x \in Members(s), y \in Members(r) : x < y

OneAtATime ==
  \A t, u \in Threads : pc[t] # "idle" /\ pc[u] # "idle" => t = u

InOrder ==
  /\ Increasing(rendered)
  /\ Increasing(IdsOf(buffer))
  /\ Before(rendered, IdsOf(buffer))
  /\ \A t \in Threads : /\ Increasing(carry[t])
                        /\ Before(rendered, carry[t])
                        /\ Before(carry[t], IdsOf(buffer))

SerialInv == ~overlapped => OneAtATime /\ InOrder

LEMMA IncreasingConcat ==
  ASSUME NEW s \in Seq(Nat), NEW r \in Seq(Nat), Increasing(s), Increasing(r),
         Before(s, r)
  PROVE  Increasing(s \o r)
<1>1. /\ DOMAIN (s \o r) = 1..(Len(s) + Len(r))
      /\ \A i \in 1..Len(s) : (s \o r)[i] = s[i]
      /\ \A i \in 1..Len(r) : (s \o r)[Len(s) + i] = r[i]
      /\ DOMAIN s = 1..Len(s) /\ DOMAIN r = 1..Len(r)
      /\ Len(s) \in Nat /\ Len(r) \in Nat
  OBVIOUS
<1> SUFFICES ASSUME NEW i \in 1..(Len(s) + Len(r)),
                    NEW j \in 1..(Len(s) + Len(r)), i < j
             PROVE  (s \o r)[i] < (s \o r)[j]
  BY <1>1 DEF Increasing
<1>2. CASE j \in 1..Len(s)
  <2>1. i \in 1..Len(s)
    BY <1>1, <1>2
  <2> QED
    BY <1>1, <1>2, <2>1 DEF Increasing
<1>3. CASE i \notin 1..Len(s)
  <2> DEFINE p == i - Len(s)
             q == j - Len(s)
  <2>1. /\ p \in 1..Len(r) /\ q \in 1..Len(r) /\ p < q
        /\ i = Len(s) + p /\ j = Len(s) + q
    BY <1>1, <1>3
  <2> HIDE DEF p, q
  <2> QED
    BY <1>1, <2>1 DEF Increasing
<1>4. CASE i \in 1..Len(s) /\ j \notin 1..Len(s)
  <2> DEFINE q == j - Len(s)
  <2>1. q \in 1..Len(r) /\ j = Len(s) + q
    BY <1>1, <1>4
  <2> HIDE DEF q
  <2>2. (s \o r)[i] = s[i] /\ (s \o r)[j] = r[q]
    BY <1>1, <1>4, <2>1
  <2>3. s[i] \in Members(s) /\ r[q] \in Members(r)
    BY <1>1, <1>4, <2>1 DEF Members
  <2> QED
    BY <2>2, <2>3 DEF Before
<1> QED
  BY <1>2, <1>3, <1>4

LEMMA BeforeConcat ==
  ASSUME NEW s \in Seq(Nat), NEW r \in Seq(Nat), NEW q \in Seq(Nat)
  PROVE  /\ Before(s, q) /\ Before(r, q) => Before(s \o r, q)
         /\ Before(q, s) /\ Before(q, r) => Before(q, s \o r)
  BY MembersConcat DEF Before

LEMMA BeforeEmpty ==
  ASSUME NEW s
  PROVE  /\ Before(s, <<>>) /\ Before(<<>>, s) /\ Increasing(<<>>)
         /\ \A n \in Nat : Increasing(<<n>>)
<1>1. Before(s, <<>>) /\ Before(<<>>, s)
  BY EmptySequence DEF Before
<1>2. Increasing(<<>>) /\ \A n \in Nat : Increasing(<<n>>)
  BY DEF Increasing
<1> QED
  BY <1>1, <1>2

\* A call that does not overlap finds nobody inside a call: nothing is in
\* flight, and with the mode off nothing is buffered either.
LEMMA CallAlone ==
  ASSUME GateInv, NothingStranded, SerialInv, NEW t \in Threads, Enter(t),
         ~overlapped'
  PROVE  /\ ~overlapped /\ InOrder
         /\ \A u \in Threads : pc[u] = "idle" /\ carry[u] = <<>>
         /\ ~mode => buffer = <<>>
<1>1. ~overlapped /\ \A u \in Threads : pc[u] = "idle"
  BY DEF Enter
<1>2. \A u \in Threads : carry[u] = <<>>
  BY <1>1 DEF GateInv, CarryOwner
<1>3. ~mode => buffer = <<>>
  BY <1>1 DEF NothingStranded, FlushUnderWay
<1> QED
  BY <1>1, <1>2, <1>3 DEF SerialInv

\* The call is then the only one.
LEMMA OnlyOne ==
  ASSUME TypeOK, NEW t \in Threads, \A u \in Threads \ {t} : pc[u] = "idle",
         \/ pc' = pc
         \/ \E l \in PCs : pc' = [pc EXCEPT ![t] = l]
  PROVE  OneAtATime'
<1>1. \A u \in Threads \ {t} : pc'[u] = "idle"
  BY DEF TypeOK
<1> QED
  BY <1>1 DEF OneAtATime

LEMMA NewIsLast ==
  ASSUME GateInv
  PROVE  /\ Before(rendered, <<nextId>>)
         /\ Before(IdsOf(buffer), <<nextId>>)
         /\ \A t \in Threads : Before(carry[t], <<nextId>>)
<1>1. nextId \in Nat \ {0} /\ Members(<<nextId>>) = {nextId}
  BY KnownNumbers, Singleton
<1>2. \A x \in 1..(nextId - 1) : x < nextId
  BY <1>1
<1> QED
  BY <1>1, <1>2, KnownNumbers DEF Before, Buffered, InFlight

LEMMA WriteSerial ==
  ASSUME GateInv, NothingStranded, SerialInv, NEW t \in Threads, ~overlapped',
         \/ WriteDirect(t) \/ WriteRefused(t) \/ Clear(t)
         \/ \E n \in Sizes : WriteBuffered(t, n)
  PROVE  OneAtATime' /\ InOrder'
<1>1. Enter(t) /\ TypeOK
  BY DEF WriteDirect, WriteRefused, Clear, WriteBuffered, GateInv
<1>2. /\ InOrder /\ \A u \in Threads : pc[u] = "idle" /\ carry[u] = <<>>
      /\ ~mode => buffer = <<>>
  BY <1>1, CallAlone
<1>3. OneAtATime'
  <2>1. \/ pc' = pc
        \/ \E l \in PCs : pc' = [pc EXCEPT ![t] = l]
    BY DEF WriteDirect, WriteRefused, Clear, WriteBuffered, Goto, PCs
  <2> QED
    BY <1>1, <1>2, <2>1, OnlyOne
<1>4. CASE WriteDirect(t)
  <2>1. /\ buffer' = buffer /\ rendered' = rendered /\ buffer = <<>>
        /\ carry'[t] = <<nextId>> /\ nextId \in Nat
        /\ \A u \in Threads \ {t} : carry'[u] = carry[u]
    BY <1>1, <1>2, <1>4 DEF WriteDirect, stateVars, TypeOK
  <2>2. IdsOf(buffer') = <<>> /\ IdsOf(buffer) = <<>>
    BY <2>1, EmptySequence
  <2>3. \A u \in Threads : /\ Increasing(carry'[u])
                           /\ Before(rendered, carry'[u])
                           /\ Before(carry'[u], <<>>)
    <3> TAKE u \in Threads
    <3>1. CASE u = t
      BY <2>1, <3>1, NewIsLast, BeforeEmpty
    <3>2. CASE u # t
      BY <1>2, <2>1, <3>2, BeforeEmpty
    <3> QED
      BY <3>1, <3>2
  <2> QED
    BY <1>2, <1>3, <2>1, <2>2, <2>3 DEF InOrder
<1>5. CASE WriteRefused(t)
  <2>1. UNCHANGED <<buffer, rendered, carry>>
    BY <1>5 DEF WriteRefused, stateVars
  <2> QED
    BY <1>2, <1>3, <2>1 DEF InOrder
<1>6. CASE Clear(t)
  <2>1. buffer' = <<>> /\ UNCHANGED <<rendered, carry>>
    BY <1>6 DEF Clear
  <2>2. IdsOf(buffer') = <<>>
    BY <2>1, EmptySequence
  <2> QED
    BY <1>2, <1>3, <2>1, <2>2, BeforeEmpty DEF InOrder
<1>7. ASSUME NEW n \in Sizes, WriteBuffered(t, n)
      PROVE  OneAtATime' /\ InOrder'
  <2> DEFINE item == [id |-> nextId, len |-> KeptLen(n, maxSize), at |-> now]
             ids == IdsOf(buffer)
  <2>1. buffer' = Append(buffer, item) /\ UNCHANGED <<rendered, carry>>
    BY <1>7 DEF WriteBuffered
  <2>2. item \in Item /\ item.id = nextId
    BY <1>1, WrittenItem
  <2> HIDE DEF item
  <2>3. IdsOf(buffer') = ids \o <<nextId>>
    BY <1>1, <2>1, <2>2, IdsOfAppend DEF TypeOK
  <2>4. /\ ids \in Seq(Nat) /\ rendered \in Seq(Nat) /\ nextId \in Nat
        /\ <<nextId>> \in Seq(Nat)
    BY <1>1, GateTypes, Singleton
  <2>5. /\ Increasing(ids) /\ Before(rendered, ids) /\ Increasing(rendered)
        /\ Before(ids, <<nextId>>) /\ Before(rendered, <<nextId>>)
        /\ Increasing(<<nextId>>)
    BY <1>2, <2>4, NewIsLast, BeforeEmpty DEF InOrder
  <2> HIDE DEF ids
  <2>6. Increasing(ids \o <<nextId>>) /\ Before(rendered, ids \o <<nextId>>)
    BY <2>4, <2>5, IncreasingConcat, BeforeConcat
  <2>7. \A u \in Threads : /\ Increasing(carry'[u])
                           /\ Before(rendered, carry'[u])
                           /\ Before(carry'[u], ids \o <<nextId>>)
    BY <1>2, <2>1, BeforeEmpty
  <2> QED
    BY <1>3, <2>1, <2>3, <2>5, <2>6, <2>7 DEF InOrder
<1> QED
  BY <1>4, <1>5, <1>6, <1>7

\* The one thread that emits moves its batch from the front of the buffer to
\* the end of what is rendered.
LEMMA EmitSerial ==
  ASSUME GateInv, OneAtATime, InOrder, NEW t \in Threads,
         \/ EmitDirect(t) \/ EmitBatch(t) \/ EmitOverflow(t) \/ FlushTake(t)
         \/ NotifyMode(t)
  PROVE  OneAtATime' /\ InOrder'
<1>1. TypeOK /\ pc[t] # "idle"
  BY DEF GateInv, EmitDirect, EmitBatch, EmitOverflow, FlushTake, NotifyMode
<1>2. \A u \in Threads \ {t} : pc[u] = "idle" /\ carry[u] = <<>>
  BY <1>1 DEF OneAtATime, GateInv, CarryOwner
<1>3. OneAtATime'
  <2>1. \E l \in PCs : pc' = [pc EXCEPT ![t] = l]
    BY DEF EmitDirect, EmitBatch, EmitOverflow, FlushTake, NotifyMode, Goto, PCs
  <2> QED
    BY <1>1, <1>2, <2>1, OnlyOne
<1>4. /\ rendered \in Seq(Nat) /\ carry[t] \in Seq(Nat)
      /\ IdsOf(buffer) \in Seq(Nat) /\ carry \in [Threads -> Seq(Nat)]
  BY <1>1, GateTypes DEF TypeOK
<1>5. CASE EmitDirect(t) \/ EmitBatch(t)
  <2>1. /\ rendered' = rendered \o carry[t] /\ buffer' = buffer
        /\ carry' = [carry EXCEPT ![t] = <<>>]
    BY <1>5 DEF EmitDirect, EmitBatch, stateVars
  <2>2. \A u \in Threads : carry'[u] = <<>>
    BY <1>2, <1>4, <2>1
  <2> DEFINE c == carry[t]
             ids == IdsOf(buffer)
  <2>3. /\ Increasing(rendered) /\ Increasing(c) /\ Before(rendered, c)
        /\ Before(c, ids) /\ Before(rendered, ids) /\ Increasing(ids)
    BY DEF InOrder
  <2>4. rendered' = rendered \o c /\ c \in Seq(Nat) /\ ids \in Seq(Nat)
        /\ IdsOf(buffer') = ids
    BY <1>4, <2>1
  <2> HIDE DEF c, ids
  <2>5. Increasing(rendered') /\ Before(rendered', ids)
    BY <1>4, <2>3, <2>4, IncreasingConcat, BeforeConcat
  <2> QED
    BY <1>3, <2>2, <2>3, <2>4, <2>5, BeforeEmpty DEF InOrder
<1>6. CASE EmitOverflow(t) \/ NotifyMode(t)
  <2>1. UNCHANGED <<buffer, rendered, carry>>
    BY <1>6 DEF EmitOverflow, NotifyMode, stateVars
  <2> QED
    BY <1>3, <2>1 DEF InOrder
<1>7. CASE FlushTake(t)
  <2>1. /\ buffer' = <<>> /\ rendered' = rendered
        /\ carry' = [carry EXCEPT ![t] = IdsOf(buffer)]
    BY <1>7 DEF FlushTake
  <2>2. /\ carry'[t] = IdsOf(buffer) /\ IdsOf(buffer') = <<>>
        /\ \A u \in Threads \ {t} : carry'[u] = <<>>
    BY <1>2, <1>4, <2>1, EmptySequence
  <2>3. \A u \in Threads : /\ Increasing(carry'[u])
                           /\ Before(rendered, carry'[u])
                           /\ Before(carry'[u], <<>>)
    BY <2>2, BeforeEmpty DEF InOrder
  <2> QED
    BY <1>3, <2>1, <2>2, <2>3, BeforeEmpty DEF InOrder
<1> QED
  BY <1>5, <1>6, <1>7

LEMMA NextSerial ==
  GateInv /\ NothingStranded /\ SerialInv /\ [Next]_vars => SerialInv'
<1> SUFFICES ASSUME GateInv, NothingStranded, SerialInv, [Next]_vars,
                    ~overlapped'
             PROVE  OneAtATime' /\ InOrder'
  BY DEF SerialInv
<1>1. ASSUME NEW t \in Threads,
             \/ WriteDirect(t) \/ WriteRefused(t) \/ Clear(t)
             \/ \E n \in Sizes : WriteBuffered(t, n)
      PROVE  OneAtATime' /\ InOrder'
  BY <1>1, WriteSerial
<1>2. ASSUME NEW t \in Threads,
             \/ \E on \in BOOLEAN : SetSynchronizedMode(t, on)
             \/ Flush(t)
             \/ \E limit \in Limits : SetMaxBufferSize(t, limit)
      PROVE  OneAtATime' /\ InOrder'
  <2>1. /\ Enter(t) /\ UNCHANGED <<buffer, rendered, carry>>
        /\ pc' = pc \/ \E l \in PCs : pc' = [pc EXCEPT ![t] = l]
    BY <1>2 DEF SetSynchronizedMode, Flush, SetMaxBufferSize, Goto, PCs,
                stateVars
  <2>2. InOrder /\ \A u \in Threads : pc[u] = "idle"
    BY <2>1, CallAlone
  <2>3. OneAtATime'
    BY <2>1, <2>2, OnlyOne DEF GateInv
  <2> QED
    BY <2>1, <2>2, <2>3 DEF InOrder
<1>3. ASSUME NEW t \in Threads, Continue(t)
      PROVE  OneAtATime' /\ InOrder'
  <2>1. ~overlapped
    BY <1>3 DEF Continue, EmitDirect, EmitBatch, EmitOverflow, FlushTake,
                NotifyMode, histVars
  <2> QED
    BY <1>3, <2>1, EmitSerial DEF Continue, SerialInv
<1>4. CASE Tick \/ SetClockBack \/ UNCHANGED vars
  <2>1. UNCHANGED <<pc, buffer, rendered, carry, overlapped>>
    BY <1>4 DEF Tick, SetClockBack, vars, lockVars, stateVars, histVars
  <2> QED
    BY <2>1 DEF SerialInv, OneAtATime, InOrder
<1> QED
  BY <1>1, <1>2, <1>3, <1>4 DEF Next, Step, Call

\* Calls that do not overlap in time, from whichever threads, show the items in
\* the order in which they were written.
THEOREM SerialCallsKeepOrder == Spec => []SerialOrder
<1>1. Init => SerialInv
  <2> SUFFICES ASSUME Init PROVE OneAtATime /\ InOrder
    BY DEF SerialInv
  <2>1. /\ rendered = <<>> /\ buffer = <<>>
        /\ \A t \in Threads : pc[t] = "idle" /\ carry[t] = <<>>
    BY DEF Init
  <2> QED
    BY <2>1, EmptySequence, BeforeEmpty DEF OneAtATime, InOrder
<1>2. GateInv /\ SerialInv => SerialOrder
  <2> SUFFICES ASSUME GateInv, InOrder
               PROVE  /\ Increasing(rendered)
                      /\ \A t \in Threads :
                           Increasing(rendered \o carry[t] \o IdsOf(buffer))
    BY DEF SerialInv, SerialOrder
  <2> SUFFICES ASSUME NEW t \in Threads
               PROVE  Increasing(rendered \o carry[t] \o IdsOf(buffer))
    BY DEF InOrder
  <2> DEFINE c == carry[t]
             ids == IdsOf(buffer)
  <2>1. rendered \in Seq(Nat) /\ c \in Seq(Nat) /\ ids \in Seq(Nat)
    BY GateTypes DEF GateInv
  <2>2. /\ Increasing(rendered) /\ Increasing(c) /\ Before(rendered, c)
        /\ Before(c, ids) /\ Before(rendered, ids) /\ Increasing(ids)
    BY DEF InOrder
  <2> HIDE DEF c, ids
  <2>3. /\ Increasing(rendered \o c) /\ Before(rendered \o c, ids)
        /\ rendered \o c \in Seq(Nat)
    BY <2>1, <2>2, IncreasingConcat, BeforeConcat
  <2>4. Increasing((rendered \o c) \o ids)
    BY <2>1, <2>2, <2>3, IncreasingConcat
  <2> QED
    BY <2>4 DEF c, ids
<1> QED
  BY <1>1, <1>2, NextSerial, NothingIsStranded, InitGateInv, NextGateInv,
     InitDirectInv, NextDirectInv, PTL DEF Spec

-----------------------------------------------------------------------------
(* The counter m_currentSize and the list m_buffer.  TotalSize is defined  *)
(* by recursion over the list; what it gives for an empty list and for one *)
(* item more follows from induction over the natural numbers, in the form  *)
(* of a set that contains 0 and, with each number, the next.               *)

\* Induction: by the well-foundedness of < there is no least number outside.
LEMMA SetInduction ==
  ASSUME NEW S \in SUBSET Nat, 0 \in S, \A n \in S : n + 1 \in S
  PROVE  S = Nat
<1> DEFINE R == OpToRel(<, Nat)
           T == Nat \ S
<1> SUFFICES ASSUME T # {} PROVE FALSE
  OBVIOUS
<1>1. IsWellFoundedOn(R, Nat)
  BY NatLessThanWellFounded
<1>2. \A x, y \in Nat : y < x => <<y, x>> \in R
  BY DEF OpToRel
<1>3. T \subseteq Nat
  OBVIOUS
<1> HIDE DEF R
<1>4. PICK x \in T : \A y \in T : ~(<<y, x>> \in R)
  BY <1>1, <1>3, WFMin
<1>5. x \in Nat /\ x # 0 /\ x \notin S
  OBVIOUS
<1>6. x - 1 \in Nat /\ x - 1 < x /\ (x - 1) + 1 = x
  BY <1>5
<1>7. x - 1 \in S
  BY <1>2, <1>4, <1>5, <1>6
<1> QED
  BY <1>5, <1>6, <1>7

\* f is the table of the sizes of the first n items of s.
Sums(f, s, n) ==
  f = [i \in 0..n |-> IF i = 0 THEN 0 ELSE f[i - 1] + s[i].len + Header]

LEMMA SumsExist ==
  ASSUME NEW s, NEW n \in Nat
  PROVE  \E f : Sums(f, s, n)
<1> DEFINE S == {m \in Nat : \E f : Sums(f, s, m)}
<1>1. 0 \in S
  <2> DEFINE f == [i \in 0..0 |-> 0]
  <2>1. f = [i \in 0..0 |-> IF i = 0 THEN 0 ELSE f[i - 1] + s[i].len + Header]
    OBVIOUS
  <2> QED
    BY <2>1 DEF Sums
<1>2. ASSUME NEW m \in S PROVE m + 1 \in S
  <2>1. PICK f : Sums(f, s, m)
    OBVIOUS
  <2> DEFINE g == [i \in 0..(m + 1) |->
                     IF i = m + 1 THEN f[m] + s[m + 1].len + Header ELSE f[i]]
  <2>2. m \in Nat
    OBVIOUS
  <2>3. ASSUME NEW i \in 0..(m + 1)
        PROVE  g[i] = IF i = 0 THEN 0 ELSE g[i - 1] + s[i].len + Header
    <3>1. CASE i = m + 1
      BY <2>2, <3>1
    <3>2. CASE i # m + 1
      <4>1. i \in 0..m /\ g[i] = f[i] /\ (i # 0 => g[i - 1] = f[i - 1])
        BY <2>2, <3>2
      <4>2. f[i] = IF i = 0 THEN 0 ELSE f[i - 1] + s[i].len + Header
        BY <2>1, <4>1 DEF Sums
      <4> QED
        BY <4>1, <4>2
    <3> QED
      BY <3>1, <3>2
  <2>4. Sums(g, s, m + 1)
    BY <2>3 DEF Sums
  <2> QED
    BY <2>2, <2>4
<1> HIDE DEF S
<1>3. S = Nat
  <2>1. S \in SUBSET Nat
    BY DEF S
  <2> QED
    BY <1>1, <1>2, <2>1, SetInduction
<1> QED
  BY <1>3 DEF S

\* Two tables agree as far as their sequences do.
LEMMA SumsAgree ==
  ASSUME NEW s, NEW r, NEW m \in Nat, NEW n \in Nat, m <= n,
         \A i \in 1..m : s[i] = r[i],
         NEW f, Sums(f, s, m), NEW g, Sums(g, r, n)
  PROVE  f[m] = g[m]
<1> DEFINE S == {i \in Nat : i <= m => f[i] = g[i]}
<1>1. 0 \in S
  BY DEF Sums
<1>2. ASSUME NEW i \in S PROVE i + 1 \in S
  <2> SUFFICES ASSUME i + 1 <= m PROVE f[i + 1] = g[i + 1]
    OBVIOUS
  <2>1. i \in Nat /\ f[i] = g[i]
    OBVIOUS
  <2> DEFINE k == i + 1
  <2>2. k \in 0..m /\ k \in 0..n /\ k # 0 /\ k - 1 = i /\ k \in 1..m
    BY <2>1
  <2> HIDE DEF k
  <2>3. /\ f[k] = f[i] + s[k].len + Header
        /\ g[k] = g[i] + r[k].len + Header
    BY <2>2 DEF Sums
  <2>4. s[k] = r[k]
    BY <2>2
  <2> QED
    BY <2>1, <2>3, <2>4 DEF k
<1> HIDE DEF S
<1>3. S = Nat
  <2>1. S \in SUBSET Nat
    BY DEF S
  <2> QED
    BY <1>1, <1>2, <2>1, SetInduction
<1> QED
  BY <1>3 DEF S

\* TotalSize is the last entry of a table.
LEMMA TotalIsSums ==
  ASSUME NEW s, Len(s) \in Nat, NEW f, Sums(f, s, Len(s))
  PROVE  TotalSize(s) = f[Len(s)]
<1> DEFINE g == CHOOSE h : Sums(h, s, Len(s))
<1>1. Sums(g, s, Len(s))
  OBVIOUS
<1>2. TotalSize(s) = g[Len(s)]
  BY DEF TotalSize, Sums
<1> HIDE DEF g
<1>3. f[Len(s)] = g[Len(s)]
  BY <1>1, SumsAgree
<1> QED
  BY <1>2, <1>3

\* The size of nothing.
LEMMA TotalOfNothing == TotalSize(<<>>) = 0
<1>1. PICK f : Sums(f, <<>>, 0)
  BY SumsExist
<1>2. Len(<<>>) = 0
  OBVIOUS
<1>3. TotalSize(<<>>) = f[0]
  BY <1>1, <1>2, TotalIsSums
<1> QED
  BY <1>1, <1>3 DEF Sums

\* The size of one item more.
LEMMA TotalOfAppend ==
  ASSUME NEW s \in Seq(Item), NEW x \in Item
  PROVE  TotalSize(Append(s, x)) = TotalSize(s) + x.len + Header
<1> DEFINE r == Append(s, x)
           n == Len(s)
<1>1. /\ n \in Nat /\ Len(r) = n + 1 /\ r[n + 1] = x
      /\ \A i \in 1..n : s[i] = r[i]
  OBVIOUS
<1> HIDE DEF r, n
<1>2. PICK f : Sums(f, s, n)
  BY <1>1, SumsExist
<1>3. n + 1 \in Nat
  BY <1>1
<1>4. PICK g : Sums(g, r, n + 1)
  BY <1>3, SumsExist
<1>5. n <= n + 1
  BY <1>1
<1>6. f[n] = g[n]
  BY <1>1, <1>2, <1>3, <1>4, <1>5, SumsAgree
<1>7. TotalSize(s) = f[n]
  BY <1>1, <1>2, TotalIsSums DEF n
<1>8. TotalSize(r) = g[n + 1]
  BY <1>1, <1>3, <1>4, TotalIsSums
<1>9. g[n + 1] = g[n] + r[n + 1].len + Header
  <2> DEFINE k == n + 1
  <2>1. k \in 0..k /\ k # 0 /\ k - 1 = n
    BY <1>1
  <2>2. Sums(g, r, k)
    BY <1>4
  <2> HIDE DEF k
  <2>3. g[k] = g[n] + r[k].len + Header
    BY <2>1, <2>2 DEF Sums
  <2> QED
    BY <2>3 DEF k
<1> QED
  BY <1>1, <1>6, <1>7, <1>8, <1>9 DEF r

\* A step keeps the counter and the list in step.
LEMMA NextSizeAccounting ==
  TypeOK /\ SizeAccounting /\ [Next]_vars => SizeAccounting'
<1> SUFFICES ASSUME TypeOK, SizeAccounting, [Next]_vars
             PROVE  SizeAccounting'
  OBVIOUS
<1>1. CASE UNCHANGED <<buffer, currentSize>>
  BY <1>1 DEF SizeAccounting
<1>2. ASSUME NEW t \in Threads, NEW n \in Sizes, WriteBuffered(t, n)
      PROVE  SizeAccounting'
  <2> DEFINE x == [id |-> nextId, len |-> KeptLen(n, maxSize), at |-> now]
  <2>1. x \in Item /\ x.len = KeptLen(n, maxSize) /\ buffer \in Seq(Item)
    BY WrittenItem DEF TypeOK
  <2>2. /\ buffer' = Append(buffer, x)
        /\ currentSize' = currentSize + KeptLen(n, maxSize) + Header
    BY <1>2 DEF WriteBuffered
  <2> HIDE DEF x
  <2>3. TotalSize(Append(buffer, x)) = TotalSize(buffer) + x.len + Header
    BY <2>1, TotalOfAppend
  <2> QED
    BY <2>1, <2>2, <2>3 DEF SizeAccounting
<1>3. ASSUME NEW t \in Threads, FlushTake(t)
      PROVE  SizeAccounting'
  BY <1>3, TotalOfNothing DEF FlushTake, SizeAccounting
<1>4. ASSUME NEW t \in Threads, Clear(t)
      PROVE  SizeAccounting'
  BY <1>4, TotalOfNothing DEF Clear, SizeAccounting
<1>5. \/ UNCHANGED <<buffer, currentSize>>
      \/ \E t \in Threads : \/ \E n \in Sizes : WriteBuffered(t, n)
                            \/ FlushTake(t) \/ Clear(t)
  BY DEF Next, Step, Call, Continue, Tick, SetClockBack, SetSynchronizedMode,
         NotifyMode, WriteDirect, WriteRefused, EmitDirect, EmitOverflow,
         Flush, EmitBatch, SetMaxBufferSize, stateVars, vars
<1> QED
  BY <1>1, <1>2, <1>3, <1>4, <1>5

\* m_currentSize is at all times what the items of m_buffer take, so the
\* limit that write() and needsFlush() compare with it limits the memory.
THEOREM SizeIsAccounted == Spec => []SizeAccounting
<1>1. Init => SizeAccounting
  BY TotalOfNothing DEF Init, SizeAccounting
<1> QED
  BY <1>1, NextSizeAccounting, TypeCorrect, PTL DEF Spec
=============================================================================
