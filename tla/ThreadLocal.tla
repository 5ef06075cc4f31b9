---------------------------- MODULE ThreadLocal ----------------------------
(***************************************************************************)
(* Utility/ThreadLocal and ThreadLocalWatcher: one value per thread, kept   *)
(* in a few static slots and, when these are taken, in a vector.  A Local   *)
(* belongs to a thread id; the ids are those of the operating system and    *)
(* are given to new threads again.                                          *)
(*                                                                          *)
(* reset(), clear() and clearAll() are critical sections, one step each.    *)
(* get() scans the slots without the lock: the pointer is loaded in one     *)
(* step and the Local behind it read in the next.  QThread::finished is     *)
(* emitted in the thread that ends, while the ThreadLocal lives in the main *)
(* thread: the connected clear(id) is queued and runs there, later.         *)
(***************************************************************************)
EXTENDS Integers, Sequences, FiniteSets

CONSTANTS
  Workers,      \* threads other than the main thread
  Main,         \* the thread that constructs the ThreadLocal
  Ids,          \* thread ids the system gives to workers
  MainId,       \* m_mainThreadId
  NoId,         \* the id of a thread that has not started
  StaticCount,  \* STATIC_LOCAL_COUNT
  MaxValues     \* bound: values passed to reset()

ASSUME ConstantsAssumption ==
  /\ Main \notin Workers
  /\ MainId \notin Ids /\ NoId \notin Ids /\ NoId # MainId
  /\ StaticCount \in Nat
  /\ MaxValues \in Nat

Threads == Workers \cup {Main}
Slots   == 1..StaticCount
Values  == 1..MaxValues

VARIABLES
  life,       \* "new", "running" or "finished"
  idOf,       \* boost::this_thread::get_id() of each thread
  statics,    \* m_staticLocals: a Local is named by its value, 0 is nullptr
  vector,     \* m_dynamicLocals has been made
  dynamics,   \* *m_dynamicLocals
  localId,    \* Local::id
  nextValue,  \* the next value to be created
  freed,      \* deleted Locals, and their values with them
  watched,    \* the number of connections to finished of each thread
  posted,     \* clear(id) calls in the queue of the main thread
  pc,         \* what each thread does inside get()
  cursor,     \* the slot get() is at
  seen,       \* the pointer get() has loaded
  got,        \* history: what a get() has just returned, 0 for nullptr
  maker,      \* history: the thread that passed the value to reset()
  dirty,      \* history: threads in a get() that has read a deleted Local
  heirs,      \* history: threads that got an id which was still in use here
  swept,      \* history: threads in a get() during which clearAll() has run
  fault

getVars  == <<pc, cursor, seen, got, dirty>>
slotVars == <<statics, vector, dynamics, localId, nextValue, freed, maker>>
lifeVars == <<life, idOf, heirs>>
vars == <<life, idOf, statics, vector, dynamics, localId, nextValue, freed,
          watched, posted, pc, cursor, seen, got, maker, dirty, heirs, swept,
          fault>>

Members(s) == {s[i] : i \in DOMAIN s}

\* The Locals that can be found, and those with a given id.
Stored    == (Members(statics) \ {0}) \cup Members(dynamics)
LocalsOf(id) == {v \in Stored : localId[v] = id}

Init ==
  /\ life = [t \in Threads |-> IF t = Main THEN "running" ELSE "new"]
  /\ idOf = [t \in Threads |-> IF t = Main THEN MainId ELSE NoId]
  /\ statics = [i \in Slots |-> 0]
  /\ vector = FALSE
  /\ dynamics = <<>>
  /\ localId = [v \in Values |-> NoId]
  /\ nextValue = 1
  /\ freed = {}
  /\ watched = [t \in Threads |-> 0]
  /\ posted = <<>>
  /\ pc = [t \in Threads |-> "idle"]
  /\ cursor = [t \in Threads |-> 0]
  /\ seen = [t \in Threads |-> 0]
  /\ got = [t \in Threads |-> 0]
  /\ maker = [v \in Values |-> Main]
  /\ dirty = {}
  /\ heirs = {}
  /\ swept = {}
  /\ fault = "none"

Idle(t) == life[t] = "running" /\ pc[t] = "idle"

-----------------------------------------------------------------------------
(* removeLocal() and addLocal(), under the lock.                           *)

\* The first of a set of positions.
First(S) == CHOOSE i \in S : \A j \in S : i <= j

InSlots(id)  == {i \in Slots : statics[i] # 0 /\ localId[statics[i]] = id}
InVector(id) == {i \in DOMAIN dynamics : localId[dynamics[i]] = id}

\* removeLocal(id) deletes the Local it finds first, in a slot or, if there is
\* none, in the vector.
Deleted(id) ==
  IF InSlots(id) # {} THEN {statics[First(InSlots(id))]}
  ELSE IF InVector(id) # {} THEN {dynamics[First(InVector(id))]}
  ELSE {}

\* Faulty: the slot keeps its pointer.
RemovedKeepsPointer(id) == statics

\* The slots and the vector after removeLocal(id).
Removed(id) ==
  IF InSlots(id) = {} THEN statics
  ELSE [statics EXCEPT ![First(InSlots(id))] = 0]
Remaining(id) ==
  IF InSlots(id) # {} \/ InVector(id) = {} THEN dynamics
  ELSE LET k == First(InVector(id))
       IN SubSeq(dynamics, 1, k - 1) \o SubSeq(dynamics, k + 1, Len(dynamics))

\* addLocal(id, v): the first free slot, or the end of the vector.
FreeSlots(slots) == {i \in Slots : slots[i] = 0}
Add(slots, rest, v) ==
  IF FreeSlots(slots) # {}
  THEN /\ statics' = [slots EXCEPT ![First(FreeSlots(slots))] = v]
       /\ dynamics' = rest
       /\ UNCHANGED vector
  ELSE /\ statics' = slots
       /\ dynamics' = Append(rest, v)
       /\ vector' = TRUE

\* Faulty: a thread that had a Local before is not watched any more.
WatchAfterLost(t, removed, added) ==
  IF t = Main THEN watched[t]
  ELSE IF removed THEN 0
  ELSE IF added THEN watched[t] + 1
  ELSE watched[t]

\* The connections of t after reset(): watchCurrentThread() adds one,
\* stopWatchCurrentThread() removes all of the current thread.
WatchAfter(t, removed, added) ==
  IF t = Main THEN watched[t]
  ELSE IF removed /\ ~added THEN 0
  ELSE IF ~removed /\ added THEN watched[t] + 1
  ELSE watched[t]

-----------------------------------------------------------------------------
(* The public methods.                                                     *)

\* reset(v) with a new value.
Reset(t) ==
  LET id == idOf[t] IN
  /\ Idle(t)
  /\ nextValue <= MaxValues
  /\ freed' = freed \cup Deleted(id)
  /\ Add(Removed(id), Remaining(id), nextValue)
  /\ localId' = [localId EXCEPT ![nextValue] = id]
  /\ maker' = [maker EXCEPT ![nextValue] = t]
  /\ nextValue' = nextValue + 1
  /\ watched' = [watched EXCEPT ![t] =
                   WatchAfter(t, Deleted(id) # {}, TRUE)]
  /\ UNCHANGED <<lifeVars, posted, getVars, swept, fault>>

\* reset(nullptr).
ResetNull(t) ==
  LET id == idOf[t] IN
  /\ Idle(t)
  /\ Deleted(id) # {}
  /\ freed' = freed \cup Deleted(id)
  /\ statics' = Removed(id)
  /\ dynamics' = Remaining(id)
  /\ watched' = [watched EXCEPT ![t] = WatchAfter(t, TRUE, FALSE)]
  /\ UNCHANGED <<lifeVars, vector, localId, nextValue, maker, posted, getVars,
                 swept, fault>>

\* The queued slot of finished: clear(id), in the main thread.  It stops
\* watching the current thread, which is the main thread and never watched.
Clear ==
  LET id == Head(posted) IN
  /\ Idle(Main)
  /\ posted # <<>>
  /\ posted' = Tail(posted)
  /\ freed' = freed \cup Deleted(id)
  /\ statics' = Removed(id)
  /\ dynamics' = Remaining(id)
  /\ watched' = IF Deleted(id) # {} THEN [watched EXCEPT ![Main] = 0]
                ELSE watched
  /\ UNCHANGED <<lifeVars, vector, localId, nextValue, maker, getVars, swept,
                 fault>>

\* clearAll(): every Local of every thread.
ClearAll(t) ==
  /\ Idle(t)
  /\ freed' = freed \cup Stored
  /\ statics' = [i \in Slots |-> 0]
  /\ dynamics' = <<>>
  /\ vector' = FALSE
  /\ swept' = swept \cup {u \in Threads : pc[u] # "idle"}
  /\ UNCHANGED <<lifeVars, localId, nextValue, maker, watched, posted, getVars,
                 fault>>

\* get() begins, at the first slot or, without slots, at the vector.
Get(t) ==
  /\ Idle(t)
  /\ pc' = [pc EXCEPT ![t] = "load"]
  /\ cursor' = [cursor EXCEPT ![t] = 1]
  /\ UNCHANGED <<lifeVars, slotVars, watched, posted, seen, got, dirty, swept,
                 fault>>

\* get() returns v; its local variables are gone.
Return(t, v) ==
  /\ pc' = [pc EXCEPT ![t] = "returned"]
  /\ got' = [got EXCEPT ![t] = v]
  /\ cursor' = [cursor EXCEPT ![t] = 0]
  /\ seen' = [seen EXCEPT ![t] = 0]

\* Faulty: one slot too many is looked at; the word behind the array is null.
GetLoadOneMore(t) ==
  /\ pc[t] = "load"
  /\ IF cursor[t] \in Slots \cup {StaticCount + 1}
     THEN /\ seen' = [seen EXCEPT ![t] = IF cursor[t] \in Slots
                                        THEN statics[cursor[t]] ELSE 0]
          /\ pc' = [pc EXCEPT ![t] = "compare"]
          /\ UNCHANGED <<got, cursor>>
     ELSE IF vector
     THEN pc' = [pc EXCEPT ![t] = "vector"] /\ UNCHANGED <<got, cursor, seen>>
     ELSE Return(t, 0)
  /\ UNCHANGED <<lifeVars, slotVars, watched, posted, dirty, swept, fault>>

\* Load the pointer of a slot; behind the last one, look for the vector.
GetLoad(t) ==
  /\ pc[t] = "load"
  /\ IF cursor[t] \in Slots
     THEN /\ seen' = [seen EXCEPT ![t] = statics[cursor[t]]]
          /\ pc' = [pc EXCEPT ![t] = "compare"]
          /\ UNCHANGED <<got, cursor>>
     ELSE IF vector
     THEN pc' = [pc EXCEPT ![t] = "vector"] /\ UNCHANGED <<got, cursor, seen>>
     ELSE Return(t, 0)
  /\ UNCHANGED <<lifeVars, slotVars, watched, posted, dirty, swept, fault>>

\* local && local->id == id
Matches(t, v) == v # 0 /\ localId[v] = idOf[t]

GoOn(t) ==
  /\ pc' = [pc EXCEPT ![t] = "load"]
  /\ cursor' = [cursor EXCEPT ![t] = @ + 1]
  /\ seen' = [seen EXCEPT ![t] = 0]
  /\ UNCHANGED got

\* Faulty: any Local will do.
GetCompareAny(t) ==
  /\ pc[t] = "compare"
  /\ UNCHANGED dirty
  /\ IF seen[t] # 0 THEN Return(t, seen[t]) ELSE GoOn(t)
  /\ UNCHANGED <<lifeVars, slotVars, watched, posted, swept, fault>>

\* Read the Local behind the pointer.  When it was deleted meanwhile, the
\* memory may still hold its id, or that of this thread by chance.
GetCompare(t) ==
  LET v == seen[t] IN
  /\ pc[t] = "compare"
  /\ dirty' = IF v \in freed THEN dirty \cup {t} ELSE dirty
  /\ \/ /\ Matches(t, v) \/ v \in freed
        /\ Return(t, v)
     \/ /\ ~Matches(t, v) \/ v \in freed
        /\ GoOn(t)
  /\ UNCHANGED <<lifeVars, slotVars, watched, posted, swept, fault>>

\* The vector, under the lock: it may have gone since it was looked for.
GetVector(t) ==
  LET mine == InVector(idOf[t]) IN
  /\ pc[t] = "vector"
  /\ IF vector
     THEN /\ UNCHANGED fault
          /\ Return(t, IF mine = {} THEN 0 ELSE dynamics[First(mine)])
     ELSE fault' = "nullVector" /\ UNCHANGED <<pc, got, cursor, seen>>
  /\ UNCHANGED <<lifeVars, slotVars, watched, posted, dirty, swept>>

\* The caller goes on, and what is recorded about its get() is dropped.
GetDone(t) ==
  /\ pc[t] = "returned"
  /\ pc' = [pc EXCEPT ![t] = "idle"]
  /\ got' = [got EXCEPT ![t] = 0]
  /\ dirty' = dirty \ {t}
  /\ swept' = swept \ {t}
  /\ UNCHANGED <<lifeVars, slotVars, watched, posted, cursor, seen, fault>>

-----------------------------------------------------------------------------
(* Threads begin and end.                                                  *)

\* The system gives t an id no running thread has.  t is an heir when the id
\* is not yet forgotten here.
Start(t) ==
  /\ life[t] = "new"
  /\ \E id \in Ids :
       /\ \A u \in Threads : life[u] = "running" => idOf[u] # id
       /\ idOf' = [idOf EXCEPT ![t] = id]
       /\ heirs' = IF LocalsOf(id) # {} \/ id \in Members(posted)
                   THEN heirs \cup {t} ELSE heirs
  /\ life' = [life EXCEPT ![t] = "running"]
  /\ UNCHANGED <<slotVars, watched, posted, getVars, swept, fault>>

\* emit finished(): one queued clear(id) for each connection.
Finish(t) ==
  /\ t # Main
  /\ Idle(t)
  /\ life' = [life EXCEPT ![t] = "finished"]
  /\ posted' = posted \o [i \in 1..watched[t] |-> idOf[t]]
  /\ watched' = [watched EXCEPT ![t] = 0]
  /\ UNCHANGED <<idOf, heirs, slotVars, getVars, swept, fault>>

GetContinues(t) == GetLoad(t) \/ GetCompare(t) \/ GetVector(t) \/ GetDone(t)

Next ==
  \/ /\ fault = "none"
     /\ \/ \E t \in Threads :
             \/ Reset(t) \/ ResetNull(t) \/ ClearAll(t) \/ Get(t)
             \/ GetContinues(t) \/ Start(t) \/ Finish(t)
        \/ Clear
  \/ fault # "none" /\ UNCHANGED vars

\* The threads run on.  The main thread calls the methods from its slots and
\* returns to its event loop again and again, which takes up the queue: strong
\* fairness, because a get() of the main thread stands in between.
Spec ==
  /\ Init /\ [][Next]_vars
  /\ SF_vars(fault = "none" /\ Clear)
  /\ \A t \in Threads : WF_vars(fault = "none" /\ GetContinues(t))

-----------------------------------------------------------------------------
TypeOK ==
  /\ life \in [Threads -> {"new", "running", "finished"}]
  /\ idOf \in [Threads -> Ids \cup {MainId, NoId}]
  /\ statics \in [Slots -> 0..MaxValues]
  /\ vector \in BOOLEAN
  /\ dynamics \in Seq(Values)
  /\ localId \in [Values -> Ids \cup {MainId, NoId}]
  /\ nextValue \in 1..(MaxValues + 1)
  /\ freed \subseteq Values
  /\ watched \in [Threads -> Nat]
  /\ posted \in Seq(Ids \cup {NoId, MainId})
  /\ pc \in [Threads -> {"idle", "load", "compare", "vector",
                        "returned"}]
  /\ cursor \in [Threads -> 0..(StaticCount + 1)]
  /\ \A t \in Threads : pc[t] = "compare" => cursor[t] \in Slots
  /\ seen \in [Threads -> 0..MaxValues]
  /\ got \in [Threads -> 0..MaxValues]
  /\ maker \in [Values -> Threads]
  /\ dirty \subseteq Threads
  /\ heirs \subseteq Threads
  /\ swept \subseteq Threads
  /\ fault \in {"none", "nullVector"}

\* Under the lock the slots are sound: what they hold has not been deleted,
\* and no thread id has two Locals, so that removeLocal() may stop at the
\* first; the vector holds something only if it exists.
SlotsAreSound ==
  /\ Stored \cap freed = {}
  /\ \A v \in Stored : v < nextValue
  /\ \A v, w \in Stored : localId[v] = localId[w] => v = w
  /\ dynamics # <<>> => vector

GotIsMade ==
  \A t \in Threads \ (heirs \cup dirty) : got[t] # 0 => maker[got[t]] = t

OwnIsAhead ==
  \A t \in Threads : pc[t] \in {"load", "compare", "vector"} =>
    \A i \in Slots : i < cursor[t] => statics[i] \notin LocalsOf(idOf[t])

FaultIsSwept == fault # "none" => swept # {}

\* get() outside the lock: a thread gets a value it passed to reset() itself,
\* unless it met a deleted Local on its way or inherited the id of a thread
\* whose clear(id) was still queued; it never goes past its own Local; and it
\* finds the vector gone only when clearAll() ran beside it.
GetIsOwn == GotIsMade /\ OwnIsAhead /\ FaultIsSwept

\* Nothing is leaked: the values of a thread that has finished are deleted,
\* although clear(id) runs in another thread and stops watching that one; a
\* thread with an inherited id may not be watched.
FinishedIsFreed ==
  \A v \in Values :
    (v < nextValue /\ life[maker[v]] = "finished")
      ~> (v \in freed \/ maker[v] \in heirs \/ fault # "none")

-----------------------------------------------------------------------------
(* The inductive invariant of the proof of SlotsAreSound.                  *)

\* Slots and vector hold Locals that exist, each thread id in one place only.
Sound(slots, rest, gone, ids, next) ==
  /\ slots \in [Slots -> 0..MaxValues]
  /\ rest \in Seq(Values)
  /\ gone \subseteq Values
  /\ \A v \in gone : v < next
  /\ \A i \in Slots : slots[i] < next /\ slots[i] \notin gone
  /\ \A i \in DOMAIN rest : rest[i] < next /\ rest[i] \notin gone
  /\ \A i, j \in Slots :
       slots[i] # 0 /\ slots[j] # 0 /\ ids[slots[i]] = ids[slots[j]] => i = j
  /\ \A i, j \in DOMAIN rest : ids[rest[i]] = ids[rest[j]] => i = j
  /\ \A i \in Slots, j \in DOMAIN rest :
       slots[i] # 0 => ids[slots[i]] # ids[rest[j]]

SlotInv ==
  /\ nextValue \in 1..(MaxValues + 1)
  /\ localId = [v \in Values |-> localId[v]]
  /\ Sound(statics, dynamics, freed, localId, nextValue)
  /\ dynamics # <<>> => vector
-----------------------------------------------------------------------------
(* The inductive invariant of the proof of GetIsOwn.                       *)

\* Running threads have different ids, and only they are inside get().
IdsAreDistinct ==
  /\ \A t, u \in Threads :
       life[t] = "running" /\ life[u] = "running" /\ idOf[t] = idOf[u] => t = u
  /\ \A t \in Threads : pc[t] # "idle" => life[t] = "running"

\* A thread that is no heir has made the Local with its id.
OwnIsMade ==
  \A t \in Threads \ heirs : life[t] = "running" =>
    \A v \in LocalsOf(idOf[t]) : maker[v] = t

\* A loaded pointer with the thread's id leads to a value of the thread; if
\* the slot now holds the thread's own Local, then it did so at the load.
LoadedWasStored ==
  \A t \in Threads : pc[t] = "compare" =>
    /\ seen[t] < nextValue
    /\ Matches(t, seen[t]) /\ t \notin heirs => maker[seen[t]] = t
    /\ cursor[t] \in Slots
    /\ statics[cursor[t]] \in LocalsOf(idOf[t]) => statics[cursor[t]] = seen[t]

\* A thread that goes to the vector finds it, unless clearAll() has run.
VectorIsThere ==
  \A t \in Threads : pc[t] = "vector" => vector \/ t \in swept

GetInv ==
  /\ SlotInv
  /\ TypeOK
  /\ IdsAreDistinct
  /\ OwnIsMade
  /\ LoadedWasStored
  /\ VectorIsThere
  /\ \A t \in Threads : got[t] < nextValue
  /\ GetIsOwn
=============================================================================
