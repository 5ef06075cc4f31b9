---------------------------- MODULE ConPtyProofs ----------------------------
(***************************************************************************)
(* ConPty for any number of createProcess() calls and any amount of output: *)
(* what is announced, what is released, which faults need a console that   *)
(* could not be created, a reader that outlived the wait, or an exit that  *)
(* stop() overtook, and what becomes of the output.                        *)
(***************************************************************************)
EXTENDS ConPty, SequenceTheorems, TLAPS

\* What ReleaseInv is about, but for the readers.
controlVars == <<main, starts, member, open, doomed, notifier, armed, signaled,
                 timedOut, pipesFailed, lateExit, fault>>

Signals == {"readyRead", "errorOccurred"}

\* The shapes of the sets that bounds name.
LEMMA GensFacts ==
  /\ Gens \subseteq 0..MaxStarts /\ 0 \notin Gens
  /\ \A n \in 0..MaxStarts : n # 0 => n \in Gens
  /\ \A n \in 0..MaxStarts : n < MaxStarts => n + 1 \in Gens
  /\ \A n \in 0..MaxStarts : n \in Int
  /\ Kinds = Handles \cup {"thread"}
  /\ "process" \in Handles /\ "thread" \notin Handles /\ "consoleEnd" \notin Kinds
  /\ NullHandle \notin Gens /\ NullHandle # 0
  BY ConstantsAssumption DEF Gens, Kinds, Handles, NullHandle

LEMMA InitReleaseInv == Init => ReleaseInv
<1> SUFFICES ASSUME Init
             PROVE  ReleaseInv
  OBVIOUS
<1> USE DEF Init
<1>1. ControlTypeOK
  <2>1. 0 \in 0..MaxStarts
    BY ConstantsAssumption
  <2>2. member \in [Kinds -> 0..MaxStarts] /\ reader \in [Gens -> Readers]
    BY <2>1 DEF Readers
  <2> QED
    BY <2>1, <2>2 DEF ControlTypeOK, Mains, Faults
<1>2. Fresh
  BY ConstantsAssumption DEF Fresh, Gens
<1>3. HandlesCurrent /\ ThreadsDoomed
  BY GensFacts DEF HandlesCurrent, ThreadsDoomed, Kinds
<1>4. NotifierCurrent /\ ReleasedOnce /\ EventLoopIsSafe
  BY DEF NotifierCurrent, ReleasedOnce, EventLoopIsSafe
<1> QED
  BY <1>1, <1>2, <1>3, <1>4 DEF ReleaseInv

\* A step of a reader, of the console or of the listener.
LEMMA ReaderMoves ==
  ASSUME ReleaseInv, UNCHANGED controlVars,
         reader' \in [Gens -> Readers], errorText' \in BOOLEAN,
         signals' \subseteq Signals,
         \A g \in Gens : /\ Running(g)' => Running(g)
                         /\ reader[g] = "none" => reader'[g] = "none"
  PROVE  ReleaseInv'
<1> USE DEF controlVars
<1>1. ControlTypeOK'
  BY DEF ReleaseInv, ControlTypeOK, Signals
<1>2. Fresh'
  BY DEF ReleaseInv, Fresh
<1>3. HandlesCurrent'
  BY DEF ReleaseInv, HandlesCurrent, Closed
<1>4. ThreadsDoomed'
  BY DEF ReleaseInv, ThreadsDoomed
<1>5. NotifierCurrent' /\ ReleasedOnce' /\ EventLoopIsSafe'
  BY DEF ReleaseInv, NotifierCurrent, WatchedHandle, Closed, ReleasedOnce, EventLoopIsSafe
<1> QED
  BY <1>1, <1>2, <1>3, <1>4, <1>5 DEF ReleaseInv

\* stop() begins: the thread of m_pipeThread is there, or a console failed.
LEMMA StopInterruptKeeps ==
  ASSUME ReleaseInv, fault = "none", StopInterrupt
  PROVE  ReleaseInv'
<1> USE GensFacts DEF StopInterrupt
<1>1. /\ main = "idle" /\ main' \in {"closeToCreate", "closeToDestroy"}
      /\ main' = "closeToCreate" => starts < MaxStarts
      /\ fault' \in {fault, "deletedThread"}
      /\ fault' = "deletedThread" =>
           /\ member["thread"] # 0
           /\ <<"thread", member["thread"]>> \notin open
      /\ UNCHANGED <<starts, member, open, doomed, notifier, armed, signaled,
                     reader, errorText, signals, timedOut, pipesFailed,
                     lateExit>>
  BY DEF dataVars, histVars
<1>2. ControlTypeOK'
  BY <1>1 DEF ReleaseInv, ControlTypeOK, Mains, Faults
<1>3. Fresh'
  BY <1>1 DEF ReleaseInv, Fresh
<1>4. HandlesCurrent'
  BY <1>1 DEF ReleaseInv, HandlesCurrent, Closed
<1>5. ThreadsDoomed'
  BY <1>1 DEF ReleaseInv, ThreadsDoomed, Running
<1>6. NotifierCurrent'
  BY <1>1 DEF ReleaseInv, NotifierCurrent, WatchedHandle, Closed
<1>7. ReleasedOnce'
  <2>1. fault' = "deletedThread" => pipesFailed
    BY <1>1 DEF ReleaseInv, ThreadsDoomed
  <2> QED
    BY <1>1, <2>1 DEF ReleasedOnce
<1>8. EventLoopIsSafe'
  BY <1>1 DEF ReleaseInv, EventLoopIsSafe
<1> QED
  BY <1>2, <1>3, <1>4, <1>5, <1>6, <1>7, <1>8 DEF ReleaseInv

\* stop() closes what the members refer to, all of it, and uninstalls the
\* notifier.
LEMMA StopCloseKeeps ==
  ASSUME ReleaseInv, fault = "none", StopClose
  PROVE  ReleaseInv'
<1>0. ControlTypeOK
  BY DEF ReleaseInv
<1>1. /\ main \in {"closeToCreate", "closeToDestroy"}
      /\ main' = IF main = "closeToCreate" THEN "waitToCreate"
                 ELSE "waitToDestroy"
      /\ open' = open \ Released(Handles)
      /\ fault' = IF Released(Handles) \subseteq open THEN fault
                  ELSE "doubleRelease"
      /\ UNCHANGED <<starts, member, armed, signaled, reader, errorText,
                     signals, timedOut, pipesFailed>>
  BY DEF StopClose, Closing, Proceed, readerVars, dataVars
<1>2. /\ notifier' = 0
      /\ notifier \notin Gens => doomed' = doomed /\ lateExit' = lateExit
      /\ notifier \in Gens => /\ doomed' = doomed \cup {<<"notifier", notifier>>}
                              /\ lateExit' = (lateExit \/ notifier \in signaled)
  <2>1. notifier # 0 => /\ notifier' = 0
                        /\ doomed' = IF notifier = NullHandle THEN doomed
                                     ELSE doomed \cup {<<"notifier", notifier>>}
                        /\ lateExit' = (lateExit \/ notifier \in signaled)
    BY DEF StopClose, Uninstall, ReleaseInv, NotifierCurrent
  <2>2. notifier = 0 => UNCHANGED <<notifier, doomed, lateExit>>
    BY DEF StopClose, Uninstall
  <2>3. notifier \in Gens \cup {0, NullHandle}
    BY <1>0, GensFacts DEF ControlTypeOK
  <2>4. notifier \notin Gens => notifier \notin signaled
    BY <1>0 DEF ControlTypeOK
  <2>5. lateExit \in BOOLEAN
    BY <1>0 DEF ControlTypeOK
  <2> QED
    BY <2>1, <2>2, <2>3, <2>4, <2>5, GensFacts
<1>3. \A k \in Handles, g \in Gens : <<k, g>> \notin open'
  <2> SUFFICES ASSUME NEW k \in Handles, NEW g \in Gens, <<k, g>> \in open
               PROVE  <<k, g>> \in Released(Handles)
    BY <1>1
  <2>1. member[k] = g /\ member[k] # 0
    BY GensFacts DEF ReleaseInv, HandlesCurrent
  <2> QED
    BY <2>1 DEF Released
<1>4. \A g \in Gens : /\ <<"thread", g>> \in open' <=> <<"thread", g>> \in open
                      /\ <<"thread", g>> \in doomed' <=> <<"thread", g>> \in doomed
  BY <1>1, <1>2, GensFacts DEF Released
<1>5. ControlTypeOK'
  <2>1. doomed' \subseteq {"thread", "notifier"} \X Gens
    BY <1>0, <1>2, GensFacts DEF ControlTypeOK
  <2>2. lateExit' \in BOOLEAN
    BY <1>0, <1>2 DEF ControlTypeOK
  <2>3. notifier' \in 0..MaxStarts \cup {NullHandle}
    BY <1>2, ConstantsAssumption
  <2> QED
    BY <1>0, <1>1, <2>1, <2>2, <2>3 DEF ControlTypeOK, Mains, Faults
<1>6. Fresh'
  <2>1. notifier \in Gens => notifier <= starts
    BY GensFacts DEF ReleaseInv, NotifierCurrent, Fresh, WatchedHandle
  <2>2. \A g \in Gens : g > starts => \A k \in {"thread", "notifier"} :
          <<k, g>> \notin doomed'
    <3> SUFFICES ASSUME NEW g \in Gens, g > starts,
                        NEW k \in {"thread", "notifier"}
                 PROVE  <<k, g>> \notin doomed'
      OBVIOUS
    <3>1. <<k, g>> \notin doomed
      BY DEF ReleaseInv, Fresh
    <3>2. notifier \in Gens => g # notifier
      BY <1>0, <2>1, GensFacts DEF ControlTypeOK
    <3>3. CASE notifier \notin Gens
      BY <1>2, <3>1, <3>3
    <3>4. CASE notifier \in Gens
      <4>1. <<k, g>> # <<"notifier", notifier>>
        BY <3>2, <3>4
      <4> QED
        BY <1>2, <3>1, <3>4, <4>1
    <3> QED
      BY <3>3, <3>4
  <2> QED
    BY <1>1, <2>2 DEF ReleaseInv, Fresh
<1>7. HandlesCurrent'
  BY <1>1, <1>3 DEF HandlesCurrent, Closed
<1>8. ThreadsDoomed'
  <2>1. member["thread"] # 0 => member["thread"] \in Gens
    BY <1>0, GensFacts DEF ControlTypeOK, Kinds
  <2> QED
    BY <1>1, <1>4, <2>1 DEF ReleaseInv, ThreadsDoomed, Running
<1>9. NotifierCurrent'
  <2>1. <<"notifier", 0>> \notin doomed'
    BY <1>0, <1>2, GensFacts DEF ControlTypeOK
  <2>2. ~lateExit' => \A g \in armed \cap signaled : FALSE
    <3> SUFFICES ASSUME ~lateExit', NEW g \in armed \cap signaled
                 PROVE  FALSE
      OBVIOUS
    <3>1. ~lateExit
      BY <1>2
    <3>2. notifier = g
      BY <3>1 DEF ReleaseInv, NotifierCurrent
    <3>3. notifier \in Gens
      BY <1>0, <3>2 DEF ControlTypeOK
    <3> QED
      BY <1>2, <3>2, <3>3
  <2> QED
    BY <1>1, <1>2, <1>3, <2>1, <2>2, GensFacts DEF NotifierCurrent
<1>10. ReleasedOnce'
  <2>1. ~(Released(Handles) \subseteq open) => pipesFailed
    <3> SUFFICES ASSUME ~pipesFailed
                 PROVE  Released(Handles) \subseteq open
      OBVIOUS
    <3> QED
      BY <1>1 DEF ReleaseInv, HandlesCurrent, Closed, Released
  <2> QED
    BY <1>1, <2>1 DEF ReleasedOnce
<1>11. EventLoopIsSafe'
  <2>1. 0 \notin signaled
    BY <1>0, GensFacts DEF ControlTypeOK
  <2> QED
    BY <1>1, <1>2, <2>1 DEF EventLoopIsSafe
<1> QED
  BY <1>5, <1>6, <1>7, <1>8, <1>9, <1>10, <1>11 DEF ReleaseInv

\* stop() ends: the thread is doomed, and timedOut if it still runs.
LEMMA StopJoinKeeps ==
  ASSUME ReleaseInv, fault = "none", StopJoin
  PROVE  ReleaseInv'
<1>0. ControlTypeOK
  BY DEF ReleaseInv
<1> DEFINE m == member["thread"]
<1>1. /\ main \in {"waitToCreate", "waitToDestroy"}
      /\ main' = IF main = "waitToCreate" THEN "build" ELSE "destroy"
      /\ doomed' = IF m # 0 THEN doomed \cup {<<"thread", m>>} ELSE doomed
      /\ timedOut' = (timedOut \/ (m # 0 /\ Running(m)))
      /\ UNCHANGED <<starts, member, open, notifier, armed, signaled, reader,
                     errorText, signals, pipesFailed, lateExit, fault>>
  BY DEF StopJoin, readerVars, dataVars
<1>2. m \in 0..MaxStarts /\ (m # 0 => m \in Gens) /\ m <= starts
  BY <1>0, GensFacts DEF ControlTypeOK, ReleaseInv, Fresh
<1>3. ControlTypeOK'
  <2>1. doomed' \subseteq {"thread", "notifier"} \X Gens
    BY <1>0, <1>1, <1>2 DEF ControlTypeOK
  <2>2. timedOut' \in BOOLEAN
    BY <1>0, <1>1 DEF ControlTypeOK
  <2> QED
    BY <1>0, <1>1, <2>1, <2>2 DEF ControlTypeOK, Mains
<1>4. Fresh'
  <2>1. \A g \in Gens : g > starts => g # m
    BY <1>0, <1>2, GensFacts DEF ControlTypeOK
  <2> QED
    BY <1>1, <2>1 DEF ReleaseInv, Fresh
<1>5. HandlesCurrent'
  BY <1>1 DEF ReleaseInv, HandlesCurrent, Closed
<1>6. ThreadsDoomed'
  <2>1. <<"thread", m>> \in open => m # 0
    BY <1>0, GensFacts DEF ControlTypeOK
  <2>2. \A g \in Gens : <<"thread", g>> \in doomed' /\ Running(g)' => timedOut'
    BY <1>1 DEF ReleaseInv, ThreadsDoomed, Running
  <2> QED
    BY <1>1, <2>1, <2>2 DEF ReleaseInv, ThreadsDoomed
<1>7. NotifierCurrent'
  <2>1. <<"notifier", notifier>> \notin doomed'
    BY <1>1 DEF ReleaseInv, NotifierCurrent
  <2> QED
    BY <1>1, <2>1 DEF ReleaseInv, NotifierCurrent, WatchedHandle, Closed
<1>8. ReleasedOnce' /\ EventLoopIsSafe'
  BY <1>1 DEF ReleaseInv, ReleasedOnce, EventLoopIsSafe
<1> QED
  BY <1>3, <1>4, <1>5, <1>6, <1>7, <1>8 DEF ReleaseInv

\* The destructor's end: the children are deleted.
LEMMA DestroyKeeps ==
  ASSUME ReleaseInv, fault = "none", Destroy
  PROVE  ReleaseInv'
<1>0. ControlTypeOK
  BY DEF ReleaseInv
<1>1. /\ main = "destroy" /\ main' = "destroyed"
      /\ fault' \in {fault, "deletedRunning"}
      /\ fault' = "deletedRunning" =>
           \E g \in Gens : <<"thread", g>> \in open /\ Running(g)
      /\ open' = open \ ({"thread"} \X Gens)
      /\ doomed' = {} /\ armed' = {} /\ notifier' = 0 /\ signals' = {}
      /\ UNCHANGED <<starts, member, signaled, reader, errorText, timedOut,
                     pipesFailed, lateExit>>
  BY DEF Destroy, readerVars, histVars
<1>2. ControlTypeOK'
  BY <1>0, <1>1, ConstantsAssumption DEF ControlTypeOK, Mains, Faults
<1>3. Fresh'
  BY <1>1 DEF ReleaseInv, Fresh
<1>4. HandlesCurrent' /\ NotifierCurrent'
  <2>1. \A k \in Handles, g \in Gens : <<k, g>> \notin open
    BY <1>1 DEF ReleaseInv, HandlesCurrent, Closed
  <2> QED
    BY <1>1, <2>1, GensFacts DEF HandlesCurrent, NotifierCurrent, WatchedHandle, Closed
<1>5. ThreadsDoomed'
  BY <1>1 DEF ThreadsDoomed
<1>6. ReleasedOnce'
  <2>1. \A k \in Handles, g \in Gens : <<k, g>> \notin open
    BY <1>1 DEF ReleaseInv, HandlesCurrent, Closed
  <2>2. open' \subseteq {"consoleEnd"} \X Gens
    <3> SUFFICES ASSUME NEW p \in open'
                 PROVE  p \in {"consoleEnd"} \X Gens
      OBVIOUS
    <3>1. p \in open /\ p \notin {"thread"} \X Gens
      BY <1>1
    <3>2. PICK k \in Kinds \cup {"consoleEnd"}, g \in Gens : p = <<k, g>>
      BY <1>0, <3>1 DEF ControlTypeOK
    <3>3. k \notin Handles /\ k # "thread"
      BY <2>1, <3>1, <3>2
    <3> QED
      BY <3>2, <3>3, GensFacts
  <2> QED
    BY <1>1, <2>2 DEF ReleasedOnce
<1>7. EventLoopIsSafe'
  <2>1. fault' = "deletedRunning" => timedOut
    BY <1>1 DEF ReleaseInv, ThreadsDoomed
  <2>2. 0 \notin signaled
    BY <1>0, GensFacts DEF ControlTypeOK
  <2> QED
    BY <1>1, <2>1, <2>2 DEF EventLoopIsSafe
<1> QED
  BY <1>2, <1>3, <1>4, <1>5, <1>6, <1>7 DEF ReleaseInv
\* The event loop deletes a doomed object, which no member refers to unless
\* a console failed.
LEMMA DeferredDeleteKeeps ==
  ASSUME ReleaseInv, fault = "none", DeferredDelete
  PROVE  ReleaseInv'
<1>0. ControlTypeOK
  BY DEF ReleaseInv
<1>1. PICK d \in doomed :
        /\ main = "idle"
        /\ doomed' = doomed \ {d}
        /\ open' = open \ {d}
        /\ armed' = IF d[1] = "notifier" THEN armed \ {d[2]} ELSE armed
        /\ fault' = IF d[1] = "thread" /\ Running(d[2])
                    THEN "deletedRunning" ELSE fault
  BY DEF DeferredDelete
<1>2. UNCHANGED <<main, starts, member, notifier, signaled, reader, errorText,
                  signals, timedOut, pipesFailed, lateExit>>
  BY DEF DeferredDelete, readerVars, dataVars, histVars
<1>3. PICK kd \in {"thread", "notifier"}, gd \in Gens : d = <<kd, gd>>
  BY <1>0 DEF ControlTypeOK
<1>4. \A k \in Handles, g \in Gens : <<k, g>> \in open' <=> <<k, g>> \in open
  BY <1>1, <1>3 DEF Handles
<1>5. ControlTypeOK'
  BY <1>0, <1>1, <1>2 DEF ControlTypeOK, Faults
<1>6. Fresh'
  BY <1>1, <1>2 DEF ReleaseInv, Fresh
<1>7. HandlesCurrent'
  <2>1. \A k \in Handles : member[k] # 0 => member[k] \in Gens
    BY <1>0, GensFacts DEF ControlTypeOK
  <2> QED
    BY <1>1, <1>2, <1>4, <2>1 DEF ReleaseInv, HandlesCurrent, Closed
<1>8. ThreadsDoomed'
  <2>1. \A g \in Gens : <<"thread", g>> \in open' =>
           g = member["thread"] \/ <<"thread", g>> \in doomed'
    BY <1>1 DEF ReleaseInv, ThreadsDoomed
  <2>2. \A g \in Gens : <<"thread", g>> \in doomed' /\ Running(g) => timedOut
    BY <1>1 DEF ReleaseInv, ThreadsDoomed
  <2>3. ~pipesFailed /\ member["thread"] # 0 =>
          <<"thread", member["thread"]>> \in open' \ doomed'
    BY <1>1 DEF ReleaseInv, ThreadsDoomed
  <2> QED
    BY <1>1, <1>2, <2>1, <2>2, <2>3 DEF ThreadsDoomed, Running
<1>9. NotifierCurrent'
  BY <1>1, <1>2, <1>4, GensFacts DEF ReleaseInv, NotifierCurrent, WatchedHandle, Closed
<1>10. ReleasedOnce'
  BY <1>1, <1>2 DEF ReleasedOnce
<1>11. EventLoopIsSafe'
  <2>1. fault' = "deletedRunning" => timedOut
    BY <1>1, <1>3 DEF ReleaseInv, ThreadsDoomed
  <2>2. notifier \in armed => notifier \in armed'
    BY <1>1, <1>3 DEF ReleaseInv, NotifierCurrent
  <2> QED
    BY <1>1, <1>2, <2>1, <2>2 DEF ReleaseInv, EventLoopIsSafe
<1> QED
  BY <1>5, <1>6, <1>7, <1>8, <1>9, <1>10, <1>11 DEF ReleaseInv

\* The slot of the notifier: it is the one that fired, or an exit was overtaken.
LEMMA ProcessExitedKeeps ==
  ASSUME ReleaseInv, fault = "none", NEW e \in Gens, ProcessExited(e)
  PROVE  ReleaseInv'
<1>0. ControlTypeOK
  BY DEF ReleaseInv
<1>1. /\ main = "idle" /\ e \in armed \cap signaled
      /\ signaled' = signaled \ {e}
      /\ armed' = armed \ {notifier}
      /\ fault' = IF notifier = 0 THEN "nullNotifier" ELSE fault
      /\ UNCHANGED <<main, starts, member, open, doomed, notifier, reader,
                     timedOut, pipesFailed, lateExit>>
  BY DEF ProcessExited, mainVars, readerVars, histVars
<1>2. errorText' \in BOOLEAN /\ signals' \subseteq Signals
  BY <1>0 DEF ProcessExited, SetErrorCode, ControlTypeOK, Signals
<1>3. ControlTypeOK'
  BY <1>0, <1>1, <1>2 DEF ControlTypeOK, Faults, Signals
<1>4. Fresh' /\ HandlesCurrent'
  BY <1>1 DEF ReleaseInv, Fresh, HandlesCurrent, Closed
<1>5. ThreadsDoomed'
  BY <1>1 DEF ReleaseInv, ThreadsDoomed, Running
<1>6. NotifierCurrent'
  BY <1>1 DEF ReleaseInv, NotifierCurrent, WatchedHandle, Closed
<1>7. ReleasedOnce'
  BY <1>1 DEF ReleasedOnce
<1>8. EventLoopIsSafe'
  <2>1. ~lateExit => notifier = e
    BY <1>1 DEF ReleaseInv, NotifierCurrent
  <2>2. e # 0
    BY GensFacts
  <2> QED
    BY <1>1, <2>1, <2>2 DEF EventLoopIsSafe
<1> QED
  BY <1>3, <1>4, <1>5, <1>6, <1>7, <1>8 DEF ReleaseInv

\* A handle that is used while idle is open, or a console failed.
LEMMA UseStaleHandleKeeps ==
  ASSUME ReleaseInv, fault = "none", UseStaleHandle
  PROVE  ReleaseInv'
<1>1. /\ main = "idle" /\ fault' = "staleHandle"
      /\ ~(Released({"outPipe", "console"}) \subseteq open)
      /\ UNCHANGED <<main, starts, member, open, doomed, notifier, armed,
                     signaled, reader, errorText, signals, timedOut,
                     pipesFailed, lateExit>>
  BY DEF UseStaleHandle, mainVars, readerVars, dataVars, histVars
<1>2. pipesFailed
  BY <1>1 DEF ReleaseInv, HandlesCurrent, Closed, Released, Handles
<1>3. ControlTypeOK'
  BY <1>1 DEF ReleaseInv, ControlTypeOK, Faults
<1>4. Fresh' /\ HandlesCurrent'
  BY <1>1 DEF ReleaseInv, Fresh, HandlesCurrent, Closed
<1>5. ThreadsDoomed'
  BY <1>1 DEF ReleaseInv, ThreadsDoomed, Running
<1>6. NotifierCurrent' /\ EventLoopIsSafe'
  BY <1>1 DEF ReleaseInv, NotifierCurrent, WatchedHandle, Closed, EventLoopIsSafe
<1>7. ReleasedOnce'
  BY <1>1, <1>2 DEF ReleasedOnce
<1> QED
  BY <1>3, <1>4, <1>5, <1>6, <1>7 DEF ReleaseInv

\* A process exits: its handle is open, so its notifier is the current one.
LEMMA ProcessExitsKeeps ==
  ASSUME ReleaseInv, fault = "none", NEW e \in Gens, ProcessExits(e)
  PROVE  ReleaseInv'
<1>0. ControlTypeOK
  BY DEF ReleaseInv
<1>1. /\ <<"process", e>> \in open /\ e \in armed
      /\ signaled' = signaled \cup {e}
      /\ UNCHANGED <<main, starts, member, open, doomed, notifier, armed,
                     reader, errorText, signals, timedOut, pipesFailed,
                     lateExit, fault>>
  BY DEF ProcessExits, mainVars, readerVars, dataVars, histVars
<1>2. notifier = e /\ e <= starts
  BY <1>1, GensFacts DEF ReleaseInv, NotifierCurrent, HandlesCurrent, Fresh
<1>3. ControlTypeOK'
  BY <1>0, <1>1 DEF ControlTypeOK
<1>4. Fresh'
  <2>1. \A g \in Gens : g > starts => g # e
    BY <1>0, <1>2, GensFacts DEF ControlTypeOK
  <2> QED
    BY <1>1, <2>1 DEF ReleaseInv, Fresh
<1>5. HandlesCurrent' /\ ReleasedOnce'
  BY <1>1 DEF ReleaseInv, HandlesCurrent, Closed, ReleasedOnce
<1>6. ThreadsDoomed'
  BY <1>1 DEF ReleaseInv, ThreadsDoomed, Running
<1>7. NotifierCurrent' /\ EventLoopIsSafe'
  BY <1>1, <1>2 DEF ReleaseInv, NotifierCurrent, WatchedHandle, Closed, EventLoopIsSafe
<1> QED
  BY <1>3, <1>4, <1>5, <1>6, <1>7 DEF ReleaseInv
\* The rest of createProcess(), whichever of its calls fails.
LEMMA BuildKeeps ==
  ASSUME ReleaseInv, fault = "none", NEW o \in Outcomes, Build(o)
  PROVE  ReleaseInv'
<1>0. ControlTypeOK
  BY DEF ReleaseInv
<1> DEFINE n == starts + 1
           new == Replaced(o)
           ends == IF o = "pipe2" THEN {<<"consoleEnd", n>>} ELSE {}
<1>1. /\ main = "build" /\ main' = "idle" /\ starts' = n
      /\ member' = [k \in Kinds |->
                      IF k \in new THEN n
                      ELSE IF k = "process" /\ o \notin NoConsole THEN 0
                      ELSE member[k]]
      /\ open' = open \cup (new \X {n}) \cup ends
      /\ pipesFailed' = (pipesFailed \/ o \in NoConsole)
      /\ reader' = IF o \in NoConsole THEN reader
                   ELSE [reader EXCEPT ![n] = "check"]
      /\ notifier' = CASE o = "ok" -> n
                       [] o = "attributes" -> NullHandle
                       [] OTHER -> notifier
      /\ armed' = IF o = "ok" THEN armed \cup {n} ELSE armed
      /\ UNCHANGED <<doomed, signaled, timedOut, lateExit, fault>>
  BY DEF Build, BuildWith
<1>2. /\ new \subseteq Kinds
      /\ "process" \in new <=> o = "ok"
      /\ "thread" \in new <=> o \notin NoConsole
      /\ o \notin NoConsole => Handles \ {"process"} \subseteq new
      /\ o = "ok" => o \notin NoConsole
  BY DEF Replaced, Outcomes, NoConsole, Kinds, Handles
<1>3. /\ starts \in Int /\ starts < MaxStarts /\ n \in Gens
      /\ n \in 0..MaxStarts /\ n > starts /\ n # 0
  BY <1>0, <1>1, GensFacts DEF ControlTypeOK, ReleaseInv, Fresh
<1>4. /\ reader[n] = "none" /\ n \notin signaled
      /\ <<"thread", n>> \notin doomed /\ <<"notifier", n>> \notin doomed
  BY <1>3 DEF ReleaseInv, Fresh
<1>5. /\ notifier = 0
      /\ \A k \in Handles, g \in Gens : <<k, g>> \notin open
  BY <1>1 DEF ReleaseInv, NotifierCurrent, HandlesCurrent, Closed
<1>6. \A k \in Kinds, g \in Gens :
        <<k, g>> \in open' <=> <<k, g>> \in open \/ (k \in new /\ g = n)
  BY <1>1, GensFacts
<1>7. ControlTypeOK'
  <2>1. member' \in [Kinds -> 0..MaxStarts]
    <3>1. 0 \in 0..MaxStarts
      BY ConstantsAssumption
    <3>2. \A k \in Kinds : member[k] \in 0..MaxStarts
      BY <1>0 DEF ControlTypeOK
    <3> HIDE DEF n, new
    <3> QED
      BY <1>1, <1>3, <3>1, <3>2
  <2>2. open' \subseteq (Kinds \cup {"consoleEnd"}) \X Gens
    BY <1>0, <1>1, <1>2, <1>3 DEF ControlTypeOK
  <2>3. reader' \in [Gens -> Readers]
    BY <1>0, <1>1, <1>3 DEF ControlTypeOK, Readers
  <2>4. errorText' \in BOOLEAN /\ signals' \subseteq Signals
    BY <1>0 DEF Build, BuildWith, SetErrorCode, ControlTypeOK, Signals
  <2>5. pipesFailed' \in BOOLEAN
    BY <1>0, <1>1 DEF ControlTypeOK
  <2>6. notifier' \in 0..MaxStarts \cup {NullHandle} /\ armed' \subseteq Gens
    BY <1>0, <1>1, <1>3 DEF ControlTypeOK
  <2> QED
    BY <1>0, <1>1, <1>3, <2>1, <2>2, <2>3, <2>4, <2>5, <2>6
       DEF ControlTypeOK, Mains, Signals
<1>8. Fresh'
  <2>1. \A k \in Kinds : member'[k] <= n
    <3> SUFFICES ASSUME NEW k \in Kinds
                 PROVE  member'[k] <= n
      OBVIOUS
    <3>1. member[k] \in Int /\ member[k] <= starts
      BY <1>0, GensFacts DEF ControlTypeOK, ReleaseInv, Fresh
    <3>2. member'[k] \in {n, 0, member[k]}
      BY <1>1
    <3>3. 0 <= starts
      BY <1>0, ConstantsAssumption DEF ControlTypeOK
    <3> QED
      BY <1>3, <3>1, <3>2, <3>3
  <2>2. \A g \in Gens : g > n => g > starts /\ g # n
    BY <1>3, GensFacts
  <2>3. \A g \in Gens : g # n => reader'[g] = reader[g]
    BY <1>0, <1>1 DEF ControlTypeOK
  <2> QED
    BY <1>1, <2>1, <2>2, <2>3 DEF ReleaseInv, Fresh
<1>9. HandlesCurrent'
  <2>1. \A k \in Handles, g \in Gens : <<k, g>> \in open' => member'[k] = g
    BY <1>1, <1>2, <1>5, <1>6, GensFacts
  <2>2. ~pipesFailed' =>
          \A k \in Handles : member'[k] # 0 => <<k, member'[k]>> \in open'
    <3> SUFFICES ASSUME ~pipesFailed', NEW k \in Handles, member'[k] # 0
                 PROVE  <<k, member'[k]>> \in open'
      OBVIOUS
    <3>1. o \notin NoConsole
      BY <1>1
    <3>2. k \in new
      BY <1>1, <1>2, <3>1, GensFacts
    <3> QED
      BY <1>1, <1>3, <1>6, <3>2, GensFacts
  <2> QED
    BY <1>1, <2>1, <2>2 DEF HandlesCurrent, Closed
<1>10. ThreadsDoomed'
  <2>0. "thread" \in Kinds
    BY GensFacts
  <2>1. \A g \in Gens : <<"thread", g>> \in open =>  <<"thread", g>> \in doomed
    BY <1>1 DEF ReleaseInv, ThreadsDoomed
  <2>2. \A g \in Gens : <<"thread", g>> \in open' =>
           g = member'["thread"] \/ <<"thread", g>> \in doomed'
    BY <1>1, <1>6, <2>0, <2>1
  <2>3. \A g \in Gens : <<"thread", g>> \in doomed' /\ Running(g)' => timedOut'
    BY <1>0, <1>1, <1>3, <1>4 DEF ReleaseInv, ThreadsDoomed, Running, ControlTypeOK
  <2>4. ~pipesFailed' => <<"thread", member'["thread"]>> \in open' \ doomed'
    BY <1>1, <1>2, <1>3, <1>4, <1>6, <2>0
  <2> QED
    BY <1>1, <2>2, <2>3, <2>4 DEF ThreadsDoomed
<1>11. NotifierCurrent'
  <2>0. "process" \in Kinds /\ "process" \in Handles
    BY GensFacts
  <2>1. \A g \in Gens : <<"process", g>> \in open' => notifier' = g
    BY <1>1, <1>2, <1>5, <1>6, <2>0
  <2>2. <<"notifier", notifier'>> \notin doomed'
    BY <1>0, <1>1, <1>4, <1>5, GensFacts DEF ControlTypeOK
  <2>3. ~lateExit' => \A g \in armed' \cap signaled' : notifier' = g
    <3> SUFFICES ASSUME ~lateExit', NEW g \in armed' \cap signaled'
                 PROVE  notifier' = g
      OBVIOUS
    <3>1. g \in armed \cap signaled
      BY <1>1, <1>4
    <3>2. notifier = g
      BY <1>1, <3>1 DEF ReleaseInv, NotifierCurrent
    <3> QED
      BY <1>0, <1>5, <3>1, <3>2, GensFacts DEF ControlTypeOK
  <2>4. notifier' # 0 => WatchedHandle' = member'["process"]
    <3>1. CASE o = "ok"
      BY <1>1, <1>2, <1>3, <2>0, <3>1, GensFacts DEF WatchedHandle
    <3>2. CASE o = "attributes"
      BY <1>1, <1>2, <2>0, <3>2 DEF WatchedHandle, NoConsole
    <3>3. CASE o \notin {"ok", "attributes"}
      BY <1>1, <1>5, <3>3
    <3> QED
      BY <3>1, <3>2, <3>3
  <2> QED
    BY <1>1, <2>1, <2>2, <2>3, <2>4 DEF NotifierCurrent, WatchedHandle, Closed
<1>12. ReleasedOnce'
  BY <1>1 DEF ReleasedOnce
<1>13. EventLoopIsSafe'
  <2>1. notifier' \notin signaled
    BY <1>0, <1>1, <1>4, <1>5, GensFacts DEF ControlTypeOK
  <2> QED
    BY <1>1, <2>1 DEF EventLoopIsSafe
<1> QED
  BY <1>7, <1>8, <1>9, <1>10, <1>11, <1>12, <1>13 DEF ReleaseInv
\* What every step of a reader leaves alone.
LEMMA ReaderLeaves ==
  ASSUME ReleaseInv, NEW g \in Gens, ReaderContinues(g)
  PROVE  /\ UNCHANGED controlVars
         /\ reader' \in [Gens -> Readers]
         /\ errorText' \in BOOLEAN
         /\ signals' \subseteq Signals
         /\ \A h \in Gens : /\ Running(h)' => Running(h)
                            /\ reader[h] = "none" => reader'[h] = "none"
<1>1. /\ reader \in [Gens -> Readers] /\ errorText \in BOOLEAN
      /\ signals \subseteq Signals
  BY DEF ReleaseInv, ControlTypeOK, Signals
<1>2. /\ reader[g] \in Readers \ {"none", "done"}
      /\ \E to \in Readers : reader' = [reader EXCEPT ![g] = to]
  BY <1>1 DEF ReaderContinues, ReaderStep, ReaderCheck, ReadFile, ReadFileFails,
              EmitError, ReaderRecheck, AppendBuffer, EmitReadyRead, Readers
<1>3. UNCHANGED controlVars /\ errorText' \in BOOLEAN /\ signals' \subseteq Signals
  BY <1>1 DEF ReaderContinues, ReaderCheck, ReadFile, ReadFileFails, EmitError,
              ReaderRecheck, AppendBuffer, EmitReadyRead, controlVars, mainVars,
              dataVars, histVars, Signals
<1>4. reader' \in [Gens -> Readers]
  BY <1>1, <1>2
<1>5. \A h \in Gens : /\ Running(h)' => Running(h)
                      /\ reader[h] = "none" => reader'[h] = "none"
  BY <1>1, <1>2 DEF Running
<1> QED
  BY <1>3, <1>4, <1>5

\* Every step keeps the invariant.
LEMMA NextReleaseInv == ReleaseInv /\ [Next]_vars => ReleaseInv'
<1> SUFFICES ASSUME ReleaseInv, [Next]_vars
             PROVE  ReleaseInv'
  OBVIOUS
<1>0. ControlTypeOK
  BY DEF ReleaseInv
<1>1. CASE StopInterrupt /\ fault = "none"
  BY <1>1, StopInterruptKeeps
<1>2. CASE StopClose /\ fault = "none"
  BY <1>2, StopCloseKeeps
<1>3. CASE StopJoin /\ fault = "none"
  BY <1>3, StopJoinKeeps
<1>4. CASE Destroy /\ fault = "none"
  BY <1>4, DestroyKeeps
<1>5. CASE fault = "none" /\ \E o \in Outcomes : Build(o)
  BY <1>5, BuildKeeps
<1>6. CASE DeferredDelete /\ fault = "none"
  BY <1>6, DeferredDeleteKeeps
<1>7. CASE ReadAll \/ TakeError \/ UNCHANGED vars
  <2>1. UNCHANGED controlVars /\ UNCHANGED reader
    BY <1>7 DEF ReadAll, TakeError, vars, controlVars, mainVars, readerVars,
                histVars
  <2>2. errorText' \in BOOLEAN /\ signals' \subseteq Signals
    BY <1>0, <1>7 DEF ReadAll, TakeError, vars, ControlTypeOK, Signals
  <2> QED
    BY <1>0, <2>1, <2>2, ReaderMoves DEF ControlTypeOK, Running
<1>8. CASE UseStaleHandle /\ fault = "none"
  BY <1>8, UseStaleHandleKeeps
<1>9. CASE \E g \in Gens : ReaderContinues(g)
  BY <1>9, ReaderLeaves, ReaderMoves
<1>10. CASE fault = "none" /\ \E g \in Gens : ProcessExited(g)
  BY <1>10, ProcessExitedKeeps
<1>11. CASE \E g \in Gens : Output(g)
  <2>1. UNCHANGED controlVars /\ UNCHANGED <<reader, errorText, signals>>
    BY <1>11 DEF Output, controlVars, mainVars, dataVars, histVars
  <2> QED
    BY <1>0, <2>1, ReaderMoves DEF ControlTypeOK, Running, Signals
<1>12. CASE fault = "none" /\ \E g \in Gens : ProcessExits(g)
  BY <1>12, ProcessExitsKeeps
<1> QED
  BY <1>1, <1>2, <1>3, <1>4, <1>5, <1>6, <1>7, <1>8, <1>9, <1>10, <1>11, <1>12
     DEF Next, MainContinues, Halted

\* The inductive invariant holds in every reachable state.
LEMMA ReleaseInvariant == Spec => []ReleaseInv
  BY InitReleaseInv, NextReleaseInv, PTL DEF Spec

\* However often createProcess() is called: while every console could be
\* created, stop() releases nothing twice although it resets none of its
\* members, and the destructor leaves nothing open.
THEOREM ResourcesReleasedOnce == Spec => []ReleasedOnce
<1>1. ReleaseInv => ReleasedOnce
  BY DEF ReleaseInv
<1> QED
  BY <1>1, ReleaseInvariant, PTL

\* A running PipeThread is deleted only after wait(1000) timed out, and the
\* slot of the process notifier finds its notifier unless stop() overtook an
\* exit.
THEOREM EventLoopStaysSafe == Spec => []EventLoopIsSafe
<1>1. ReleaseInv => EventLoopIsSafe
  BY DEF ReleaseInv
<1> QED
  BY <1>1, ReleaseInvariant, PTL
-----------------------------------------------------------------------------
(* What is announced.                                                      *)

\* A reader step keeps the promise of a signal.
LEMMA ReaderAnnounces ==
  ASSUME ReleaseInv, NewsIsAnnounced, NEW g \in Gens, ReaderContinues(g)
  PROVE  NewsIsAnnounced'
<1>0. reader \in [Gens -> Readers] /\ main' = main
  BY ReaderLeaves DEF ReleaseInv, ControlTypeOK, controlVars
<1> SUFFICES ASSUME main # "destroyed"
             PROVE  /\ buffer' # <<>> => "readyRead" \in signals'
                                         \/ \E h \in Gens : reader'[h] = "emit"
                    /\ errorText' => "errorOccurred" \in signals'
                                     \/ \E h \in Gens : reader'[h] = "emitError"
  BY <1>0 DEF NewsIsAnnounced
<1>1. /\ buffer # <<>> => "readyRead" \in signals
                          \/ \E h \in Gens : reader[h] = "emit"
      /\ errorText => "errorOccurred" \in signals
                      \/ \E h \in Gens : reader[h] = "emitError"
  BY DEF NewsIsAnnounced
<1>2. ASSUME NEW from, NEW to, ReaderStep(g, from, to)
      PROVE  /\ reader[g] = from /\ reader'[g] = to
             /\ \A h \in Gens : h # g => reader'[h] = reader[h]
  BY <1>0, <1>2 DEF ReaderStep
<1>3. CASE ReaderCheck(g) \/ ReadFile(g) \/ ReaderRecheck(g)
  <2>1. /\ UNCHANGED <<buffer, errorText, signals>>
        /\ \E from \in {"check", "read", "recheck"}, to \in Readers :
             ReaderStep(g, from, to)
    BY <1>3 DEF ReaderCheck, ReadFile, ReaderRecheck, dataVars, Readers
  <2>2. \A h \in Gens : reader[h] \in {"emit", "emitError"} =>
                          reader'[h] = reader[h]
    BY <1>2, <2>1
  <2> QED
    BY <1>1, <2>1, <2>2
<1>4. CASE ReadFileFails(g)
  <2>1. /\ UNCHANGED <<buffer, signals>>
        /\ ReaderStep(g, "read", "emitError")
    BY <1>4 DEF ReadFileFails
  <2>2. /\ reader[g] = "read" /\ reader'[g] = "emitError"
        /\ \A h \in Gens : h # g => reader'[h] = reader[h]
    BY <1>2, <2>1
  <2> QED
    BY <1>1, <2>1, <2>2
<1>5. CASE EmitError(g)
  <2>1. /\ UNCHANGED <<buffer, errorText>>
        /\ signals' = signals \cup {"errorOccurred"}
        /\ ReaderStep(g, "emitError", "done")
    BY <1>5 DEF EmitError
  <2>2. /\ reader[g] = "emitError"
        /\ \A h \in Gens : h # g => reader'[h] = reader[h]
    BY <1>2, <2>1
  <2> QED
    BY <1>1, <2>1, <2>2
<1>6. CASE AppendBuffer(g)
  <2>1. /\ UNCHANGED <<errorText, signals>>
        /\ ReaderStep(g, "append", "emit")
    BY <1>6 DEF AppendBuffer
  <2>2. /\ reader[g] = "append" /\ reader'[g] = "emit"
        /\ \A h \in Gens : h # g => reader'[h] = reader[h]
    BY <1>2, <2>1
  <2> QED
    BY <1>1, <2>1, <2>2
<1>7. CASE EmitReadyRead(g)
  <2>1. /\ UNCHANGED <<buffer, errorText>>
        /\ signals' = signals \cup {"readyRead"}
        /\ ReaderStep(g, "emit", "check")
    BY <1>7 DEF EmitReadyRead
  <2>2. /\ reader[g] = "emit"
        /\ \A h \in Gens : h # g => reader'[h] = reader[h]
    BY <1>2, <2>1
  <2> QED
    BY <1>1, <2>1, <2>2
<1> QED
  BY <1>3, <1>4, <1>5, <1>6, <1>7 DEF ReaderContinues

\* Every step keeps the promise.
LEMMA NextAnnounces ==
  ReleaseInv /\ NewsIsAnnounced /\ [Next]_vars => NewsIsAnnounced'
<1> SUFFICES ASSUME ReleaseInv, NewsIsAnnounced, [Next]_vars
             PROVE  NewsIsAnnounced'
  OBVIOUS
<1>1. CASE StopInterrupt \/ StopClose \/ StopJoin \/ DeferredDelete
           \/ UseStaleHandle \/ UNCHANGED vars
           \/ \E g \in Gens : Output(g) \/ ProcessExits(g)
  <2>1. UNCHANGED <<reader, buffer, errorText, signals>>
    BY <1>1 DEF StopInterrupt, StopClose, StopJoin, DeferredDelete, UseStaleHandle,
                vars, Output, ProcessExits, readerVars, dataVars
  <2>2. main = "destroyed" => main' = "destroyed"
    BY <1>1 DEF StopInterrupt, StopClose, Closing, StopJoin, DeferredDelete,
                UseStaleHandle, vars, Output, ProcessExits, mainVars
  <2> QED
    BY <2>1, <2>2 DEF NewsIsAnnounced
<1>2. CASE Destroy
  BY <1>2 DEF Destroy, NewsIsAnnounced
<1>3. CASE ReadAll
  <2>1. /\ buffer' = <<>> /\ UNCHANGED <<main, reader, errorText>>
        /\ "errorOccurred" \in signals => "errorOccurred" \in signals'
    BY <1>3 DEF ReadAll, mainVars, readerVars
  <2> QED
    BY <2>1 DEF NewsIsAnnounced
<1>4. CASE TakeError
  <2>1. /\ ~errorText' /\ UNCHANGED <<main, reader, buffer>>
        /\ "readyRead" \in signals => "readyRead" \in signals'
    BY <1>4 DEF TakeError, mainVars, readerVars
  <2> QED
    BY <2>1 DEF NewsIsAnnounced
<1>5. CASE \E g \in Gens : ProcessExited(g)
  <2>1. /\ UNCHANGED <<main, reader, buffer>>
        /\ \/ UNCHANGED <<errorText, signals>>
           \/ signals' = signals \cup {"errorOccurred"}
    BY <1>5 DEF ProcessExited, SetErrorCode, mainVars, readerVars
  <2> QED
    BY <2>1 DEF NewsIsAnnounced
<1>6. CASE \E o \in Outcomes : Build(o)
  <2>1. PICK o \in Outcomes : Build(o)
    BY <1>6
  <2>2. /\ main = "build" /\ UNCHANGED buffer
        /\ \/ UNCHANGED <<errorText, signals>>
           \/ signals' = signals \cup {"errorOccurred"}
        /\ \/ UNCHANGED reader
           \/ reader' = [reader EXCEPT ![starts + 1] = "check"]
    BY <2>1 DEF Build, BuildWith, SetErrorCode
  <2>3. starts + 1 \in Gens /\ reader[starts + 1] = "none"
    <3>1. starts \in 0..MaxStarts /\ starts < MaxStarts
      BY <2>2 DEF ReleaseInv, ControlTypeOK, Fresh
    <3>2. starts + 1 \in Gens /\ starts + 1 > starts
      BY <3>1, GensFacts
    <3> QED
      BY <3>2 DEF ReleaseInv, Fresh
  <2>4. \A h \in Gens : reader[h] \in {"emit", "emitError"} =>
                          reader'[h] = reader[h]
    BY <2>2, <2>3 DEF ReleaseInv, ControlTypeOK
  <2> QED
    BY <2>2, <2>4 DEF NewsIsAnnounced
<1>7. CASE \E g \in Gens : ReaderContinues(g)
  BY <1>7, ReaderAnnounces
<1> QED
  BY <1>1, <1>2, <1>3, <1>4, <1>5, <1>6, <1>7 DEF Next, MainContinues, Halted

\* However many readers run side by side: output in m_buffer and a text in
\* m_errorString always have a signal under way or a reader about to emit it.
THEOREM NewsAnnounced == Spec => []NewsIsAnnounced
<1>1. Init => NewsIsAnnounced
  BY DEF Init, NewsIsAnnounced
<1> QED
  BY <1>1, ReleaseInvariant, NextAnnounces, PTL DEF Spec

-----------------------------------------------------------------------------
(* What becomes of the output.                                             *)

\* One block more from console g, of which c have come before.
LEMMA BlockAdded ==
  ASSUME NEW s \in Seq(Blocks), NEW g \in Gens, NEW c \in Nat, InOrder(s),
         FirstBlocks(s, g, c)
  PROVE  /\ InOrder(Append(s, <<g, c + 1>>))
         /\ FirstBlocks(Append(s, <<g, c + 1>>), g, c + 1)
         /\ \A h \in Gens \ {g} : \A n :
              FirstBlocks(s, h, n) => FirstBlocks(Append(s, <<g, c + 1>>), h, n)
<1> DEFINE x == <<g, c + 1>>
           u == Append(s, x)
           l == Len(s) + 1
<1>1. x \in Blocks /\ x[1] = g /\ x[2] = c + 1
  BY DEF Blocks
<1>2. /\ Len(s) \in Nat /\ DOMAIN s = 1..Len(s) /\ DOMAIN u = 1..l
      /\ u[l] = x /\ \A i \in 1..Len(s) : u[i] = s[i]
  <2> HIDE DEF x
  <2> QED
    BY <1>1, AppendProperties, LenProperties
<1> HIDE DEF u, x
<1>3. \A i \in DOMAIN u : i = l \/ i \in DOMAIN s
  BY <1>2
<1>4. \A i \in DOMAIN s : i \in DOMAIN u /\ u[i] = s[i] /\ i < l
  BY <1>2
<1>5. l \in DOMAIN u
  BY <1>2
<1>6. \A i \in DOMAIN s : s[i][2] \in Nat
  <2> SUFFICES ASSUME NEW i \in DOMAIN s PROVE s[i][2] \in Nat
    OBVIOUS
  <2>1. s[i] \in Blocks
    BY <1>2, ElementOfSeq
  <2> QED
    BY <2>1 DEF Blocks
<1>7. ASSUME NEW i \in DOMAIN u, NEW j \in DOMAIN u, i < j, u[i][1] = u[j][1]
      PROVE  u[i][2] < u[j][2]
  <2>0. i \in DOMAIN s
    BY <1>2, <1>7
  <2>1. CASE j \in DOMAIN s
    BY <1>4, <1>7, <2>0, <2>1 DEF InOrder
  <2>2. CASE j = l
    <3>1. s[i][1] = g /\ u[i] = s[i] /\ u[j][2] = c + 1
      BY <1>1, <1>2, <1>4, <1>7, <2>0, <2>2
    <3>2. s[i][2] <= c
      BY <2>0, <3>1 DEF FirstBlocks
    <3> QED
      BY <1>6, <2>0, <3>1, <3>2
  <2> QED
    BY <1>3, <2>1, <2>2
<1>8. InOrder(u)
  BY <1>7 DEF InOrder
<1>9. FirstBlocks(u, g, c + 1)
  <2>1. ASSUME NEW i \in DOMAIN u, u[i][1] = g PROVE u[i][2] <= c + 1
    <3>1. CASE i = l
      BY <1>1, <1>2, <3>1
    <3>2. CASE i \in DOMAIN s
      <4>1. u[i] = s[i] /\ s[i][2] <= c /\ s[i][2] \in Nat
        BY <1>4, <1>6, <2>1, <3>2 DEF FirstBlocks
      <4> QED
        BY <4>1
    <3> QED
      BY <1>3, <3>1, <3>2
  <2>2. ASSUME NEW m \in 1..(c + 1) PROVE \E i \in DOMAIN u : u[i] = <<g, m>>
    <3>1. CASE m = c + 1
      BY <1>2, <1>5, <3>1 DEF x
    <3>2. CASE m \in 1..c
      <4>1. PICK i \in DOMAIN s : s[i] = <<g, m>>
        BY <3>2 DEF FirstBlocks
      <4> QED
        BY <1>4, <4>1
    <3> QED
      BY <3>1, <3>2
  <2>3. c + 1 \in Nat
    OBVIOUS
  <2> QED
    BY <2>1, <2>2, <2>3 DEF FirstBlocks
<1>10. ASSUME NEW h \in Gens \ {g}, NEW n, FirstBlocks(s, h, n)
       PROVE  FirstBlocks(u, h, n)
  <2>1. ASSUME NEW i \in DOMAIN u, u[i][1] = h PROVE u[i][2] <= n
    <3>1. i # l
      BY <1>1, <1>2, <1>10, <2>1
    <3> QED
      BY <1>3, <1>4, <1>10, <2>1, <3>1 DEF FirstBlocks
  <2>2. ASSUME NEW m \in 1..n PROVE \E i \in DOMAIN u : u[i] = <<h, m>>
    <3>1. PICK i \in DOMAIN s : s[i] = <<h, m>>
      BY <1>10 DEF FirstBlocks
    <3> QED
      BY <1>4, <3>1
  <2> QED
    BY <1>10, <2>1, <2>2 DEF FirstBlocks
<1>11. \A h \in Gens \ {g} : \A n : FirstBlocks(s, h, n) => FirstBlocks(u, h, n)
  BY <1>10
<1> QED
  BY <1>8, <1>9, <1>11 DEF u, x

\* Blocks of a console that is not older than the others.
LEMMA ApartAppend ==
  ASSUME NEW s \in Seq(Blocks), NEW g \in Gens, NEW c \in Nat \ {0}, Apart(s),
         \A i \in DOMAIN s : s[i][1] <= g
  PROVE  /\ Apart(Append(s, <<g, c>>))
         /\ \A i \in DOMAIN Append(s, <<g, c>>) : Append(s, <<g, c>>)[i][1] <= g
<1> DEFINE x == <<g, c>>
           u == Append(s, x)
           l == Len(s) + 1
<1>1. x \in Blocks /\ x[1] = g
  BY DEF Blocks
<1>2. /\ Len(s) \in Nat /\ DOMAIN s = 1..Len(s) /\ DOMAIN u = 1..l
      /\ u[l] = x /\ \A i \in 1..Len(s) : u[i] = s[i]
  <2> HIDE DEF x
  <2> QED
    BY <1>1, AppendProperties, LenProperties
<1>3. g \in Int
  BY GensFacts
<1> HIDE DEF u, x
<1>4. ASSUME NEW i \in DOMAIN u, NEW j \in DOMAIN u, i < j
      PROVE  u[i][1] <= u[j][1]
  <2>0. i \in DOMAIN s /\ (j = l \/ j \in DOMAIN s)
    BY <1>2, <1>4
  <2>1. CASE j \in DOMAIN s
    BY <1>2, <1>4, <2>0, <2>1 DEF Apart
  <2>2. CASE j = l
    BY <1>1, <1>2, <2>0, <2>2
  <2> QED
    BY <2>0, <2>1, <2>2
<1>5. ASSUME NEW i \in DOMAIN u PROVE u[i][1] <= g
  <2>1. CASE i = l
    BY <1>1, <1>2, <1>3, <2>1
  <2>2. CASE i \in DOMAIN s
    BY <1>2, <2>2
  <2> QED
    BY <1>2, <2>1, <2>2
<1>6. Apart(u)
  BY <1>4 DEF Apart
<1> QED
  BY <1>5, <1>6 DEF u, x

LEMMA InitIntactInv == Init => IntactInv
<1> SUFFICES ASSUME Init PROVE IntactInv
  OBVIOUS
<1>1. ReleaseInv
  BY InitReleaseInv
<1>2. TypeOK
  <2>1. <<>> \in Seq(Blocks) /\ <<>> \in Seq(Nat \ {0}) /\ 0 \in Nat
    OBVIOUS
  <2> QED
    BY <1>1, <2>1 DEF Init, TypeOK, ReleaseInv
<1>3. \A g \in Gens : Len(pipe[g]) = 0 /\ produced[g] = 0 /\ InHand(g) = 0
  BY DEF Init, InHand
<1>4. Received = <<>> /\ DOMAIN Received = {}
  BY DEF Init, Received
<1>5. PipeIsTheRest
  BY <1>3 DEF PipeIsTheRest
<1>6. ReceivedIsRead
  <2>1. InOrder(Received)
    BY <1>4 DEF InOrder
  <2>2. \A g \in Gens : FirstBlocks(Received, g, 0)
    BY <1>4 DEF FirstBlocks
  <2>3. \A g \in Gens : Read(g) - InHand(g) = 0
    BY <1>3 DEF Read
  <2> QED
    BY <2>1, <2>2, <2>3 DEF ReceivedIsRead
<1>7. OneReader
  BY <1>4 DEF OneReader, Apart, Init, Running
<1> QED
  BY <1>1, <1>2, <1>5, <1>6, <1>7 DEF IntactInv

\* A step that moves no block, but for what a stopped reader lets go.
LEMMA QuietData ==
  ASSUME IntactInv, ControlTypeOK',
         UNCHANGED <<hand, pipe, produced>>, Received' = Received,
         buffer' \in Seq(Blocks), delivered' \in Seq(Blocks),
         interrupted' \subseteq Gens, interrupted \subseteq interrupted',
         \A g \in Gens : /\ InHand(g)' = InHand(g)
                         /\ reader[g] = "done" => reader'[g] = "done"
  PROVE  TypeOK' /\ PipeIsTheRest' /\ ReceivedIsRead'
<1>1. TypeOK'
  BY DEF IntactInv, TypeOK
<1>2. \A g \in Gens : Read(g)' = Read(g)
  BY DEF Read
<1>3. PipeIsTheRest'
  BY <1>2 DEF IntactInv, PipeIsTheRest
<1>4. ReceivedIsRead'
  <2>1. InOrder(Received')
    BY DEF IntactInv, ReceivedIsRead
  <2>2. ASSUME NEW g \in Gens
        PROVE  \/ FirstBlocks(Received', g, Read(g)' - InHand(g)')
               \/ /\ g \in interrupted' /\ reader'[g] = "done"
                  /\ FirstBlocks(Received', g, Read(g)' - 1)
    BY <1>2 DEF IntactInv, ReceivedIsRead
  <2> QED
    BY <2>1, <2>2 DEF ReceivedIsRead, InOrder, FirstBlocks
<1> QED
  BY <1>1, <1>3, <1>4

\* A step after which no more readers run than before.
LEMMA SameReaders ==
  ASSUME OneReader, Received' = Received, timedOut' = timedOut,
         member'["thread"] = member["thread"],
         main' \notin {"build", "destroy", "destroyed"} \/ main' = main,
         \A g \in Gens : Running(g)' => Running(g)
  PROVE  OneReader'
<1>1. CASE timedOut
  BY <1>1 DEF OneReader
<1>2. CASE ~timedOut
  <2>1. Apart(Received')
    BY <1>2 DEF OneReader
  <2> QED
    BY <1>2, <2>1 DEF OneReader, Apart
<1> QED
  BY <1>1, <1>2

\* The facts about one console that the steps of its reader use.
LEMMA ConsoleFacts ==
  ASSUME IntactInv, NEW g \in Gens
  PROVE  /\ pipe[g] \in Seq(Nat \ {0}) /\ Len(pipe[g]) \in Nat
         /\ produced[g] \in Nat /\ hand[g] \in Nat /\ reader[g] \in Readers
         /\ Len(pipe[g]) <= produced[g] /\ Read(g) \in Nat
         /\ \A i \in 1..Len(pipe[g]) : pipe[g][i] = Read(g) + i
         /\ InHand(g) = 1 => Read(g) > 0 /\ hand[g] = Read(g)
         /\ reader[g] # "done" => FirstBlocks(Received, g, Read(g) - InHand(g))
<1>1. /\ pipe[g] \in Seq(Nat \ {0}) /\ produced[g] \in Nat /\ hand[g] \in Nat
      /\ reader[g] \in Readers
  BY DEF IntactInv, TypeOK, ControlTypeOK
<1>2. Len(pipe[g]) \in Nat
  BY <1>1, LenProperties
<1>3. /\ Len(pipe[g]) <= produced[g]
      /\ \A i \in 1..Len(pipe[g]) : pipe[g][i] = Read(g) + i
      /\ InHand(g) = 1 => Read(g) > 0 /\ hand[g] = Read(g)
  BY DEF IntactInv, PipeIsTheRest
<1>4. Read(g) \in Nat
  BY <1>1, <1>2, <1>3 DEF Read
<1> QED
  BY <1>1, <1>2, <1>3, <1>4 DEF IntactInv, ReceivedIsRead

\* Of the consoles, only g is touched.
LEMMA OthersStay ==
  ASSUME IntactInv, NEW g \in Gens, NEW h \in Gens \ {g},
         hand' = [hand EXCEPT ![g] = hand'[g]],
         pipe' = [pipe EXCEPT ![g] = pipe'[g]],
         produced' = [produced EXCEPT ![g] = produced'[g]],
         reader' = [reader EXCEPT ![g] = reader'[g]]
  PROVE  /\ hand'[h] = hand[h] /\ pipe'[h] = pipe[h] /\ reader'[h] = reader[h]
         /\ produced'[h] = produced[h]
         /\ Read(h)' = Read(h) /\ InHand(h)' = InHand(h)
<1>1. /\ hand'[h] = hand[h] /\ pipe'[h] = pipe[h] /\ reader'[h] = reader[h]
      /\ produced'[h] = produced[h]
  BY DEF IntactInv, TypeOK, ControlTypeOK
<1> QED
  BY <1>1 DEF Read, InHand

\* The invariant of a step of one reader or console, from what it says of that
\* one.
LEMMA OneConsole ==
  ASSUME IntactInv, NEW g \in Gens,
         hand' = [hand EXCEPT ![g] = hand'[g]],
         pipe' = [pipe EXCEPT ![g] = pipe'[g]],
         produced' = [produced EXCEPT ![g] = produced'[g]],
         reader' = [reader EXCEPT ![g] = reader'[g]], interrupted' = interrupted,
         Len(pipe'[g]) <= produced'[g],
         \A i \in 1..Len(pipe'[g]) : pipe'[g][i] = Read(g)' + i,
         InHand(g)' = 1 => Read(g)' > 0 /\ hand'[g] = Read(g)',
         InOrder(Received'),
         \/ FirstBlocks(Received', g, Read(g)' - InHand(g)')
         \/ /\ g \in interrupted /\ reader'[g] = "done"
            /\ FirstBlocks(Received', g, Read(g)' - 1),
         \A h \in Gens \ {g} : \A n : FirstBlocks(Received, h, n)
                                        => FirstBlocks(Received', h, n)
  PROVE  PipeIsTheRest' /\ ReceivedIsRead'
<1>1. \A h \in Gens \ {g} :
        /\ hand'[h] = hand[h] /\ pipe'[h] = pipe[h] /\ reader'[h] = reader[h]
        /\ produced'[h] = produced[h]
        /\ Read(h)' = Read(h) /\ InHand(h)' = InHand(h)
  BY OthersStay
<1>2. ASSUME NEW h \in Gens
      PROVE  /\ Len(pipe'[h]) <= produced'[h]
             /\ \A i \in 1..Len(pipe'[h]) : pipe'[h][i] = Read(h)' + i
             /\ InHand(h)' = 1 => Read(h)' > 0 /\ hand'[h] = Read(h)'
  <2>1. CASE h = g
    BY <2>1
  <2>2. CASE h # g
    BY <1>1, <2>2 DEF IntactInv, PipeIsTheRest
  <2> QED
    BY <2>1, <2>2
<1>3. PipeIsTheRest'
  BY <1>2 DEF PipeIsTheRest
<1>4. ASSUME NEW h \in Gens
      PROVE  \/ FirstBlocks(Received', h, Read(h)' - InHand(h)')
             \/ /\ h \in interrupted' /\ reader'[h] = "done"
                /\ FirstBlocks(Received', h, Read(h)' - 1)
  <2>1. CASE h = g
    BY <2>1
  <2>2. CASE h # g
    <3>1. \/ FirstBlocks(Received, h, Read(h) - InHand(h))
          \/ /\ h \in interrupted /\ reader[h] = "done"
             /\ FirstBlocks(Received, h, Read(h) - 1)
      BY DEF IntactInv, ReceivedIsRead
    <3> QED
      BY <1>1, <2>2, <3>1
  <2> QED
    BY <2>1, <2>2
<1>5. ReceivedIsRead'
  BY <1>4 DEF ReceivedIsRead, InOrder, FirstBlocks
<1> QED
  BY <1>3, <1>5

\* readAll() moves everything.
LEMMA ReadAllIntact ==
  ASSUME IntactInv, ControlTypeOK', ReadAll
  PROVE  /\ TypeOK' /\ PipeIsTheRest' /\ ReceivedIsRead' /\ Received' = Received
<1>1. /\ delivered' = delivered \o buffer /\ buffer' = <<>>
      /\ UNCHANGED <<reader, interrupted, hand, pipe, produced>>
  BY DEF ReadAll, readerVars
<1>2. delivered \in Seq(Blocks) /\ buffer \in Seq(Blocks)
  BY DEF IntactInv, TypeOK
<1>3. delivered \o buffer \in Seq(Blocks) /\ <<>> \in Seq(Blocks)
  BY <1>2, ConcatProperties
<1>4. Received' = Received
  BY <1>1, <1>3, ConcatEmptySeq DEF Received
<1>5. interrupted' \subseteq Gens /\ \A g \in Gens : InHand(g)' = InHand(g)
  BY <1>1 DEF IntactInv, TypeOK, InHand
<1> QED
  BY <1>1, <1>3, <1>4, <1>5, QuietData

\* ReadFile(): the first block of the pipe is in the reader's hands.
LEMMA ReadFileIntact ==
  ASSUME IntactInv, ControlTypeOK', NEW g \in Gens, ReadFile(g)
  PROVE  TypeOK' /\ PipeIsTheRest' /\ ReceivedIsRead'
<1> DEFINE s == pipe[g]
           c == Read(g)
<1>1. /\ reader[g] = "read" /\ reader' = [reader EXCEPT ![g] = "recheck"]
      /\ s # <<>> /\ hand' = [hand EXCEPT ![g] = Head(s)]
      /\ pipe' = [pipe EXCEPT ![g] = Tail(s)]
      /\ UNCHANGED <<interrupted, produced, buffer, delivered>>
  BY DEF ReadFile, ReaderStep, dataVars
<1>2. /\ hand \in [Gens -> Nat] /\ pipe \in [Gens -> Seq(Nat \ {0})]
      /\ reader \in [Gens -> Readers] /\ produced \in [Gens -> Nat]
  BY DEF IntactInv, TypeOK, ControlTypeOK
<1>3. /\ s \in Seq(Nat \ {0}) /\ Len(s) \in Nat /\ produced[g] \in Nat
      /\ Len(s) <= produced[g] /\ c \in Nat /\ c = produced[g] - Len(s)
      /\ \A i \in 1..Len(s) : s[i] = c + i
      /\ FirstBlocks(Received, g, c - InHand(g)) /\ InHand(g) = 0
  BY <1>1, ConsoleFacts DEF Read, InHand
<1> HIDE DEF s
<1>4. /\ Head(s) \in Nat \ {0} /\ Tail(s) \in Seq(Nat \ {0})
      /\ Len(Tail(s)) = Len(s) - 1 /\ Head(s) = s[1] /\ Len(s) >= 1
      /\ \A i \in 1..Len(Tail(s)) : Tail(s)[i] = s[i + 1]
  BY <1>1, <1>3, HeadTailProperties
<1>5. /\ hand'[g] = c + 1 /\ pipe'[g] = Tail(s) /\ reader'[g] = "recheck"
      /\ produced'[g] = produced[g]
  BY <1>1, <1>2, <1>3, <1>4
<1>6. InHand(g)' = 1
  BY <1>5 DEF InHand
<1>7. Read(g)' = c + 1
  <2>1. produced'[g] - Len(pipe'[g]) = c + 1
    BY <1>3, <1>4, <1>5
  <2> QED
    BY <2>1 DEF Read
<1> HIDE DEF c
<1>8. /\ Len(pipe'[g]) <= produced'[g]
      /\ \A i \in 1..Len(pipe'[g]) : pipe'[g][i] = Read(g)' + i
  <2>1. Len(pipe'[g]) <= produced'[g]
    BY <1>3, <1>4, <1>5
  <2>2. ASSUME NEW i \in 1..Len(Tail(s)) PROVE Tail(s)[i] = (c + 1) + i
    <3>1. i + 1 \in 1..Len(s) /\ i \in Nat
      BY <1>3, <1>4
    <3>2. Tail(s)[i] = s[i + 1] /\ s[i + 1] = c + (i + 1)
      BY <1>3, <1>4, <3>1
    <3> QED
      BY <1>3, <3>1, <3>2
  <2> QED
    BY <1>5, <1>7, <2>1, <2>2
<1>9. Received' = Received
  BY <1>1 DEF Received
<1>10. FirstBlocks(Received', g, Read(g)' - InHand(g)')
  <2>1. (c + 1) - 1 = c - 0
    BY <1>3
  <2> QED
    BY <1>3, <1>6, <1>7, <1>9, <2>1
<1>11. Read(g)' > 0 /\ hand'[g] = Read(g)'
  BY <1>3, <1>5, <1>7
<1>12. InOrder(Received')
  BY <1>9 DEF IntactInv, ReceivedIsRead
<1>13. \A h \in Gens \ {g} : \A n : FirstBlocks(Received, h, n)
                                      => FirstBlocks(Received', h, n)
  BY <1>9
<1>14. /\ hand' = [hand EXCEPT ![g] = hand'[g]]
       /\ pipe' = [pipe EXCEPT ![g] = pipe'[g]]
       /\ produced' = [produced EXCEPT ![g] = produced'[g]]
       /\ reader' = [reader EXCEPT ![g] = reader'[g]]
  BY <1>1, <1>2, <1>5
<1>15. PipeIsTheRest' /\ ReceivedIsRead'
  BY <1>1, <1>8, <1>10, <1>11, <1>12, <1>13, <1>14, OneConsole
<1>16. TypeOK'
  BY <1>1, <1>2, <1>4 DEF IntactInv, TypeOK
<1> QED
  BY <1>15, <1>16

\* The block of an interrupted reader is thrown away.
LEMMA RecheckIntact ==
  ASSUME IntactInv, ControlTypeOK', NEW g \in Gens, ReaderRecheck(g)
  PROVE  TypeOK' /\ PipeIsTheRest' /\ ReceivedIsRead'
<1>1. /\ reader[g] = "recheck"
      /\ reader' = [reader EXCEPT
                      ![g] = IF g \in interrupted THEN "done" ELSE "append"]
      /\ UNCHANGED <<interrupted, hand, pipe, produced, buffer, delivered>>
  BY DEF ReaderRecheck, ReaderStep, dataVars
<1>2. /\ hand \in [Gens -> Nat] /\ pipe \in [Gens -> Seq(Nat \ {0})]
      /\ reader \in [Gens -> Readers] /\ produced \in [Gens -> Nat]
      /\ interrupted \subseteq Gens
      /\ buffer \in Seq(Blocks) /\ delivered \in Seq(Blocks)
  BY DEF IntactInv, TypeOK, ControlTypeOK
<1>3. Received' = Received
  BY <1>1 DEF Received
<1>4. CASE g \notin interrupted
  <2>1. \A h \in Gens : /\ InHand(h)' = InHand(h)
                        /\ reader[h] = "done" => reader'[h] = "done"
    BY <1>1, <1>2, <1>4 DEF InHand
  <2> QED
    BY <1>1, <1>2, <1>3, <2>1, QuietData
<1>5. CASE g \in interrupted
  <2>1. reader'[g] = "done" /\ InHand(g) = 1
    BY <1>1, <1>2, <1>5 DEF InHand
  <2>2. InHand(g)' = 0 /\ Read(g)' = Read(g)
    BY <1>1, <2>1 DEF InHand, Read
  <2>3. FirstBlocks(Received', g, Read(g)' - 1)
    BY <1>1, <1>3, <2>1, <2>2, ConsoleFacts
  <2>4. /\ Len(pipe'[g]) <= produced'[g]
        /\ \A i \in 1..Len(pipe'[g]) : pipe'[g][i] = Read(g)' + i
    BY <1>1, <2>2, ConsoleFacts
  <2>5. InOrder(Received')
    BY <1>3 DEF IntactInv, ReceivedIsRead
  <2>6. /\ hand' = [hand EXCEPT ![g] = hand'[g]]
        /\ pipe' = [pipe EXCEPT ![g] = pipe'[g]]
        /\ produced' = [produced EXCEPT ![g] = produced'[g]]
        /\ reader' = [reader EXCEPT ![g] = reader'[g]]
    BY <1>1, <1>2, <2>1
  <2>7. \A h \in Gens \ {g} : \A n : FirstBlocks(Received, h, n)
                                       => FirstBlocks(Received', h, n)
    BY <1>3
  <2>8. PipeIsTheRest' /\ ReceivedIsRead'
    <3>1. InHand(g)' = 1 => Read(g)' > 0 /\ hand'[g] = Read(g)'
      BY <2>2
    <3>2. \/ FirstBlocks(Received', g, Read(g)' - InHand(g)')
          \/ /\ g \in interrupted /\ reader'[g] = "done"
             /\ FirstBlocks(Received', g, Read(g)' - 1)
      BY <1>5, <2>1, <2>3
    <3>3. interrupted' = interrupted
      BY <1>1
    <3> QED
      BY <2>4, <2>5, <2>6, <2>7, <3>1, <3>2, <3>3, OneConsole
  <2> QED
    BY <1>1, <2>8 DEF IntactInv, TypeOK
<1> QED
  BY <1>4, <1>5

\* appendBuffer(): the block joins those that came before it.
LEMMA AppendIntact ==
  ASSUME IntactInv, ControlTypeOK', NEW g \in Gens, AppendBuffer(g)
  PROVE  TypeOK' /\ PipeIsTheRest' /\ ReceivedIsRead' /\ OneReader'
<1> DEFINE x == <<g, hand[g]>>
           c == Read(g) - 1
<1>1. /\ reader[g] = "append" /\ reader' = [reader EXCEPT ![g] = "emit"]
      /\ buffer' = Append(buffer, x) /\ hand' = [hand EXCEPT ![g] = 0]
      /\ UNCHANGED <<interrupted, pipe, produced, delivered, timedOut, main, member>>
  BY DEF AppendBuffer, ReaderStep, mainVars, histVars
<1>2. /\ hand \in [Gens -> Nat] /\ pipe \in [Gens -> Seq(Nat \ {0})]
      /\ reader \in [Gens -> Readers] /\ produced \in [Gens -> Nat]
      /\ buffer \in Seq(Blocks) /\ delivered \in Seq(Blocks)
  BY DEF IntactInv, TypeOK, ControlTypeOK
<1>3. /\ InHand(g) = 1 /\ Read(g) \in Nat /\ Read(g) > 0 /\ hand[g] = Read(g)
      /\ FirstBlocks(Received, g, c)
      /\ Len(pipe[g]) <= produced[g]
      /\ \A i \in 1..Len(pipe[g]) : pipe[g][i] = Read(g) + i
  <2>1. InHand(g) = 1
    BY <1>1 DEF InHand
  <2> QED
    BY <1>1, <2>1, ConsoleFacts
<1>4. c \in Nat /\ c + 1 = Read(g) /\ x = <<g, c + 1>> /\ x \in Blocks
  BY <1>3 DEF Blocks
<1>5. reader'[g] = "emit" /\ hand'[g] = 0
  BY <1>1, <1>2
<1>6. InHand(g)' = 0 /\ Read(g)' = Read(g)
  BY <1>1, <1>5 DEF InHand, Read
<1> HIDE DEF x, c
<1>7. Received' = Append(Received, x) /\ Received \in Seq(Blocks)
  <2>1. Received \in Seq(Blocks)
    BY <1>2, ConcatProperties DEF Received
  <2>2. /\ Append(buffer, x) = buffer \o <<x>> /\ <<x>> \in Seq(Blocks)
        /\ Append(Received, x) = Received \o <<x>>
    <3>1. buffer \in Seq(Blocks) /\ x \in Blocks
      BY <1>2, <1>4
    <3> QED
      BY <2>1, <3>1, AppendIsConcat
  <2>3. (delivered \o buffer) \o <<x>> = delivered \o (buffer \o <<x>>)
    BY <1>2, <2>2, ConcatAssociative
  <2> QED
    BY <1>1, <2>1, <2>2, <2>3 DEF Received
<1>8. InOrder(Received)
  BY DEF IntactInv, ReceivedIsRead
<1>9. /\ InOrder(Received') /\ FirstBlocks(Received', g, c + 1)
      /\ \A h \in Gens \ {g} : \A n : FirstBlocks(Received, h, n)
                                        => FirstBlocks(Received', h, n)
  BY <1>3, <1>4, <1>7, <1>8, BlockAdded
<1>10. PipeIsTheRest' /\ ReceivedIsRead'
  <2>1. FirstBlocks(Received', g, Read(g)' - InHand(g)')
    <3>1. Read(g) - 0 = c + 1
      BY <1>3, <1>4
    <3> QED
      BY <1>6, <1>9, <3>1
  <2>2. /\ hand' = [hand EXCEPT ![g] = hand'[g]]
        /\ pipe' = [pipe EXCEPT ![g] = pipe'[g]]
        /\ produced' = [produced EXCEPT ![g] = produced'[g]]
        /\ reader' = [reader EXCEPT ![g] = reader'[g]]
    BY <1>1, <1>2, <1>5
  <2>3. /\ Len(pipe'[g]) <= produced'[g]
        /\ \A i \in 1..Len(pipe'[g]) : pipe'[g][i] = Read(g)' + i
    BY <1>1, <1>3, <1>6
  <2>4. InHand(g)' = 1 => Read(g)' > 0 /\ hand'[g] = Read(g)'
    BY <1>6
  <2>5. interrupted' = interrupted
    BY <1>1
  <2> QED
    BY <1>9, <2>1, <2>2, <2>3, <2>4, <2>5, OneConsole
<1>11. TypeOK'
  <2>1. buffer' \in Seq(Blocks) /\ hand' \in [Gens -> Nat]
    BY <1>1, <1>2, <1>4, AppendProperties
  <2> QED
    BY <1>1, <2>1 DEF IntactInv, TypeOK
<1>12. OneReader'
  <2>1. CASE timedOut
    BY <1>1, <2>1 DEF OneReader
  <2>2. CASE ~timedOut
    <3>1. Running(g) /\ \A h \in Gens : Running(h)' => Running(h)
      BY <1>1, <1>2 DEF Running
    <3>2. /\ member["thread"] = g /\ main \notin {"build", "destroy", "destroyed"}
          /\ \A i \in DOMAIN Received : Received[i][1] <= g
          /\ Apart(Received)
          /\ \A h \in Gens : Running(h) => member["thread"] = h
      BY <2>2, <3>1 DEF IntactInv, OneReader
    <3>3. hand[g] \in Nat \ {0} /\ x = <<g, hand[g]>>
      BY <1>3 DEF x
    <3>4. /\ Apart(Received')
          /\ \A i \in DOMAIN Received' : Received'[i][1] <= g
      BY <1>7, <3>2, <3>3, ApartAppend
    <3> QED
      BY <1>1, <3>1, <3>2, <3>4 DEF OneReader, Apart
  <2> QED
    BY <2>1, <2>2
<1> QED
  BY <1>10, <1>11, <1>12

\* The console writes a block.
LEMMA OutputIntactStep ==
  ASSUME IntactInv, ControlTypeOK', NEW g \in Gens, Output(g)
  PROVE  TypeOK' /\ PipeIsTheRest' /\ ReceivedIsRead'
<1> DEFINE s == pipe[g]
           c == Read(g)
           x == produced[g] + 1
<1>1. /\ produced' = [produced EXCEPT ![g] = x]
      /\ pipe' = [pipe EXCEPT ![g] = Append(s, x)]
      /\ UNCHANGED <<reader, interrupted, hand, buffer, delivered>>
  BY DEF Output, dataVars
<1>2. /\ hand \in [Gens -> Nat] /\ pipe \in [Gens -> Seq(Nat \ {0})]
      /\ reader \in [Gens -> Readers] /\ produced \in [Gens -> Nat]
  BY DEF IntactInv, TypeOK, ControlTypeOK
<1>3. /\ s \in Seq(Nat \ {0}) /\ Len(s) \in Nat /\ produced[g] \in Nat
      /\ Len(s) <= produced[g] /\ c \in Nat /\ c = produced[g] - Len(s)
      /\ \A i \in 1..Len(s) : s[i] = c + i
      /\ InHand(g) = 1 => c > 0 /\ hand[g] = c
  BY ConsoleFacts DEF Read
<1>4. x \in Nat \ {0} /\ c + (Len(s) + 1) = x
  BY <1>3
<1> HIDE DEF s, x, c
<1>5. /\ Append(s, x) \in Seq(Nat \ {0}) /\ Len(Append(s, x)) = Len(s) + 1
      /\ Append(s, x)[Len(s) + 1] = x
      /\ \A i \in 1..Len(s) : Append(s, x)[i] = s[i]
  BY <1>3, <1>4, AppendProperties
<1>6. produced'[g] = x /\ pipe'[g] = Append(s, x)
  BY <1>1, <1>2
<1>7. Read(g)' = c /\ InHand(g)' = InHand(g)
  <2>1. produced'[g] - Len(pipe'[g]) = c
    BY <1>3, <1>4, <1>5, <1>6
  <2> QED
    BY <1>1, <2>1 DEF Read, InHand
<1>8. Len(pipe'[g]) <= produced'[g]
  BY <1>3, <1>4, <1>5, <1>6
<1>9. \A i \in 1..Len(pipe'[g]) : pipe'[g][i] = Read(g)' + i
  <2> SUFFICES ASSUME NEW i \in 1..(Len(s) + 1) PROVE Append(s, x)[i] = c + i
    BY <1>5, <1>6, <1>7
  <2>1. CASE i \in 1..Len(s)
    BY <1>3, <1>5, <2>1
  <2>2. CASE i = Len(s) + 1
    BY <1>4, <1>5, <2>2
  <2>3. Len(s) \in Nat
    BY <1>3
  <2> QED
    BY <2>1, <2>2, <2>3
<1>10. Received' = Received
  BY <1>1 DEF Received
<1>11. \/ FirstBlocks(Received', g, Read(g)' - InHand(g)')
       \/ /\ g \in interrupted /\ reader'[g] = "done"
          /\ FirstBlocks(Received', g, Read(g)' - 1)
  BY <1>1, <1>7, <1>10 DEF IntactInv, ReceivedIsRead, c
<1>12. InOrder(Received')
  BY <1>10 DEF IntactInv, ReceivedIsRead
<1>13. InHand(g)' = 1 => Read(g)' > 0 /\ hand'[g] = Read(g)'
  BY <1>1, <1>3, <1>7
<1>14. \A h \in Gens \ {g} : \A n : FirstBlocks(Received, h, n)
                                      => FirstBlocks(Received', h, n)
  BY <1>10
<1>15. /\ hand' = [hand EXCEPT ![g] = hand'[g]]
       /\ pipe' = [pipe EXCEPT ![g] = pipe'[g]]
       /\ produced' = [produced EXCEPT ![g] = produced'[g]]
       /\ reader' = [reader EXCEPT ![g] = reader'[g]]
       /\ interrupted' = interrupted
  BY <1>1, <1>2, <1>6
<1>16. PipeIsTheRest' /\ ReceivedIsRead'
  BY <1>8, <1>9, <1>11, <1>12, <1>13, <1>14, <1>15, OneConsole
<1>17. TypeOK'
  BY <1>1, <1>2, <1>4, <1>5 DEF IntactInv, TypeOK
<1> QED
  BY <1>16, <1>17

\* stop() waits for the one reader; after a new console was built there is
\* again one, whose blocks come last.
LEMMA BuildOneReader ==
  ASSUME IntactInv, NEW o \in Outcomes, Build(o)
  PROVE  OneReader'
<1> DEFINE n == starts + 1
<1>1. /\ main = "build" /\ main' = "idle"
      /\ member' = [k \in Kinds |->
                      IF k \in Replaced(o) THEN n
                      ELSE IF k = "process" /\ o \notin NoConsole THEN 0
                      ELSE member[k]]
      /\ reader' = IF o \in NoConsole THEN reader
                   ELSE [reader EXCEPT ![n] = "check"]
      /\ UNCHANGED <<buffer, delivered, timedOut>>
  BY DEF Build, BuildWith
<1>2. "thread" \in Replaced(o) <=> o \notin NoConsole
  BY DEF Replaced, Outcomes, NoConsole, Kinds
<1>3. member'["thread"] = IF o \in NoConsole THEN member["thread"] ELSE n
  BY <1>1, <1>2 DEF Kinds
<1>4. Received' = Received
  BY <1>1 DEF Received
<1>5. CASE timedOut
  BY <1>1, <1>5 DEF OneReader
<1>6. CASE ~timedOut
  <2>1. \A g \in Gens : ~Running(g)
    BY <1>1, <1>6 DEF IntactInv, OneReader
  <2>2. /\ \A i \in DOMAIN Received : Received[i][1] <= member["thread"]
        /\ Apart(Received)
    BY <1>6 DEF IntactInv, OneReader
  <2>3. /\ reader \in [Gens -> Readers] /\ starts \in Int
        /\ member["thread"] \in Int /\ member["thread"] <= starts
    BY GensFacts DEF IntactInv, ReleaseInv, ControlTypeOK, Fresh, Kinds
  <2>4. ASSUME NEW g \in Gens, Running(g)' PROVE member'["thread"] = g
    <3>1. CASE o \in NoConsole
      BY <1>1, <2>1, <2>4, <3>1 DEF Running
    <3>2. CASE o \notin NoConsole
      BY <1>1, <1>3, <2>1, <2>3, <2>4, <3>2 DEF Running
    <3> QED
      BY <3>1, <3>2
  <2>5. ASSUME NEW i \in DOMAIN Received PROVE Received[i][1] <= member'["thread"]
    <3>1. Received[i][1] \in Int
      <4>1. Received \in Seq(Blocks)
        BY ConcatProperties DEF IntactInv, TypeOK, Received
      <4>2. Received[i] \in Blocks
        BY <4>1, ElementOfSeq
      <4>3. Received[i][1] \in Gens
        BY <4>2 DEF Blocks
      <4> QED
        BY <4>3, GensFacts
    <3> QED
      BY <1>3, <2>2, <2>3, <3>1
  <2>6. Apart(Received')
    BY <1>4, <2>2
  <2> QED
    BY <1>1, <1>4, <2>4, <2>5, <2>6 DEF OneReader, Apart
<1> QED
  BY <1>5, <1>6

LEMMA NextIntactInv == IntactInv /\ [Next]_vars => IntactInv'
<1> SUFFICES ASSUME IntactInv, [Next]_vars PROVE IntactInv'
  OBVIOUS
<1>0. /\ ReleaseInv' /\ ControlTypeOK' /\ OneReader
      /\ reader \in [Gens -> Readers] /\ interrupted \subseteq Gens
      /\ buffer \in Seq(Blocks) /\ delivered \in Seq(Blocks)
      /\ member \in [Kinds -> 0..MaxStarts]
  BY NextReleaseInv DEF IntactInv, ReleaseInv, TypeOK, ControlTypeOK
<1> SUFFICES TypeOK' /\ PipeIsTheRest' /\ ReceivedIsRead' /\ OneReader'
  BY <1>0 DEF IntactInv
<1> DEFINE dataFixed == <<hand, pipe, produced, buffer, delivered>>
<1>1. CASE StopInterrupt
  <2>1. /\ UNCHANGED dataFixed /\ UNCHANGED <<reader, member, timedOut>>
        /\ main' \notin {"build", "destroy", "destroyed"}
    BY <1>1 DEF StopInterrupt, dataVars, histVars
  <2>2. interrupted \subseteq interrupted' /\ interrupted' \subseteq Gens
    BY <1>0, <1>1, GensFacts DEF StopInterrupt, Kinds
  <2>3. Received' = Received
    BY <2>1 DEF Received
  <2>4. \A g \in Gens : InHand(g)' = InHand(g) /\ Running(g)' = Running(g)
    BY <2>1 DEF InHand, Running
  <2> QED
    BY <1>0, <2>1, <2>2, <2>3, <2>4, QuietData, SameReaders
<1>2. CASE \/ StopClose \/ DeferredDelete \/ TakeError \/ UseStaleHandle
           \/ UNCHANGED vars
           \/ \E g \in Gens : ProcessExited(g) \/ ProcessExits(g)
  <2>1. /\ UNCHANGED dataFixed /\ UNCHANGED <<reader, member, timedOut, interrupted>>
        /\ main' \notin {"build", "destroy", "destroyed"} \/ main' = main
    BY <1>2 DEF StopClose, Proceed, DeferredDelete, TakeError, UseStaleHandle,
                ProcessExited, ProcessExits, vars, mainVars, readerVars,
                dataVars, histVars
  <2>2. Received' = Received
    BY <2>1 DEF Received
  <2>3. \A g \in Gens : InHand(g)' = InHand(g) /\ Running(g)' = Running(g)
    BY <2>1 DEF InHand, Running
  <2> QED
    BY <1>0, <2>1, <2>2, <2>3, QuietData, SameReaders
<1>3. CASE StopJoin \/ Destroy
  <2>1. UNCHANGED dataFixed /\ UNCHANGED <<reader, member, interrupted>>
    BY <1>3 DEF StopJoin, Destroy, readerVars, dataVars
  <2>2. Received' = Received
    BY <2>1 DEF Received
  <2>3. \A g \in Gens : InHand(g)' = InHand(g) /\ Running(g)' = Running(g)
    BY <2>1 DEF InHand, Running
  <2>4. TypeOK' /\ PipeIsTheRest' /\ ReceivedIsRead'
    BY <1>0, <2>1, <2>2, <2>3, QuietData
  <2>5. OneReader'
    <3>1. CASE timedOut'
      BY <3>1 DEF OneReader
    <3>2. CASE ~timedOut'
      <4>1. ~timedOut
        BY <1>3, <3>2 DEF StopJoin, Destroy, histVars
      <4>2. \A g \in Gens : ~Running(g)
        <5>1. CASE StopJoin
          <6>1. ~(member["thread"] # 0 /\ Running(member["thread"]))
            BY <3>2, <5>1 DEF StopJoin
          <6>2. \A g \in Gens : Running(g) => member["thread"] = g
            BY <1>0, <4>1 DEF OneReader
          <6> QED
            BY <6>1, <6>2, GensFacts
        <5>2. CASE Destroy
          BY <1>0, <4>1, <5>2 DEF OneReader, Destroy
        <5> QED
          BY <1>3, <5>1, <5>2
      <4>3. /\ \A i \in DOMAIN Received : Received[i][1] <= member["thread"]
            /\ Apart(Received)
        BY <1>0, <4>1 DEF OneReader
      <4>4. Apart(Received')
        BY <2>2, <4>3
      <4> QED
        BY <2>1, <2>2, <2>3, <4>2, <4>3, <4>4 DEF OneReader, Apart
    <3> QED
      BY <3>1, <3>2
  <2> QED
    BY <2>4, <2>5
<1>4. ASSUME NEW o \in Outcomes, Build(o)
      PROVE  TypeOK' /\ PipeIsTheRest' /\ ReceivedIsRead' /\ OneReader'
  <2>1. /\ UNCHANGED dataFixed /\ UNCHANGED interrupted
        /\ reader' = IF o \in NoConsole THEN reader
                     ELSE [reader EXCEPT ![starts + 1] = "check"]
        /\ main = "build"
    BY <1>4 DEF Build, BuildWith
  <2>2. reader[starts + 1] = "none" /\ starts + 1 \in Gens
    <3>1. starts \in 0..MaxStarts /\ starts < MaxStarts /\ Fresh
      BY <2>1 DEF IntactInv, ReleaseInv, ControlTypeOK, Fresh
    <3>2. starts + 1 \in Gens /\ starts + 1 > starts
      BY <3>1, GensFacts
    <3> QED
      BY <3>1, <3>2 DEF Fresh
  <2>3. \A g \in Gens : /\ InHand(g)' = InHand(g)
                        /\ reader[g] = "done" => reader'[g] = "done"
    BY <1>0, <2>1, <2>2 DEF InHand
  <2>4. Received' = Received
    BY <2>1 DEF Received
  <2> QED
    BY <1>0, <1>4, <2>1, <2>3, <2>4, QuietData, BuildOneReader
<1>5. CASE ReadAll
  <2>1. TypeOK' /\ PipeIsTheRest' /\ ReceivedIsRead' /\ Received' = Received
    BY <1>0, <1>5, ReadAllIntact
  <2>2. UNCHANGED <<reader, member, timedOut, main>>
    BY <1>5 DEF ReadAll, mainVars, readerVars, histVars
  <2>3. \A g \in Gens : Running(g)' = Running(g)
    BY <2>2 DEF Running
  <2> QED
    BY <1>0, <2>1, <2>2, <2>3, SameReaders
<1>6. ASSUME NEW g \in Gens, ReaderContinues(g)
      PROVE  TypeOK' /\ PipeIsTheRest' /\ ReceivedIsRead' /\ OneReader'
  <2>1. /\ UNCHANGED <<member, timedOut, main>>
        /\ \A h \in Gens : Running(h)' => Running(h)
    BY <1>6, ReaderLeaves DEF IntactInv, controlVars
  <2>2. CASE ReaderCheck(g) \/ ReadFileFails(g) \/ EmitError(g) \/ EmitReadyRead(g)
    <3>1. /\ UNCHANGED dataFixed /\ UNCHANGED interrupted
          /\ reader[g] \in {"check", "read", "emitError", "emit"}
          /\ \E to \in {"done", "read", "emitError", "check"} :
               reader' = [reader EXCEPT ![g] = to]
      BY <2>2 DEF ReaderCheck, ReadFileFails, EmitError, EmitReadyRead,
                  ReaderStep, dataVars
    <3>2. Received' = Received
      BY <3>1 DEF Received
    <3>3. \A h \in Gens : /\ InHand(h)' = InHand(h)
                          /\ reader[h] = "done" => reader'[h] = "done"
      BY <1>0, <3>1 DEF InHand
    <3> QED
      BY <1>0, <2>1, <3>1, <3>2, <3>3, QuietData, SameReaders
  <2>3. CASE ReadFile(g)
    <3>1. Received' = Received
      BY <2>3 DEF ReadFile, dataVars, Received
    <3> QED
      BY <1>0, <2>1, <2>3, <3>1, ReadFileIntact, SameReaders
  <2>4. CASE ReaderRecheck(g)
    <3>1. Received' = Received
      BY <2>4 DEF ReaderRecheck, dataVars, Received
    <3> QED
      BY <1>0, <2>1, <2>4, <3>1, RecheckIntact, SameReaders
  <2>5. CASE AppendBuffer(g)
    BY <1>0, <2>5, AppendIntact
  <2> QED
    BY <1>6, <2>2, <2>3, <2>4, <2>5 DEF ReaderContinues
<1>7. ASSUME NEW g \in Gens, Output(g)
      PROVE  TypeOK' /\ PipeIsTheRest' /\ ReceivedIsRead' /\ OneReader'
  <2>1. UNCHANGED <<reader, member, timedOut, main, buffer, delivered>>
    BY <1>7 DEF Output, mainVars, dataVars, histVars
  <2>2. Received' = Received /\ \A h \in Gens : Running(h)' = Running(h)
    BY <2>1 DEF Received, Running
  <2> QED
    BY <1>0, <1>7, <2>1, <2>2, OutputIntactStep, SameReaders
<1> QED
  BY <1>1, <1>2, <1>3, <1>4, <1>5, <1>6, <1>7 DEF Next, MainContinues, Halted

LEMMA IntactInvariant == Spec => []IntactInv
  BY InitIntactInv, NextIntactInv, PTL DEF Spec

\* Members, handles, threads and blocks stay what they are declared to be: in
\* particular no reader ever appends the empty block it starts with.
THEOREM TypeCorrect == Spec => []TypeOK
<1>1. IntactInv => TypeOK
  BY DEF IntactInv
<1> QED
  BY <1>1, IntactInvariant, PTL

\* What readAll() returns is, of each console, a beginning of its output in
\* order and without repetition, all of it that has left the pipe while the
\* reader is not interrupted; and the outputs of two consoles mix only when
\* wait(1000) gave up on the older reader.
THEOREM OutputIsIntact == Spec => []OutputIntact
<1>1. IntactInv => OutputIntact
  <2> SUFFICES ASSUME IntactInv PROVE OutputIntact
    OBVIOUS
  <2>1. InOrder(Received) /\ (~timedOut => Apart(Received))
    BY DEF IntactInv, ReceivedIsRead, OneReader
  <2>2. Received \in Seq(Blocks)
    BY ConcatProperties DEF IntactInv, TypeOK, Received
  <2>3. ASSUME NEW g \in Gens, NEW n, FirstBlocks(Received, g, n)
        PROVE  Numbers(g) = 1..n
    <3>0. n \in Nat
      BY <2>3 DEF FirstBlocks
    <3>1. ASSUME NEW i \in DOMAIN Received, Received[i][1] = g
          PROVE  Received[i][2] \in 1..n
      <4>1. Received[i] \in Blocks
        BY <2>2, ElementOfSeq
      <4>2. Received[i][2] \in Nat \ {0}
        BY <4>1 DEF Blocks
      <4>3. Received[i][2] <= n
        BY <2>3, <3>1 DEF FirstBlocks
      <4> QED
        BY <3>0, <4>2, <4>3
    <3>2. ASSUME NEW m \in 1..n PROVE m \in Numbers(g)
      <4>1. PICK i \in DOMAIN Received : Received[i] = <<g, m>>
        BY <2>3 DEF FirstBlocks
      <4>2. Received[i][1] = g /\ Received[i][2] = m
        BY <4>1
      <4> QED
        BY <4>2 DEF Numbers
    <3>3. Numbers(g) \subseteq 1..n
      BY <3>1 DEF Numbers
    <3> QED
      BY <3>2, <3>3
  <2>4. ASSUME NEW g \in Gens
        PROVE  \E n \in 0..produced[g] :
                 /\ Numbers(g) = 1..n
                 /\ g \notin interrupted =>
                      n + InHand(g) + Len(pipe[g]) = produced[g]
    <3>1. /\ Len(pipe[g]) \in Nat /\ produced[g] \in Nat /\ Read(g) \in Nat
          /\ Read(g) = produced[g] - Len(pipe[g])
      BY ConsoleFacts DEF Read
    <3>2. InHand(g) \in {0, 1}
      BY DEF InHand
    <3>3. CASE FirstBlocks(Received, g, Read(g) - InHand(g))
      <4> DEFINE n == Read(g) - InHand(g)
      <4>1. n \in Nat
        BY <3>3 DEF FirstBlocks
      <4>2. n \in 0..produced[g] /\ n + InHand(g) + Len(pipe[g]) = produced[g]
        BY <3>1, <3>2, <4>1
      <4>3. Numbers(g) = 1..n
        BY <2>3, <3>3
      <4> QED
        BY <4>2, <4>3
    <3>4. CASE g \in interrupted /\ FirstBlocks(Received, g, Read(g) - 1)
      <4> DEFINE n == Read(g) - 1
      <4>1. n \in Nat
        BY <3>4 DEF FirstBlocks
      <4>2. n \in 0..produced[g]
        BY <3>1, <4>1
      <4>3. Numbers(g) = 1..n
        BY <2>3, <3>4
      <4> QED
        BY <3>4, <4>2, <4>3
    <3> QED
      BY <3>3, <3>4 DEF IntactInv, ReceivedIsRead
  <2> QED
    BY <2>1, <2>4 DEF OutputIntact
<1> QED
  BY <1>1, IntactInvariant, PTL
=============================================================================
