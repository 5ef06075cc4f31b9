------------------------------- MODULE ConPty -------------------------------
(***************************************************************************)
(* Pty/ConPty, its PipeThread and the Pty base class: a Windows pseudo      *)
(* console whose output a reader thread collects in m_buffer for the main   *)
(* thread.                                                                  *)
(*                                                                          *)
(* The g-th createProcess() makes resources of generation g.  The members   *)
(* of ConPty hold generations, 0 for INVALID_HANDLE_VALUE and nullptr; what *)
(* is really open is kept apart, because stop() leaves its members as they  *)
(* are.  stop() runs in three steps beside the readers: requestInterruption,*)
(* the closing of the handles, and wait(1000) with deleteLater().  Behaviour*)
(* is undefined after a fault, so the model goes no further.  isAvailable() *)
(* holds: on an older Windows createProcess() only reports an error.        *)
(***************************************************************************)
EXTENDS Integers, Sequences, FiniteSetsExt

CONSTANTS
  MaxStarts,    \* bound: calls of createProcess()
  MaxBlocks     \* bound: blocks of output of all consoles together

ASSUME ConstantsAssumption ==
  /\ MaxStarts \in Nat \ {0}
  /\ MaxBlocks \in Nat

Gens  == 1..MaxStarts
Kinds == {"inPipe", "outPipe", "console", "startup", "process", "thread"}

\* A QWinEventNotifier made for the handle NULL: it never fires.
NullHandle == -1

VARIABLES
  main,         \* what the thread of the ConPty does
  starts,       \* the number of createProcess() calls so far
  member,       \* the generation each member refers to, 0 for none
  open,         \* the resources that are really open: <<kind, generation>>
  doomed,       \* objects deleteLater() was called for
  notifier,     \* m_winProcessEventNotifier: the process it watches,
                \* NullHandle, or 0 for nullptr
  armed,        \* the QWinEventNotifiers that are alive and enabled
  signaled,     \* exited processes whose notifier has yet to be activated
  reader,       \* pc of each PipeThread
  interrupted,  \* the PipeThreads with requestInterruption()
  hand,         \* szBuffer of each PipeThread
  pipe,         \* output in the pipe of each console
  produced,     \* number of blocks each console has written
  buffer,       \* m_buffer: blocks <<generation, number>>
  errorText,    \* m_errorString is not empty
  signals,      \* readyRead and errorOccurred on their way to the listener
  delivered,    \* history: the blocks readAll() has returned
  timedOut,     \* history: wait(1000) ended before the reader did
  pipesFailed,  \* history: createPseudoConsoleAndPipes failed
  lateExit,     \* history: an exit was still unprocessed when stop() came
  fault         \* what went wrong in memory or handles, or "none"

mainVars   == <<main, starts, member, doomed, notifier>>
readerVars == <<reader, interrupted, hand, pipe, produced>>
dataVars   == <<buffer, errorText, signals, delivered>>
histVars   == <<timedOut, pipesFailed, lateExit>>
vars == <<main, starts, member, open, doomed, notifier, armed, signaled,
          reader, interrupted, hand, pipe, produced, buffer, errorText,
          signals, delivered, timedOut, pipesFailed, lateExit, fault>>

\* QThread has started and run() has not returned.
Running(g) == reader[g] \notin {"none", "done"}

Released(kinds) == {<<k, member[k]>> : k \in {j \in kinds : member[j] # 0}}

-----------------------------------------------------------------------------
Init ==
  /\ main = "idle"
  /\ starts = 0
  /\ member = [k \in Kinds |-> 0]
  /\ open = {}
  /\ doomed = {}
  /\ notifier = 0
  /\ armed = {}
  /\ signaled = {}
  /\ reader = [g \in Gens |-> "none"]
  /\ interrupted = {}
  /\ hand = [g \in Gens |-> 0]
  /\ pipe = [g \in Gens |-> <<>>]
  /\ produced = [g \in Gens |-> 0]
  /\ buffer = <<>>
  /\ errorText = FALSE
  /\ signals = {}
  /\ delivered = <<>>
  /\ timedOut = FALSE
  /\ pipesFailed = FALSE
  /\ lateExit = FALSE
  /\ fault = "none"

-----------------------------------------------------------------------------
(* The thread of the ConPty.                                               *)

\* createProcess() and ~ConPty() begin with stop(): requestInterruption of the
\* thread m_pipeThread points to, which may be gone.  On a thread that has
\* returned it has no effect.
StopInterrupt ==
  /\ main = "idle"
  /\ \/ starts < MaxStarts /\ main' = "closeToCreate"
     \/ main' = "closeToDestroy"
  /\ LET g == member["thread"] IN
     /\ fault' = IF g # 0 /\ <<"thread", g>> \notin open
                 THEN "deletedThread" ELSE fault
     /\ interrupted' = IF g # 0 /\ Running(g) THEN interrupted \cup {g}
                       ELSE interrupted
  /\ UNCHANGED <<starts, member, open, doomed, notifier, armed, signaled,
                 reader, hand, pipe, produced, dataVars, histVars>>

Handles == {"process", "startup", "console", "inPipe", "outPipe"}

\* handle() of the notifier.
WatchedHandle == IF notifier = NullHandle THEN 0 ELSE notifier

Closing == main \in {"closeToCreate", "closeToDestroy"}
Proceed == main' = IF main = "closeToCreate" THEN "waitToCreate"
                   ELSE "waitToDestroy"

\* uninstallWinProcessEventNotifier(hProcess).  The deletion of a notifier
\* that never fires is not followed up.
Uninstall ==
  IF notifier # 0 /\ WatchedHandle = member["process"]
  THEN /\ notifier' = 0
       /\ doomed' = IF notifier = NullHandle THEN doomed
                    ELSE doomed \cup {<<"notifier", notifier>>}
       /\ lateExit' = (lateExit \/ notifier \in signaled)
  ELSE UNCHANGED <<notifier, doomed, lateExit>>

\* Faulty: ClosePseudoConsole is compiled out.
StopCloseKeepsConsole ==
  /\ Closing
  /\ Uninstall
  /\ fault' = IF Released(Handles) \subseteq open THEN fault
              ELSE "doubleRelease"
  /\ open' = open \ Released(Handles \ {"console"})
  /\ Proceed
  /\ UNCHANGED <<starts, member, armed, signaled, readerVars, dataVars,
                 timedOut, pipesFailed>>

\* The middle of stop(): the notifier, both process handles, the attribute
\* list, the console and the pipes are released, whether or not an earlier
\* stop() has released them.
StopClose ==
  /\ Closing
  /\ Uninstall
  /\ fault' = IF Released(Handles) \subseteq open THEN fault
              ELSE "doubleRelease"
  /\ open' = open \ Released(Handles)
  /\ Proceed
  /\ UNCHANGED <<starts, member, armed, signaled, readerVars, dataVars,
                 timedOut, pipesFailed>>

\* Faulty: stop() does not wait for the reader.
StopJoinWithoutWait ==
  /\ main \in {"waitToCreate", "waitToDestroy"}
  /\ main' = IF main = "waitToCreate" THEN "build" ELSE "destroy"
  /\ doomed' = IF member["thread"] # 0
               THEN doomed \cup {<<"thread", member["thread"]>>} ELSE doomed
  /\ UNCHANGED <<starts, member, open, notifier, armed, signaled, readerVars,
                 dataVars, histVars, fault>>

\* The end of stop(): wait(1000) returns when the reader has ended or after a
\* second; deleteLater() follows in both cases.
StopJoin ==
  LET g == member["thread"] IN
  /\ main \in {"waitToCreate", "waitToDestroy"}
  /\ main' = IF main = "waitToCreate" THEN "build" ELSE "destroy"
  /\ doomed' = IF g # 0 THEN doomed \cup {<<"thread", g>>} ELSE doomed
  /\ timedOut' = (timedOut \/ (g # 0 /\ Running(g)))
  /\ UNCHANGED <<starts, member, open, notifier, armed, signaled, readerVars,
                 dataVars, pipesFailed, lateExit, fault>>

\* The members each outcome of createProcess() replaces by new resources:
\* the first or the second CreatePipe, or CreatePseudoConsole may fail, then
\* the attribute list or CreateProcess.
Replaced(outcome) ==
  CASE outcome = "pipe1"   -> {}
    [] outcome = "pipe2"   -> {"outPipe"}
    [] outcome = "console" -> {"outPipe", "inPipe"}
    [] outcome \in {"attributes", "process"} -> Kinds \ {"process"}
    [] OTHER               -> Kinds

NoConsole == {"pipe1", "pipe2", "console"}

\* setErrorCode() in this thread.
SetErrorCode == errorText' = TRUE /\ signals' = signals \cup {"errorOccurred"}

\* The rest of createProcess().  A new PROCESS_INFORMATION is zero until the
\* process exists; without a console the old one stays.  When the second pipe
\* fails, the console's end of the first is never closed.  A failing attribute
\* list leaves hr at S_OK: no error is set, and a notifier is installed for the
\* handle of a process that does not exist.
BuildWith(outcome, replaced) ==
  LET g == starts + 1 IN
  /\ main = "build"
  /\ main' = "idle"
  /\ starts' = g
  /\ member' = [k \in Kinds |->
                  IF k \in replaced THEN g
                  ELSE IF k = "process" /\ outcome \notin NoConsole THEN 0
                  ELSE member[k]]
  /\ open' = open \cup (replaced \X {g})
               \cup (IF outcome = "pipe2" THEN {<<"consoleEnd", g>>} ELSE {})
  /\ pipesFailed' = (pipesFailed \/ outcome \in NoConsole)
  /\ reader' = IF outcome \in NoConsole THEN reader
               ELSE [reader EXCEPT ![g] = "check"]
  /\ notifier' = CASE outcome = "ok"         -> g
                   [] outcome = "attributes" -> NullHandle
                   [] OTHER                  -> notifier
  /\ armed' = IF outcome = "ok" THEN armed \cup {g} ELSE armed
  /\ IF outcome \in {"ok", "attributes"} THEN UNCHANGED <<errorText, signals>>
     ELSE SetErrorCode
  /\ UNCHANGED <<doomed, signaled, interrupted, hand, pipe, produced, buffer,
                 delivered, timedOut, lateExit, fault>>

\* Faulty: the attribute list of the earlier process is used again.
BuildReusesStartup(outcome) ==
  BuildWith(outcome,
            IF starts = 0 THEN Replaced(outcome)
            ELSE Replaced(outcome) \ {"startup"})

Build(outcome) == BuildWith(outcome, Replaced(outcome))

\* ~QObject: the children, the PipeThreads among them, are deleted at once.
Destroy ==
  /\ main = "destroy"
  /\ main' = "destroyed"
  /\ fault' = IF \E g \in Gens : <<"thread", g>> \in open /\ Running(g)
              THEN "deletedRunning" ELSE fault
  /\ open' = open \ ({"thread"} \X Gens)
  /\ doomed' = {}
  /\ armed' = {}
  /\ notifier' = 0
  /\ signals' = {}
  /\ UNCHANGED <<starts, member, signaled, readerVars, buffer, errorText,
                 delivered, histVars>>

\* The event loop carries out a deleteLater().
DeferredDelete ==
  /\ main = "idle"
  /\ \E d \in doomed :
       /\ doomed' = doomed \ {d}
       /\ open' = open \ {d}
       /\ armed' = IF d[1] = "notifier" THEN armed \ {d[2]} ELSE armed
       /\ fault' = IF d[1] = "thread" /\ Running(d[2])
                   THEN "deletedRunning" ELSE fault
  /\ UNCHANGED <<main, starts, member, notifier, signaled, readerVars,
                 dataVars, histVars>>

\* The slot of QWinEventNotifier::activated: report the exit code if the
\* handle still gives one, then disable m_winProcessEventNotifier, which by
\* now may be nullptr or another notifier than the one that fired.
ProcessExited(g) ==
  /\ main = "idle"
  /\ g \in armed \cap signaled
  /\ signaled' = signaled \ {g}
  /\ IF <<"process", g>> \in open THEN SetErrorCode
     ELSE UNCHANGED <<errorText, signals>>
  /\ fault' = IF notifier = 0 THEN "nullNotifier" ELSE fault
  /\ armed' = armed \ {notifier}
  /\ UNCHANGED <<mainVars, open, readerVars, buffer, delivered, histVars>>

\* readAll() under the lock, everything at once: in the listener's slot of
\* readyRead, or in any thread.
ReadAll ==
  /\ main # "destroyed"
  /\ \/ main = "idle" /\ "readyRead" \in signals
        /\ signals' = signals \ {"readyRead"}
     \/ buffer # <<>> /\ UNCHANGED signals
  /\ delivered' = delivered \o buffer
  /\ buffer' = <<>>
  /\ UNCHANGED <<mainVars, open, armed, signaled, readerVars, errorText,
                 histVars, fault>>

\* errorString() in the slot of errorOccurred: moved out under the lock.
TakeError ==
  /\ main = "idle"
  /\ "errorOccurred" \in signals
  /\ signals' = signals \ {"errorOccurred"}
  /\ errorText' = FALSE
  /\ UNCHANGED <<mainVars, open, armed, signaled, readerVars, buffer,
                 delivered, histVars, fault>>

\* write() and resizeWindow() use handles a failed createProcess() left behind.
UseStaleHandle ==
  /\ main = "idle"
  /\ ~(Released({"outPipe", "console"}) \subseteq open)
  /\ fault' = "staleHandle"
  /\ UNCHANGED <<mainVars, open, armed, signaled, readerVars, dataVars,
                 histVars>>

-----------------------------------------------------------------------------
(* PipeThread::run().                                                      *)

ReaderStep(g, from, to) ==
  /\ reader[g] = from
  /\ reader' = [reader EXCEPT ![g] = to]

\* The loop condition.
ReaderCheck(g) ==
  /\ ReaderStep(g, "check", IF g \in interrupted THEN "done" ELSE "read")
  /\ UNCHANGED <<mainVars, open, armed, signaled, interrupted, hand, pipe,
                 produced, dataVars, histVars, fault>>

\* ReadFile returns a block.
ReadFile(g) ==
  /\ ReaderStep(g, "read", "recheck")
  /\ pipe[g] # <<>>
  /\ <<"inPipe", g>> \in open
  /\ hand' = [hand EXCEPT ![g] = Head(pipe[g])]
  /\ pipe' = [pipe EXCEPT ![g] = Tail(@)]
  /\ UNCHANGED <<mainVars, open, armed, signaled, interrupted, produced,
                 dataVars, histVars, fault>>

\* ReadFile fails: the console has gone and with it the other end of the pipe.
\* setErrorCode() begins, before any test for an interruption.
ReadFileFails(g) ==
  /\ ReaderStep(g, "read", "emitError")
  /\ <<"console", g>> \notin open
  /\ pipe[g] = <<>> \/ <<"inPipe", g>> \notin open
  /\ errorText' = TRUE
  /\ UNCHANGED <<mainVars, open, armed, signaled, interrupted, hand, pipe,
                 produced, buffer, signals, delivered, histVars, fault>>

EmitError(g) ==
  /\ ReaderStep(g, "emitError", "done")
  /\ signals' = signals \cup {"errorOccurred"}
  /\ UNCHANGED <<mainVars, open, armed, signaled, interrupted, hand, pipe,
                 produced, buffer, errorText, delivered, histVars, fault>>

\* The block is thrown away if the thread was interrupted meanwhile.
ReaderRecheck(g) ==
  /\ ReaderStep(g, "recheck", IF g \in interrupted THEN "done" ELSE "append")
  /\ UNCHANGED <<mainVars, open, armed, signaled, interrupted, hand, pipe,
                 produced, dataVars, histVars, fault>>

\* Faulty: readyRead goes out before the block is in the buffer.
AppendBufferSignalsFirst(g) ==
  /\ \/ ReaderStep(g, "append", "emit") /\ UNCHANGED <<buffer, hand>>
        /\ signals' = signals \cup {"readyRead"}
     \/ ReaderStep(g, "emit", "check")
        /\ buffer' = Append(buffer, <<g, hand[g]>>)
        /\ hand' = [hand EXCEPT ![g] = 0]
        /\ UNCHANGED signals
  /\ UNCHANGED <<mainVars, open, armed, signaled, interrupted, pipe, produced,
                 errorText, delivered, histVars, fault>>

\* Faulty: the block takes the place of what is in the buffer.
AppendBufferReplaces(g) ==
  /\ ReaderStep(g, "append", "emit")
  /\ buffer' = <<<<g, hand[g]>>>>
  /\ hand' = [hand EXCEPT ![g] = 0]
  /\ UNCHANGED <<mainVars, open, armed, signaled, interrupted, pipe, produced,
                 errorText, signals, delivered, histVars, fault>>

\* appendBuffer() up to the unlock ...
AppendBuffer(g) ==
  /\ ReaderStep(g, "append", "emit")
  /\ buffer' = Append(buffer, <<g, hand[g]>>)
  /\ hand' = [hand EXCEPT ![g] = 0]
  /\ UNCHANGED <<mainVars, open, armed, signaled, interrupted, pipe, produced,
                 errorText, signals, delivered, histVars, fault>>

\* Faulty: the loop goes back to the append without a new read.
EmitReadyReadRepeats(g) ==
  /\ ReaderStep(g, "emit", "append")
  /\ signals' = signals \cup {"readyRead"}
  /\ UNCHANGED <<mainVars, open, armed, signaled, interrupted, hand, pipe,
                 produced, buffer, errorText, delivered, histVars, fault>>

\* ... and emit readyRead().
EmitReadyRead(g) ==
  /\ ReaderStep(g, "emit", "check")
  /\ signals' = signals \cup {"readyRead"}
  /\ UNCHANGED <<mainVars, open, armed, signaled, interrupted, hand, pipe,
                 produced, buffer, errorText, delivered, histVars, fault>>

-----------------------------------------------------------------------------
(* The console and the process in it.                                      *)

Output(g) ==
  /\ <<"console", g>> \in open
  /\ MapThenSumSet(LAMBDA h : produced[h], Gens) < MaxBlocks
  /\ produced' = [produced EXCEPT ![g] = @ + 1]
  /\ pipe' = [pipe EXCEPT ![g] = Append(@, produced[g] + 1)]
  /\ UNCHANGED <<mainVars, open, armed, signaled, reader, interrupted, hand,
                 dataVars, histVars, fault>>

\* The process ends by itself while its notifier watches it.
ProcessExits(g) ==
  /\ <<"process", g>> \in open
  /\ g \in armed
  /\ g \notin signaled
  /\ signaled' = signaled \cup {g}
  /\ UNCHANGED <<mainVars, open, armed, readerVars, dataVars, histVars, fault>>

-----------------------------------------------------------------------------
Outcomes == {"pipe1", "pipe2", "console", "attributes", "process", "ok"}

MainContinues ==
  \/ StopClose \/ StopJoin \/ Destroy
  \/ \E outcome \in Outcomes : Build(outcome)

ReaderContinues(g) ==
  \/ ReaderCheck(g) \/ ReadFile(g) \/ ReadFileFails(g) \/ EmitError(g)
  \/ ReaderRecheck(g) \/ AppendBuffer(g) \/ EmitReadyRead(g)

\* Nothing is left to do, or behaviour has become undefined.
Halted ==
  /\ \/ fault # "none"
     \/ main = "destroyed" /\ \A g \in Gens : ~Running(g)
  /\ UNCHANGED vars

Next ==
  \/ /\ fault = "none"
     /\ \/ StopInterrupt \/ MainContinues
        \/ DeferredDelete \/ ReadAll \/ TakeError \/ UseStaleHandle
        \/ \E g \in Gens :
             \/ ReaderContinues(g) \/ ProcessExited(g)
             \/ Output(g) \/ ProcessExits(g)
  \/ Halted

\* The threads are scheduled again and again; stop() does not block for ever.
Spec ==
  /\ Init /\ [][Next]_vars
  /\ WF_vars(fault = "none" /\ MainContinues)
  /\ \A g \in Gens : WF_vars(fault = "none" /\ ReaderContinues(g))

-----------------------------------------------------------------------------
Mains == {"idle", "closeToCreate", "closeToDestroy", "waitToCreate",
          "waitToDestroy", "build", "destroy", "destroyed"}
Readers == {"none", "check", "read", "recheck", "append", "emit", "emitError",
            "done"}
Faults == {"none", "doubleRelease", "deletedThread", "deletedRunning",
           "nullNotifier", "staleHandle"}

ControlTypeOK ==
  /\ main \in Mains
  /\ starts \in 0..MaxStarts
  /\ member \in [Kinds -> 0..MaxStarts]
  /\ open \subseteq (Kinds \cup {"consoleEnd"}) \X Gens
  /\ doomed \subseteq {"thread", "notifier"} \X Gens
  /\ notifier \in 0..MaxStarts \cup {NullHandle}
  /\ armed \subseteq Gens
  /\ signaled \subseteq Gens
  /\ reader \in [Gens -> Readers]
  /\ errorText \in BOOLEAN
  /\ signals \subseteq {"readyRead", "errorOccurred"}
  /\ timedOut \in BOOLEAN
  /\ pipesFailed \in BOOLEAN
  /\ lateExit \in BOOLEAN
  /\ fault \in Faults

\* The n-th block of output of console g.
Blocks == Gens \X (Nat \ {0})

TypeOK ==
  /\ ControlTypeOK
  /\ interrupted \subseteq Gens
  /\ hand \in [Gens -> Nat]
  /\ pipe \in [Gens -> Seq(Nat \ {0})]
  /\ produced \in [Gens -> Nat]
  /\ buffer \in Seq(Blocks)
  /\ delivered \in Seq(Blocks)

\* What has come through the readers: returned by readAll(), or waiting for it.
Received == delivered \o buffer

\* The blocks of console g among it.
Numbers(g) == {Received[i][2] : i \in {j \in DOMAIN Received : Received[j][1] = g}}

\* A block is in the hands of the reader of g.
InHand(g) == IF reader[g] \in {"recheck", "append"} THEN 1 ELSE 0

\* Blocks of the same console come in the order in which they were written,
\* none of them twice.
InOrder(blocks) ==
  \A i, j \in DOMAIN blocks :
    i < j /\ blocks[i][1] = blocks[j][1] => blocks[i][2] < blocks[j][2]

\* The blocks of one console come before those of the next.
Apart(blocks) ==
  \A i, j \in DOMAIN blocks : i < j => blocks[i][1] <= blocks[j][1]

\* What readAll() has returned and will return is the output of the console,
\* whole and in order while its reader is not interrupted, and a beginning of
\* it once stop() was called.  The outputs of two consoles mix only when
\* wait(1000) gave up on the older reader.
OutputIntact ==
  /\ InOrder(Received)
  /\ \A g \in Gens : \E n \in 0..produced[g] :
       /\ Numbers(g) = 1..n
       /\ g \notin interrupted => n + InHand(g) + Len(pipe[g]) = produced[g]
  /\ ~timedOut => Apart(Received)

\* Nobody has to poll: output in m_buffer and a text in m_errorString have a
\* signal under way, or a reader that is about to emit it.
NewsIsAnnounced ==
  main # "destroyed" =>
    /\ buffer # <<>> => "readyRead" \in signals
                        \/ \E g \in Gens : reader[g] = "emit"
    /\ errorText => "errorOccurred" \in signals
                    \/ \E g \in Gens : reader[g] = "emitError"

\* stop() never resets its members, yet as long as every console could be
\* created nothing is released twice or used after its release; and when the
\* object is gone everything is released, but for the end of a pipe that a
\* failing second CreatePipe leaves behind.
ReleasedOnce ==
  /\ fault \in {"doubleRelease", "deletedThread", "staleHandle"} => pipesFailed
  /\ main = "destroyed" /\ fault = "none" => open \subseteq {"consoleEnd"} \X Gens

\* A PipeThread is deleted while it runs only when wait(1000) timed out.
\* Without an exit that stop() overtook, the slot of the process notifier
\* always finds its notifier, and a notifier whose process has ended is
\* still enabled.
EventLoopIsSafe ==
  /\ fault = "deletedRunning" => timedOut
  /\ ~lateExit => /\ fault # "nullNotifier"
                  /\ notifier \in signaled => notifier \in armed

\* An interrupted reader ends, whatever it was doing: closing the console
\* wakes it from ReadFile.
StoppedReaderEnds ==
  \A g \in Gens :
    g \in interrupted ~> (reader[g] = "done" \/ fault # "none")

-----------------------------------------------------------------------------
(* The inductive invariant of the proofs.                                  *)

\* stop() has closed the handles of the members and nothing new is built yet.
Closed == main \in {"waitToCreate", "waitToDestroy", "build", "destroy",
                    "destroyed"}

\* Nothing belongs to a generation that createProcess() has not reached.
Fresh ==
  /\ main \in {"closeToCreate", "waitToCreate", "build"} => starts < MaxStarts
  /\ \A k \in Kinds : member[k] <= starts
  /\ \A g \in Gens : g > starts =>
       /\ reader[g] = "none"
       /\ g \notin signaled
       /\ \A k \in {"thread", "notifier"} : <<k, g>> \notin doomed

\* An open handle is the one its member refers to, and stop() closes it; as
\* long as every console could be created the members refer to open handles.
HandlesCurrent ==
  /\ \A k \in Handles, g \in Gens :
       <<k, g>> \in open => ~Closed /\ member[k] = g
  /\ ~pipesFailed /\ ~Closed =>
       \A k \in Handles : member[k] # 0 => <<k, member[k]>> \in open

\* A PipeThread that is not the one of m_pipeThread is doomed, and so is that
\* one once stop() has waited for it; a doomed one runs only after a timeout.
ThreadsDoomed ==
  /\ \A g \in Gens : <<"thread", g>> \in open =>
       /\ main # "destroyed"
       /\ g = member["thread"] \/ <<"thread", g>> \in doomed
  /\ main \in {"build", "destroy"} /\ <<"thread", member["thread"]>> \in open
       => <<"thread", member["thread"]>> \in doomed
  /\ \A g \in Gens : <<"thread", g>> \in doomed /\ Running(g) => timedOut
  /\ /\ ~pipesFailed /\ member["thread"] # 0
     /\ main \notin {"build", "destroy", "destroyed"}
     => <<"thread", member["thread"]>> \in open \ doomed

\* m_winProcessEventNotifier watches the process of the members, and without
\* an overtaken exit nobody else's notifier can fire.
NotifierCurrent ==
  /\ notifier # 0 => ~Closed /\ WatchedHandle = member["process"]
  /\ \A g \in Gens : <<"process", g>> \in open => notifier = g
  /\ <<"notifier", notifier>> \notin doomed
  /\ ~lateExit => \A g \in armed \cap signaled : notifier = g

ReleaseInv ==
  /\ ControlTypeOK
  /\ Fresh
  /\ HandlesCurrent
  /\ ThreadsDoomed
  /\ NotifierCurrent
  /\ ReleasedOnce
  /\ EventLoopIsSafe

-----------------------------------------------------------------------------
(* The inductive invariant of the proof of OutputIntact.                   *)

\* The number of blocks read from the pipe of g.
Read(g) == produced[g] - Len(pipe[g])

\* The pipe holds the last blocks of its console, and the reader the one
\* before them.
PipeIsTheRest ==
  \A g \in Gens :
    /\ Len(pipe[g]) <= produced[g]
    /\ \A i \in 1..Len(pipe[g]) : pipe[g][i] = Read(g) + i
    /\ InHand(g) = 1 => Read(g) > 0 /\ hand[g] = Read(g)

\* Of console g, blocks has exactly the first n.
FirstBlocks(blocks, g, n) ==
  /\ n \in Nat
  /\ \A i \in DOMAIN blocks : blocks[i][1] = g => blocks[i][2] <= n
  /\ \A m \in 1..n : \E i \in DOMAIN blocks : blocks[i] = <<g, m>>

\* Nothing but the block a reader had in its hands when it was stopped is lost.
ReceivedIsRead ==
  /\ InOrder(Received)
  /\ \A g \in Gens :
       \/ FirstBlocks(Received, g, Read(g) - InHand(g))
       \/ /\ g \in interrupted /\ reader[g] = "done"
          /\ FirstBlocks(Received, g, Read(g) - 1)

\* Until a wait has timed out there is one reader, that of m_pipeThread, and
\* it is the last whose blocks have come.
OneReader ==
  ~timedOut =>
    /\ \A g \in Gens : Running(g) =>
         member["thread"] = g /\ main \notin {"build", "destroy", "destroyed"}
    /\ \A i \in DOMAIN Received : Received[i][1] <= member["thread"]
    /\ Apart(Received)

IntactInv == ReleaseInv /\ TypeOK /\ PipeIsTheRest /\ ReceivedIsRead /\ OneReader
=============================================================================
