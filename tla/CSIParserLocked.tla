-------------------------- MODULE CSIParserLocked --------------------------
(***************************************************************************)
(* CSIParser with its lock.  processByte runs the handler under m_mutex    *)
(* and then, with the lock still held, calls hasCommand, which locks       *)
(* m_mutex again.  SpinMutex (Utility/Spin.h) is not recursive: lock()     *)
(* repeats try_lock() until the flag is clear, whoever set it.             *)
(***************************************************************************)
EXTENDS CSIParser

CONSTANTS
  Threads,   \* the threads that feed the parser
  NoThread   \* the value of mutex when the SpinMutex is free

VARIABLES
  mutex,   \* the thread that set the flag of m_mutex
  pc       \* what each thread does next

lockedVars == <<vars, mutex, pc>>

LockedInit ==
  /\ Init
  /\ mutex = NoThread
  /\ pc = [t \in Threads |-> "idle"]

\* processData begins, without the lock.
BeginCall(t) ==
  /\ pc[t] = "idle"
  /\ BeginData
  /\ UNCHANGED <<mutex, pc>>

\* processByte up to its return statement: the ThreadLocker has the lock.
BeginProcessByte(t, b) ==
  /\ pc[t] = "idle"
  /\ mutex = NoThread
  /\ mutex' = t
  /\ ProcessByte(b)
  /\ pc' = [pc EXCEPT ![t] = "hasCommand"]

\* hasCommand() gets the lock, reads the queue and unlocks; then processByte
\* returns and its ThreadLocker unlocks.
HasCommand(t) ==
  /\ pc[t] = "hasCommand"
  /\ mutex = NoThread
  /\ pc' = [pc EXCEPT ![t] = "idle"]
  /\ UNCHANGED <<vars, mutex>>

\* The end of processData, takeCommand, takeAllCommands and reset are one
\* critical section each.
OtherCall(t) ==
  /\ pc[t] = "idle"
  /\ mutex = NoThread
  /\ EndOfData \/ TakeCommand \/ TakeAllCommands \/ Reset
  /\ UNCHANGED <<mutex, pc>>

LockedNext ==
  \E t \in Threads :
    \/ BeginCall(t)
    \/ \E b \in Bytes : BeginProcessByte(t, b)
    \/ HasCommand(t)
    \/ OtherCall(t)

LockedSpec ==
  /\ LockedInit /\ [][LockedNext]_lockedVars
  /\ \A t \in Threads : WF_lockedVars(HasCommand(t))

\* test_csi2026.cpp calls hasCommand after processData has returned, so the
\* calls of processByte in it return.
ProcessByteReturns ==
  \A t \in Threads : (pc[t] = "hasCommand") ~> (pc[t] = "idle")
=============================================================================
