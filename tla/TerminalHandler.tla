--------------------------- MODULE TerminalHandler ---------------------------
(***************************************************************************)
(* Terminal/TerminalHandler: the entry point of the terminal core.  It     *)
(* splits the data of the pty into text and control sequences, obeys the   *)
(* sequences, and sends everything through the gate of synchronized        *)
(* output.                                                                 *)
(*                                                                         *)
(* The handler keeps no lock: one thread calls it, and the signals between *)
(* its parts are direct calls.  A turn of processInput's loop is a step    *)
(* that splits the data, one per command that is processed, and one that   *)
(* ends it.  The parser is CSIParser's machine, between turns cleared.     *)
(* TerminalMode and SynchronizedBuffer appear as what one of their calls   *)
(* does when no other call overlaps it; their own modules have the rest.   *)
(*                                                                         *)
(* processData and hasCommand are taken to return.  As shipped they do not *)
(* once data holds an ESC (CSIParserLocked has the lock and the run that   *)
(* shows it): this module is the handler with that second locking removed. *)
(***************************************************************************)
EXTENDS CSIMachine

CONSTANTS
  Chunks,        \* the arguments of processInput, sequences of bytes
  Header,        \* sizeof(BufferItem), what an item counts besides its data
  DefaultLimit,  \* m_maxBufferSize at first, 1 MB
  Limits,        \* the arguments of setMaxBufferSize
  MaxCalls       \* bound: the number of processInput calls

ASSUME HandlerAssumption ==
  /\ Chunks \subseteq Seq(Bytes)
  /\ <<>> \notin Chunks
  /\ Header \in Nat
  /\ DefaultLimit \in Nat \ {0}
  /\ Limits \subseteq Nat
  /\ MaxCalls \in Nat

VARIABLES
  term,       \* what processCommand and the slots change, see Terminal
  data,       \* the argument of the processInput in progress
  remaining,  \* its local variable
  todo,       \* the commands that are still to be processed in this turn
  pc,         \* "idle", or where processInput is: "loop" or "commands"
  base,       \* history: the number of bytes of earlier calls
  due,        \* history: positions of the text in front of a first ESC
  longest,    \* history: the most bytes in front of a first ESC
  calls       \* history: the number of processInput calls

histVars == <<due, longest, calls>>
vars == <<term, data, remaining, todo, pc, base, histVars>>

Sync      == "SYNCHRONIZED_OUTPUT"
AutoWrap  == "AUTO_WRAP"
NoMode    == "NONE"
Modes     == {Sync, AutoWrap, "SHOW_CURSOR", "ALTERNATE_SCREEN",
              "ALTERNATE_SCREEN_NO_CLEAR", "BRACKETED_PASTE"}

\* An item of the buffer: text knows the positions of its bytes in the input.
TextItem(at)       == [kind |-> "text", at |-> at, row |-> 0, col |-> 0]
CommandItem(k, rc) == [kind |-> k, at |-> <<>>, row |-> rc[1], col |-> rc[2]]

\* The positions of the text in a sequence of items.
TextOf(items) == UNION {ToSet(items[i].at) : i \in DOMAIN items}

Kinds == {"text", "attribute", "cursor", "erase"}
Item  == [kind : Kinds, at : Seq(Nat), row : Int, col : Int]

\* The last five fields are history: text that clearBuffer threw away, text
\* that the buffer did not take, that some item was not taken or thrown away,
\* the least limit, and that a limit was below what the buffer held.
Terminal ==
  [enabled : SUBSET Modes, saved : SUBSET Modes, gate : BOOLEAN,
   silent : BOOLEAN, buffer : Seq(Item), size : Nat, limit : Nat,
   rendered : Seq(Item), signals : Seq(Item), pendingText : Seq(Nat),
   discarded : SUBSET Nat, lost : SUBSET Nat, dropped : BOOLEAN,
   least : Nat, shrunk : BOOLEAN]

-----------------------------------------------------------------------------
(* The parts, seen from the handler: each operator maps the terminal to    *)
(* the terminal after the call.                                            *)

\* SynchronizedBuffer::flush and onSyncDataReady.
FlushBuffer(t) ==
  [t EXCEPT !.rendered = @ \o t.buffer, !.buffer = <<>>, !.size = 0]

\* QByteArray::left
Left(s, n) == SubSeq(s, 1, IF n < Len(s) THEN n ELSE Len(s))

\* appendItem of an item with len bytes of data: a full buffer refuses it, an
\* item larger than the limit is cut to half the limit.
AppendItem(t, item, len) ==
  LET room == IF Header + len > t.limit THEN t.limit \div 2 ELSE len
      kept == [item EXCEPT !.at = Left(@, room)]
  IN  IF t.size >= t.limit
      THEN [t EXCEPT !.lost = @ \cup ToSet(item.at), !.dropped = TRUE]
      ELSE [t EXCEPT
              !.buffer = Append(@, kept),
              !.size = @ + Header + (IF room < len THEN room ELSE len),
              !.lost = @ \cup (ToSet(item.at) \ ToSet(kept.at))]

\* Faulty: the item that makes the buffer full is emitted before it.
WriteItemFirst(t, item, len, late) ==
  IF ~t.gate THEN [t EXCEPT !.rendered = Append(@, item)]
  ELSE IF t.size + Header + len >= t.limit \/ late
       THEN FlushBuffer([t EXCEPT !.rendered = Append(@, item)])
       ELSE AppendItem(t, item, len)

\* SynchronizedBuffer::write; late says that the timeout has passed.  A refused
\* item is not looked at again.
Write(t, item, len, late) ==
  IF ~t.gate THEN [t EXCEPT !.rendered = Append(@, item)]
  ELSE LET u == AppendItem(t, item, len)
       IN  IF t.size < t.limit /\ (u.size >= u.limit \/ late)
           THEN FlushBuffer(u) ELSE u

\* Faulty: the end of synchronized output does not reach the buffer.
OnModeChangedOnlyOn(t, m, on) ==
  IF m # Sync \/ t.gate = on THEN t
  ELSE IF on THEN [t EXCEPT !.gate = TRUE] ELSE t

\* onModeChanged: SynchronizedBuffer::setSynchronizedMode.
OnModeChanged(t, m, on) ==
  IF m # Sync \/ t.gate = on THEN t
  ELSE IF on THEN [t EXCEPT !.gate = TRUE]
       ELSE FlushBuffer([t EXCEPT !.gate = FALSE])

\* TerminalMode::setMode and resetMode with the signals they emit.
ChangeMode(t, m, on) ==
  IF (m \in t.enabled) = on THEN t
  ELSE OnModeChanged(
         [t EXCEPT !.enabled = IF on THEN @ \cup {m} ELSE @ \ {m},
                   !.silent = IF m = Sync THEN FALSE ELSE @],
         m, on)

-----------------------------------------------------------------------------
(* The handler's own methods.                                              *)

\* The answer of write is ignored: text that is not taken is gone.
FlushPendingText(t, late) ==
  IF t.pendingText = <<>> THEN t
  ELSE [Write(t, TextItem(t.pendingText), Len(t.pendingText), late)
          EXCEPT !.pendingText = <<>>]

\* handleSGR, handleCursorMove and handleErase: the item is written and the
\* signal emitted.
Obey(t, item, len, late) ==
  [Write(FlushPendingText(t, late), item, len, late)
     EXCEPT !.signals = Append(@, item)]

\* Faulty: the cursor's mode has a name that TerminalMode does not know.
ModeOfMisnamed(cmd) ==
  LET p == Head(cmd.params)
  IN  CASE p = 25   -> "CURSOR"
        [] p = 2026 /\ cmd.isPrivate -> Sync
        [] OTHER    -> NoMode

\* handleDECSET and handleDECRST; 2026 is looked for in private sequences only.
ModeOf(cmd) ==
  LET p == Head(cmd.params)
  IN  CASE p = 25   -> "SHOW_CURSOR"
        [] p = 1047 -> "ALTERNATE_SCREEN"
        [] p = 1049 -> "ALTERNATE_SCREEN_NO_CLEAR"
        [] p = 2004 -> "BRACKETED_PASTE"
        [] p = 2026 /\ cmd.isPrivate -> Sync
        [] OTHER    -> NoMode

\* The row and column of handleCursorMove: A and F go up, B and E down, C
\* forward, D back, G to a column, H and f to a position.  The item does not
\* say which, and columns and positions are counted from 0: CSI 0 G, unlike
\* CSI 0 H, sends -1.
CursorTarget(cmd) ==
  LET n         == IF cmd.params = <<>> THEN 1 ELSE Head(cmd.params)
      col       == IF Len(cmd.params) > 1 THEN cmd.params[2] ELSE 1
      FromOne(x) == IF x > 0 THEN x - 1 ELSE 0
  IN  CASE cmd.final \in {65, 70}  -> <<Int32(-n), 0>>
        [] cmd.final \in {66, 69}  -> <<n, 0>>
        [] cmd.final = 67          -> <<0, n>>
        [] cmd.final = 68          -> <<0, Int32(-n)>>
        [] cmd.final = 71          -> <<0, Int32(n - 1)>>
        [] cmd.final \in {72, 102} -> <<FromOne(n), FromOne(col)>>

EraseMode(cmd) == IF cmd.params = <<>> THEN 0 ELSE Head(cmd.params)

\* The data of an attribute has its parameters in decimal, each followed by a
\* semicolon: 2 to 12 bytes for an int.  The other commands' items have none.
DataLengths(cmd) ==
  IF cmd.type = "SELECT_GRAPHIC"
  THEN (2 * Len(cmd.params))..(12 * Len(cmd.params)) ELSE {0}

ProcessCommand(t, cmd, len, late) ==
  CASE cmd.type \in {"DECSET", "DECSET_PRIVATE", "DECRST", "DECRST_PRIVATE"} ->
         IF cmd.params = <<>> \/ ModeOf(cmd) = NoMode THEN t
         ELSE ChangeMode(t, ModeOf(cmd),
                         cmd.type \in {"DECSET", "DECSET_PRIVATE"})
    [] cmd.type = "CURSOR" ->
         Obey(t, CommandItem("cursor", CursorTarget(cmd)), len, late)
    [] cmd.type = "ERASE" ->
         Obey(t, CommandItem("erase", <<EraseMode(cmd), 0>>), len, late)
    [] cmd.type = "SELECT_GRAPHIC" ->
         Obey(t, CommandItem("attribute", <<0, 0>>), len, late)
    [] OTHER -> t

\* m_pendingText.append(text), then flushPendingText; the text is the bytes
\* from..to of data.
ShowText(t, from, to, late) ==
  FlushPendingText(
    [t EXCEPT !.pendingText = @ \o [i \in 1..(to - from + 1) |->
                                      base + from + i - 1]], late)

-----------------------------------------------------------------------------
Init ==
  /\ term = [enabled |-> {AutoWrap}, saved |-> {}, gate |-> FALSE,
             silent |-> FALSE, buffer |-> <<>>, size |-> 0,
             limit |-> DefaultLimit, rendered |-> <<>>, signals |-> <<>>,
             pendingText |-> <<>>, discarded |-> {}, lost |-> {},
             dropped |-> FALSE, least |-> DefaultLimit, shrunk |-> FALSE]
  /\ data = <<>>
  /\ remaining = <<>>
  /\ todo = <<>>
  /\ pc = "idle"
  /\ base = 0
  /\ due = {}
  /\ longest = 0
  /\ calls = 0

EscapesIn(s) == {i \in DOMAIN s : s[i] = ESC}
FirstOf(set) == CHOOSE i \in set : \A j \in set : i <= j

\* What the parser, cleared between turns, makes of a piece of the data.
Pieces == UNION {{SubSeq(c, i, j) : i \in 1..Len(c), j \in 0..Len(c)} :
                    c \in Chunks}
Parsed == [piece \in Pieces |-> Feed(Cleared, piece)]

\* The number of bytes in front of the first ESC.
TextLength(chunk) ==
  IF EscapesIn(chunk) = {} THEN Len(chunk) ELSE FirstOf(EscapesIn(chunk)) - 1

\* processInput(chunk) is called.
ProcessInput(chunk) ==
  /\ pc = "idle"
  /\ calls < MaxCalls
  /\ data' = chunk
  /\ remaining' = chunk
  /\ pc' = "loop"
  /\ due' = due \cup (base + 1)..(base + TextLength(chunk))
  /\ longest' = IF TextLength(chunk) > longest THEN TextLength(chunk)
                ELSE longest
  /\ calls' = calls + 1
  /\ UNCHANGED <<term, todo, base>>

\* The call returns.
Return ==
  /\ pc' = "idle"
  /\ data' = <<>>
  /\ remaining' = <<>>
  /\ base' = base + Len(data)

\* A turn of the loop without an ESC: all is text, and the loop ends.
TextTurn(late) ==
  /\ pc = "loop"
  /\ EscapesIn(remaining) = {}
  /\ term' = ShowText(term, Len(data) - Len(remaining) + 1, Len(data), late)
  /\ Return
  /\ UNCHANGED <<todo, histVars>>

\* Faulty: text in front of the ESC is looked for behind its first byte.
TextBeforeOffByOne(offset, esc, late) ==
  IF esc > 2 THEN ShowText(term, offset + 1, offset + esc - 1, late) ELSE term

\* The text in front of the first ESC; offset bytes of data are used up.
TextBefore(offset, esc, late) ==
  IF esc > 1 THEN ShowText(term, offset + 1, offset + esc - 1, late) ELSE term

\* Faulty: processInput goes on with what it gave to the parser.
EscapeTurnKeepsRest(late) ==
  LET esc    == FirstOf(EscapesIn(remaining))
      parsed == Parsed[SubSeq(remaining, esc, Len(remaining))]
  IN
  /\ pc = "loop"
  /\ EscapesIn(remaining) # {}
  /\ term' = TextBefore(Len(data) - Len(remaining), esc, late)
  /\ todo' = parsed.commands \o parsed.commands
  /\ remaining' = SubSeq(remaining, esc, Len(remaining))
  /\ pc' = "commands"
  /\ UNCHANGED <<data, base, histVars>>

\* A turn with an ESC: the text in front of it is shown, processData eats the
\* rest.  Each command it completes is processed by the slot of commandParsed
\* and again when it is taken from the queue.
EscapeTurn(late) ==
  LET esc    == FirstOf(EscapesIn(remaining))
      parsed == Parsed[SubSeq(remaining, esc, Len(remaining))]
  IN
  /\ pc = "loop"
  /\ EscapesIn(remaining) # {}
  /\ term' = TextBefore(Len(data) - Len(remaining), esc, late)
  /\ todo' = parsed.commands \o parsed.commands
  /\ remaining' = parsed.parser.buffer
  /\ pc' = "commands"
  /\ UNCHANGED <<data, base, histVars>>

NextCommand(late) ==
  /\ pc = "commands"
  /\ todo # <<>>
  /\ \E len \in DataLengths(Head(todo)) :
       term' = ProcessCommand(term, Head(todo), len, late)
  /\ todo' = Tail(todo)
  /\ UNCHANGED <<data, remaining, pc, base, histVars>>

\* The loop is left when nothing remains, or all of data.
IsFinished(rest) == rest = <<>> \/ rest = data

EndTurn ==
  /\ pc = "commands"
  /\ todo = <<>>
  /\ \/ IsFinished(remaining) /\ Return
     \/ /\ ~IsFinished(remaining)
        /\ pc' = "loop"
        /\ UNCHANGED <<data, remaining, base>>
  /\ UNCHANGED <<term, todo, histVars>>

\* What processInput does next.
Continue ==
  \/ \E late \in BOOLEAN : TextTurn(late) \/ EscapeTurn(late) \/ NextCommand(late)
  \/ EndTurn

Owner ==
  /\ pc = "idle"
  /\ UNCHANGED <<data, remaining, todo, pc, base, histVars>>

ForceFlush ==
  /\ Owner
  /\ term' = FlushBuffer(FlushPendingText(term, FALSE))

ClearBuffer ==
  /\ Owner
  /\ term' = [term EXCEPT
       !.discarded = @ \cup TextOf(term.buffer),
       !.dropped = @ \/ term.buffer # <<>>,
       !.pendingText = <<>>, !.buffer = <<>>, !.size = 0]

\* syncBuffer()->setMaxBufferSize(n): what the buffer holds stays.
SetMaxBufferSize(n) ==
  /\ Owner
  /\ term' = [term EXCEPT !.limit = n,
                          !.least = IF n < @ THEN n ELSE @,
                          !.shrunk = @ \/ n <= term.size]

\* The owner changes the modes through modeManager().
ManagerChangeMode(on) ==
  /\ Owner
  /\ term' = ChangeMode(term, Sync, on)

ManagerSaveModes ==
  /\ Owner
  /\ term' = [term EXCEPT !.saved = term.enabled]

ManagerRestoreModes ==
  /\ Owner
  /\ term' = [ChangeMode(term, Sync, Sync \in term.saved)
                EXCEPT !.enabled = term.saved]

\* resetAllModes emits no modeChanged.
ManagerResetAllModes ==
  /\ Owner
  /\ term' = [term EXCEPT !.enabled = {AutoWrap},
                          !.silent = @ \/ Sync \in term.enabled]

Next ==
  \/ \E chunk \in Chunks : ProcessInput(chunk)
  \/ Continue
  \/ ForceFlush \/ ClearBuffer
  \/ \E n \in Limits : SetMaxBufferSize(n)
  \/ \E on \in BOOLEAN : ManagerChangeMode(on)
  \/ ManagerSaveModes \/ ManagerRestoreModes \/ ManagerResetAllModes

Spec == Init /\ [][Next]_vars

\* Fairness: the loop of processInput goes on.
FairSpec == Spec /\ WF_vars(Continue)

-----------------------------------------------------------------------------
TypeOK ==
  /\ term \in Terminal
  /\ data \in Seq(Bytes)
  /\ remaining \in Seq(Bytes)
  /\ pc \in {"idle", "loop", "commands"}
  /\ base \in Nat
  /\ due \subseteq Nat
  /\ longest \in Nat
  /\ calls \in 0..MaxCalls

\* Everything that was written and not thrown away.
Out(t) == t.rendered \o t.buffer
Output == Out(term)

Increasing(seq) == \A i, j \in DOMAIN seq : i < j => seq[i] < seq[j]
InOrder(seq) ==
  /\ \A i \in DOMAIN seq : Increasing(seq[i].at)
  /\ \A i, j \in DOMAIN seq : i < j =>
       \A x \in ToSet(seq[i].at), y \in ToSet(seq[j].at) : x < y

\* The gate of the buffer and the mode SYNCHRONIZED_OUTPUT agree, unless
\* resetAllModes changed the mode in silence; an open gate holds nothing back.
GateFollowsMode ==
  /\ term.gate # (Sync \in term.enabled) => term.silent
  /\ ~term.gate => term.buffer = <<>>

\* What was rendered or buffered stays, in its order: no call but clearBuffer
\* takes anything back, and nothing overtakes the buffered items when the
\* buffer is late, flushed or opened.
OutputOnlyGrows ==
  [][ClearBuffer \/ IsPrefix(Output, Output')]_vars

\* Text comes out in the order of the input and no byte comes out twice,
\* although processInput feeds the leftover of the parser again; and when
\* processInput returns, the text in front of the first ESC of its data is
\* rendered or buffered, or clearBuffer threw it away, or the buffer did not
\* take it.  That takes text that with its header exceeds some limit there
\* was, or a limit lowered to what the buffer held: a buffer that the writes
\* fill is flushed before it refuses anything.
PlainTextAppears ==
  /\ InOrder(Output)
  /\ pc = "idle" =>
       due \subseteq TextOf(Output) \cup term.discarded \cup term.lost
  /\ term.lost # {} => term.shrunk \/ longest + Header > term.least


\* When processInput goes round its loop again, what remains is an incomplete
\* sequence at the end of data, and to feed it to the parser once more gives
\* no command and leaves it as it is: no command is obeyed again and no later
\* turn gets any further.
LaterTurnsDoNothing ==
  pc = "loop" /\ remaining # data =>
    /\ remaining # <<>>
    /\ remaining[1] = ESC
    /\ remaining = SubSeq(data, Len(data) - Len(remaining) + 1, Len(data))
    /\ Parsed[remaining].commands = <<>>
    /\ Parsed[remaining].parser.buffer = remaining

-----------------------------------------------------------------------------
(* What a comment says, and the code does not do.                          *)

\* TerminalHandler.cpp, at the check for progress: "avoid an infinite loop".
ProcessInputReturns == (pc # "idle") ~> (pc = "idle")
=============================================================================
