----------------------------- MODULE CSIParser -----------------------------
(***************************************************************************)
(* Terminal/CSIParser behind its lock: the machine, the queue of completed *)
(* commands, and the calls of processData, which take and release the lock *)
(* for each byte and return an incomplete sequence at the end.  What the   *)
(* caller does with that is its own affair: each call has data of its own, *)
(* whatever they are.  CSIParserLocked adds the lock.                      *)
(***************************************************************************)
EXTENDS CSIMachine

CONSTANT
  MaxBytes   \* bound: the bytes of all calls since the last reset()

ASSUME ParserAssumption == MaxBytes \in Nat

VARIABLES
  parser,     \* m_state, m_buffer, m_params, m_intermediate
  completed,  \* m_completedCommands
  call,         \* "feeding" inside processData, else "idle"
  leftover,   \* what the last call of processData returned
  stream,     \* history: the data of this call, or of the last one, so far
              \*   (since reset(), if that came in between)
  earlier,    \* history: the commands that waited when the call began
  taken,      \* history: the commands taken since it began
  fed         \* bound: the bytes of all calls

vars == <<parser, completed, call, leftover, stream, earlier, taken, fed>>

-----------------------------------------------------------------------------
Init ==
  /\ parser = Cleared
  /\ completed = <<>>
  /\ call = "idle"
  /\ leftover = <<>>
  /\ stream = <<>>
  /\ earlier = <<>>
  /\ taken = <<>>
  /\ fed = 0

\* processData(data) is called.
BeginData ==
  /\ call = "idle"
  /\ fed < MaxBytes
  /\ call' = "feeding"
  /\ leftover' = <<>>
  /\ stream' = <<>>
  /\ earlier' = completed
  /\ taken' = <<>>
  /\ UNCHANGED <<parser, completed, fed>>

\* processByte(b), a turn of the loop.
ProcessByte(b) ==
  /\ call = "feeding"
  /\ fed < MaxBytes
  /\ LET h == Handle(parser, b)
     IN  /\ parser' = h.parser
         /\ completed' = completed \o h.commands
  /\ stream' = Append(stream, b)
  /\ fed' = fed + 1
  /\ UNCHANGED <<call, leftover, earlier, taken>>

\* Faulty: the incomplete sequence is returned, but not forgotten.
EndOfDataKeepsState ==
  /\ call = "feeding"
  /\ call' = "idle"
  /\ leftover' = IF parser.state # "GROUND" THEN parser.buffer ELSE <<>>
  /\ UNCHANGED <<parser, completed, stream, earlier, taken, fed>>

\* The end of processData: an incomplete sequence is returned and forgotten.
EndOfData ==
  /\ call = "feeding"
  /\ call' = "idle"
  /\ IF parser.state # "GROUND" /\ parser.buffer # <<>>
     THEN leftover' = parser.buffer /\ parser' = Cleared
     ELSE leftover' = <<>> /\ UNCHANGED parser
  /\ UNCHANGED <<completed, stream, earlier, taken, fed>>

TakeCommand ==
  /\ completed # <<>>
  /\ taken' = Append(taken, Head(completed))
  /\ completed' = Tail(completed)
  /\ UNCHANGED <<parser, call, leftover, stream, earlier, fed>>

TakeAllCommands ==
  /\ completed # <<>>
  /\ taken' = taken \o completed
  /\ completed' = <<>>
  /\ UNCHANGED <<parser, call, leftover, stream, earlier, fed>>

\* reset(), also while another thread is inside processData: the past is
\* forgotten, the unread commands with it.
Reset ==
  /\ parser' = Cleared
  /\ completed' = <<>>
  /\ leftover' = <<>>
  /\ stream' = <<>>
  /\ earlier' = <<>>
  /\ taken' = <<>>
  /\ fed' = 0
  /\ UNCHANGED call

Next ==
  \/ BeginData
  \/ \E b \in Bytes : ProcessByte(b)
  \/ EndOfData \/ TakeCommand \/ TakeAllCommands \/ Reset

Spec == Init /\ [][Next]_vars

-----------------------------------------------------------------------------
TypeOK ==
  /\ parser \in Fields
  /\ completed \in Seq(Command)
  /\ call \in {"idle", "feeding"}
  /\ leftover \in Seq(Bytes)
  /\ stream \in Seq(Bytes)
  /\ earlier \in Seq(Command)
  /\ taken \in Seq(Command)
  /\ fed \in Nat

\* The commands of this call: they come behind those that waited.
Commands == taken \o completed
Own == SubSeq(Commands, Len(earlier) + 1, Len(Commands))

\* Between two calls of processData the parser holds nothing, and what the
\* last one returned is all that its data left open: the last bytes of the
\* data, which fed from the start complete nothing and lead to the very state
\* in which the data ended.
Whole == Feed(Cleared, stream)
LeftoverIsEnough ==
  call = "idle" =>
    /\ parser = Cleared
    /\ leftover = SubSeq(stream, Len(stream) - Len(leftover) + 1, Len(stream))
    /\ Feed(Cleared, leftover) = Stay(Whole.parser)

\* A control sequence written down as a pattern instead of a machine: the
\* bytes i..j of s, with parameter bytes up to k - 1 and intermediates from k.
\* UpTo is a sequence whose final byte is still to come.
IsParamByte(b) == IsDigit(b) \/ b = Semicolon
UpTo(s, i, n, k) ==
  /\ i + 2 <= k /\ k <= n + 1
  /\ s[i] = ESC /\ s[i + 1] = CSI
  /\ \A x \in (i + 2)..(k - 1) : IsParamByte(s[x])
  /\ \A x \in k..n : IsIntermediate(s[x])
SpanSplit(s, i, j, k) == UpTo(s, i, j - 1, k) /\ IsFinal(s[j])
Span(s, i, j) == \E k \in (i + 2)..j : SpanSplit(s, i, j, k)

\* The decimal number whose last digit is at position y: as many digits as
\* there are up to y, without any limit of size; 0 if there is none.
Decimal(s, y) ==
  LET val[n \in 0..Len(s)] ==
        IF n # 0 /\ IsDigit(s[n]) THEN val[n - 1] * 10 + (s[n] - 48) ELSE 0
  IN  val[y]

\* The parameters of the sequence at i end before a semicolon, and the last one
\* before the intermediates; a leading semicolon opens the first parameter, it
\* does not end an empty one.
ParamEnds(s, i, k) ==
  {y \in (i + 2)..(k - 1) : y = k - 1 \/ s[y + 1] = Semicolon}

\* One int for each of them, in order.
HasParams(params, s, i, k) ==
  \E end \in [DOMAIN params -> ParamEnds(s, i, k)] :
    /\ \A y \in ParamEnds(s, i, k) : \E f \in DOMAIN params : end[f] = y
    /\ \A f \in DOMAIN params : params[f] = Int32(Decimal(s, end[f]))
    /\ \A f, g \in DOMAIN params : f < g => end[f] < end[g]

SpanOf(cmd, s, i, j, k) ==
  /\ SpanSplit(s, i, j, k)
  /\ HasParams(cmd.params, s, i, k)
  /\ cmd.intermediate = SubSeq(s, k, j - 1)
  /\ cmd.final = s[j]

\* The commands, placed in s.
Spans(commands, s, first, last) ==
  \A c \in DOMAIN commands :
    /\ \E k \in (first[c] + 2)..last[c] :
         SpanOf(commands[c], s, first[c], last[c], k)
    /\ \A d \in DOMAIN commands : c < d => last[c] < first[d]

\* Soundness: whatever the data, each command of the call is one of their
\* sequences, with that sequence's parameters; the commands come in stream
\* order behind those that waited, and no two of them share a byte.
CommandsAreInStream ==
  /\ Commands = earlier \o Own
  /\ \E first, last \in [DOMAIN Own -> 1..Len(stream)] :
       Spans(Own, stream, first, last)

\* The ESC at i does not stand inside a sequence that is still unfinished,
\* where the machine takes it for an invalid byte.
Unfinished(s, i, n) ==
  s[i] = ESC /\ (i = n \/ \E k \in (i + 2)..(n + 1) : UpTo(s, i, n, k))
Begins(s, i) ==
  s[i] = ESC /\ \A x \in 1..(i - 1) : ~Unfinished(s, x, i - 1)

\* The sequences of the first n bytes that begin so.
Sequences(s, n) ==
  {i \in 1..n : Begins(s, i) /\ \E j \in i..n : Span(s, i, j)}

\* Completeness, for parameters of digits and semicolons: no such sequence is
\* left out, whatever other bytes, broken sequences or earlier calls come in
\* front of it.
SequencesAreParsed ==
  \E first, last \in [DOMAIN Own -> 1..Len(stream)] :
    /\ Spans(Own, stream, first, last)
    /\ \A i \in Sequences(stream, Len(stream)) :
         \E c \in DOMAIN Own : first[c] = i

\* CSIParser.h documents DEC private modes, CSI ? Ps h and CSI ? Ps l: a
\* private sequence gives a command that is marked as private.
PrivateSpan(s, i, j) ==
  /\ i + 4 <= j
  /\ s[i] = ESC /\ s[i + 1] = CSI /\ s[i + 2] = Question
  /\ \A x \in (i + 3)..(j - 1) : IsDigit(s[x])
  /\ s[j] \in {104, 108}
PrivateModesAreParsed ==
  \A i, j \in DOMAIN stream :
    Begins(stream, i) /\ PrivateSpan(stream, i, j)
      => \E c \in DOMAIN Own : Own[c].isPrivate /\ Own[c].final = stream[j]

-----------------------------------------------------------------------------
(* The inductive invariant of the proofs.                                  *)

\* Inside a call the parser is where its data lead; after the call it is
\* cleared, and the bytes that lead there have been returned.
ParserInv ==
  /\ TypeOK
  /\ Commands = earlier \o Whole.commands
  /\ IF call = "feeding" THEN parser = Whole.parser
     ELSE parser = Cleared /\ leftover = Whole.parser.buffer
=============================================================================
