-------------------------- MODULE CSIParserProofs --------------------------
(***************************************************************************)
(* CSIParser for any set of bytes, any width of int, any number of calls    *)
(* and data of any length: type correctness, what processData returns, and  *)
(* that the commands are the control sequences of the data.                 *)
(***************************************************************************)
EXTENDS CSIParser, CSIMachineProofs, FiniteSetTheorems

LEMMA WholeOfNothing ==
  ASSUME stream = <<>>
  PROVE  Whole.parser = Cleared /\ Whole.commands = <<>>
<1>1. Whole = Stay(Cleared)
  BY FeedNothing DEF Whole
<1> QED
  BY <1>1, StayResult, ClearedIsShaped

LEMMA InitParserInv == Init => ParserInv
<1> SUFFICES ASSUME Init PROVE ParserInv
  OBVIOUS
<1>1. /\ parser = Cleared /\ completed = <<>> /\ leftover = <<>>
      /\ stream = <<>> /\ taken = <<>> /\ earlier = <<>> /\ call = "idle"
      /\ fed = 0
  BY DEF Init
<1>2. Whole.parser = Cleared /\ Whole.commands = <<>>
  BY <1>1, WholeOfNothing
<1>3. Cleared \in Fields /\ Cleared.buffer = <<>>
  BY ClearedIsShaped DEF Shaped, Cleared
<1>4. TypeOK
  <2>1. <<>> \in Seq(Command) /\ <<>> \in Seq(Bytes)
    OBVIOUS
  <2> QED
    BY <1>1, <1>3, <2>1 DEF TypeOK
<1>5. Commands = earlier \o Whole.commands
  BY <1>1, <1>2 DEF Commands
<1> QED
  BY <1>1, <1>2, <1>3, <1>4, <1>5 DEF ParserInv

\* What ParserInv says of the data, and what it gives.
LEMMA WholeFacts ==
  ASSUME ParserInv
  PROVE  /\ Result(Whole) /\ Refeeds(Whole.parser)
         /\ Commands \in Seq(Command)
         /\ parser \in Fields /\ Shaped(parser)
<1>1. stream \in Seq(Bytes) /\ parser \in Fields
  BY DEF ParserInv, TypeOK
<1>2. Result(Whole) /\ Refeeds(Whole.parser)
  BY <1>1, FeedResult, FeedRefeeds, ClearedIsShaped DEF Whole
<1>3. Commands \in Seq(Command)
  BY ConcatProperties DEF ParserInv, TypeOK, Commands
<1>4. Shaped(parser)
  BY <1>2, ClearedIsShaped DEF ParserInv, Result
<1> QED
  BY <1>1, <1>2, <1>3, <1>4

LEMMA BeginDataInv ==
  ASSUME ParserInv, BeginData
  PROVE  ParserInv'
<1>1. /\ parser' = parser /\ completed' = completed /\ call' = "feeding"
      /\ leftover' = <<>> /\ stream' = <<>> /\ earlier' = completed
      /\ taken' = <<>> /\ fed' = fed /\ call = "idle"
  BY DEF BeginData
<1>2. completed \in Seq(Command) /\ parser = Cleared
  BY <1>1 DEF ParserInv, TypeOK
<1>3. Whole'.parser = Cleared /\ Whole'.commands = <<>>
  <2>1. (stream = <<>> => Whole.parser = Cleared /\ Whole.commands = <<>>)'
    BY WholeOfNothing, PTL
  <2> QED
    BY <1>1, <2>1
<1>4. Commands' = earlier' \o Whole'.commands
  BY <1>1, <1>2, <1>3, ConcatEmptySeq DEF Commands
<1>5. TypeOK'
  <2>1. <<>> \in Seq(Command) /\ <<>> \in Seq(Bytes)
    OBVIOUS
  <2> QED
    BY <1>1, <2>1 DEF ParserInv, TypeOK
<1> QED
  BY <1>1, <1>2, <1>3, <1>4, <1>5 DEF ParserInv

LEMMA ProcessByteInv ==
  ASSUME ParserInv, NEW b \in Bytes, ProcessByte(b)
  PROVE  ParserInv'
<1> DEFINE h == Handle(parser, b)
<1>1. /\ call = "feeding" /\ call' = call /\ parser' = h.parser
      /\ completed' = completed \o h.commands /\ stream' = Append(stream, b)
      /\ leftover' = leftover /\ taken' = taken /\ earlier' = earlier
      /\ fed' = fed + 1
  BY DEF ProcessByte
<1>2. /\ stream \in Seq(Bytes) /\ completed \in Seq(Command)
      /\ taken \in Seq(Command) /\ earlier \in Seq(Command)
  BY DEF ParserInv, TypeOK
<1>3. Handled(parser, b, h)
  BY WholeFacts, HandleHandles
<1>4. parser = Whole.parser
  BY <1>1 DEF ParserInv
<1>5. Whole' = Step(Whole, b)
  BY <1>1, <1>2, FeedAppend DEF Whole
<1>6. /\ Step(Whole, b).parser = h.parser
      /\ Step(Whole, b).commands = Whole.commands \o h.commands
  BY <1>4 DEF Step
<1> HIDE DEF h
<1>7. h.parser \in Fields /\ h.commands \in Seq(Command)
  BY <1>3 DEF Handled, Shaped
<1>8. TypeOK'
  <2>1. completed' \in Seq(Command)
    BY <1>1, <1>2, <1>7, ConcatProperties
  <2>2. stream' \in Seq(Bytes)
    BY <1>1, <1>2, AppendProperties
  <2>3. /\ call \in {"idle", "feeding"} /\ leftover \in Seq(Bytes)
        /\ fed + 1 \in Nat
    BY DEF ParserInv, TypeOK
  <2> QED
    BY <1>1, <1>2, <1>7, <2>1, <2>2, <2>3 DEF TypeOK
<1>9. Commands' = earlier \o (Whole.commands \o h.commands)
  <2> DEFINE c == h.commands
             w == Whole.commands
  <2>1. Commands' = taken \o (completed \o c)
    BY <1>1 DEF Commands
  <2>2. c \in Seq(Command) /\ w \in Seq(Command)
    BY <1>7, WholeFacts DEF Result
  <2>3. taken \o completed = earlier \o w
    BY DEF ParserInv, Commands
  <2> HIDE DEF c, w
  <2>4. taken \o (completed \o c) = (taken \o completed) \o c
    <3>1. /\ taken \in Seq(Command) /\ completed \in Seq(Command)
          /\ c \in Seq(Command)
      BY <1>2, <2>2
    <3> QED
      BY <3>1, ConcatAssociative
  <2>5. (earlier \o w) \o c = earlier \o (w \o c)
    <3>1. /\ earlier \in Seq(Command) /\ w \in Seq(Command)
          /\ c \in Seq(Command)
      BY <1>2, <2>2
    <3> QED
      BY <3>1, ConcatAssociative
  <2> QED
    BY <2>1, <2>3, <2>4, <2>5 DEF c, w
<1> QED
  BY <1>1, <1>5, <1>6, <1>8, <1>9 DEF ParserInv

LEMMA EndOfDataInv ==
  ASSUME ParserInv, EndOfData
  PROVE  ParserInv'
<1>1. /\ call = "feeding" /\ call' = "idle"
      /\ completed' = completed /\ stream' = stream /\ taken' = taken
      /\ earlier' = earlier /\ fed' = fed
  BY DEF EndOfData
<1>2. parser = Whole.parser /\ Shaped(parser)
  BY <1>1, WholeFacts DEF ParserInv
<1>3. Whole' = Whole /\ Commands' = Commands
  BY <1>1 DEF Whole, Commands
<1>4. parser' = Cleared /\ leftover' = Whole.parser.buffer
  <2>1. CASE parser.state # "GROUND"
    <3>1. parser.buffer # <<>>
      BY <1>2, <2>1 DEF Shaped
    <3> QED
      BY <1>2, <2>1, <3>1 DEF EndOfData
  <2>2. CASE parser.state = "GROUND"
    <3>1. parser = Cleared /\ Cleared.buffer = <<>>
      BY <1>2, <2>2 DEF Shaped, Cleared
    <3> QED
      BY <1>2, <2>2, <3>1 DEF EndOfData
  <2> QED
    BY <2>1, <2>2
<1>5. TypeOK'
  <2>1. parser.buffer \in Seq(Bytes) /\ Cleared \in Fields
    BY <1>2, ClearedIsShaped DEF Shaped, Fields
  <2> QED
    BY <1>1, <1>2, <1>4, <2>1 DEF ParserInv, TypeOK
<1> QED
  BY <1>1, <1>3, <1>4, <1>5 DEF ParserInv

LEMMA TakeInv ==
  ASSUME ParserInv, TakeCommand \/ TakeAllCommands
  PROVE  ParserInv'
<1>1. completed \in Seq(Command) /\ taken \in Seq(Command)
  BY DEF ParserInv, TypeOK
<1>2. /\ parser' = parser /\ leftover' = leftover /\ stream' = stream
      /\ completed # <<>> /\ call' = call /\ earlier' = earlier /\ fed' = fed
  BY DEF TakeCommand, TakeAllCommands
<1>3. /\ completed' \in Seq(Command) /\ taken' \in Seq(Command)
      /\ taken' \o completed' = taken \o completed
  <2>1. CASE TakeCommand
    <3> DEFINE c == Head(completed)
               rest == Tail(completed)
    <3>1. c \in Command /\ rest \in Seq(Command)
      BY <1>1, <1>2, HeadTailProperties
    <3>2. completed = <<c>> \o rest
      BY <1>1, <1>2
    <3>3. taken' = taken \o <<c>> /\ completed' = rest
      BY <1>1, <2>1, <3>1, AppendIsConcat DEF TakeCommand
    <3> HIDE DEF c, rest
    <3>4. <<c>> \in Seq(Command)
      BY <3>1
    <3>5. (taken \o <<c>>) \o rest = taken \o (<<c>> \o rest)
      BY <1>1, <3>1, <3>4, ConcatAssociative
    <3>6. taken \o <<c>> \in Seq(Command)
      BY <1>1, <3>4, ConcatProperties
    <3> QED
      BY <3>1, <3>2, <3>3, <3>5, <3>6
  <2>2. CASE TakeAllCommands
    <3>1. taken' = taken \o completed /\ completed' = <<>>
      BY <2>2 DEF TakeAllCommands
    <3>2. taken \o completed \in Seq(Command)
      BY <1>1, ConcatProperties
    <3> QED
      BY <3>1, <3>2, ConcatEmptySeq
  <2> QED
    BY <2>1, <2>2
<1>4. Whole' = Whole /\ Commands' = Commands
  BY <1>2, <1>3 DEF Whole, Commands
<1> QED
  BY <1>2, <1>3, <1>4 DEF ParserInv, TypeOK
LEMMA NextParserInv == ParserInv /\ [Next]_vars => ParserInv'
<1> SUFFICES ASSUME ParserInv, [Next]_vars PROVE ParserInv'
  OBVIOUS
<1>1. ASSUME NEW b \in Bytes, ProcessByte(b) PROVE ParserInv'
  BY <1>1, ProcessByteInv
<1>2. CASE EndOfData
  BY <1>2, EndOfDataInv
<1>3. CASE BeginData
  BY <1>3, BeginDataInv
<1>4. CASE TakeCommand \/ TakeAllCommands
  BY <1>4, TakeInv
<1>5. CASE Reset
  <2>1. /\ parser' = Cleared /\ completed' = <<>> /\ leftover' = <<>>
        /\ stream' = <<>> /\ earlier' = <<>> /\ taken' = <<>> /\ fed' = 0
        /\ call' = call
    BY <1>5 DEF Reset
  <2>2. Whole'.parser = Cleared /\ Whole'.commands = <<>>
    <3>1. (stream = <<>> => Whole.parser = Cleared /\ Whole.commands = <<>>)'
      BY WholeOfNothing, PTL
    <3> QED
      BY <2>1, <3>1
  <2>3. Cleared \in Fields /\ Cleared.buffer = <<>>
    BY ClearedIsShaped DEF Shaped, Cleared
  <2>4. TypeOK'
    <3>1. <<>> \in Seq(Command) /\ <<>> \in Seq(Bytes)
      OBVIOUS
    <3> QED
      BY <2>1, <2>3, <3>1 DEF ParserInv, TypeOK
  <2>5. Commands' = earlier' \o Whole'.commands
    BY <2>1, <2>2 DEF Commands
  <2> QED
    BY <2>1, <2>2, <2>3, <2>4, <2>5 DEF ParserInv
<1>6. CASE UNCHANGED vars
  <2>1. /\ parser' = parser /\ completed' = completed /\ leftover' = leftover
        /\ stream' = stream /\ taken' = taken /\ call' = call /\ fed' = fed
        /\ earlier' = earlier
    BY <1>6 DEF vars
  <2>2. Whole' = Whole /\ Commands' = Commands /\ TypeOK'
    BY <2>1 DEF Whole, Commands, ParserInv, TypeOK
  <2> QED
    BY <2>1, <2>2 DEF ParserInv
<1> QED
  BY <1>1, <1>2, <1>3, <1>4, <1>5, <1>6 DEF Next

\* The parser's fields, the queue and the returned bytes have their types: a
\* parameter is an int however many digits came, and a digit finds its
\* parameter (m_params.last() of an empty vector would be undefined).
THEOREM TypeCorrect == Spec => []TypeOK
<1>1. ParserInv => TypeOK
  BY DEF ParserInv
<1> QED
  BY <1>1, InitParserInv, NextParserInv, PTL DEF Spec

\* The bytes the parser has kept are the last ones that were fed.
LEMMA BufferIsTail ==
  ASSUME NEW bytes \in Seq(Bytes)
  PROVE  LET r == Feed(Cleared, bytes).parser.buffer
         IN  r = SubSeq(bytes, Len(bytes) - Len(r) + 1, Len(bytes))
<1> DEFINE R(s) == Feed(Cleared, s).parser.buffer
           T == {s \in Seq(Bytes) : \E f \in Seq(Bytes) : s = f \o R(s)}
<1>1. <<>> \in T
  <2>1. R(<<>>) = <<>>
    BY FeedNothing, StayResult, ClearedIsShaped DEF Cleared
  <2>2. <<>> \in Seq(Bytes) /\ <<>> = <<>> \o <<>>
    OBVIOUS
  <2> QED
    BY <2>1, <2>2
<1>2. ASSUME NEW s \in T, NEW b \in Bytes PROVE Append(s, b) \in T
  <2> DEFINE p == Feed(Cleared, s).parser
             h == Handle(p, b)
             u == Append(s, b)
  <2>1. s \in Seq(Bytes) /\ u \in Seq(Bytes)
    BY AppendProperties
  <2>2. Feed(Cleared, u) = Step(Feed(Cleared, s), b)
    BY <2>1, FeedAppend
  <2>3. Shaped(p)
    BY <2>1, FeedResult, ClearedIsShaped DEF Result
  <2>4. Handled(p, b, h)
    BY <2>3, HandleHandles
  <2>5. Feed(Cleared, u).parser = h.parser
    BY <2>2 DEF Step
  <2>6. PICK f \in Seq(Bytes) : s = f \o p.buffer
    OBVIOUS
  <2>7. p.buffer \in Seq(Bytes)
    BY <2>3 DEF Shaped, Fields
  <2> HIDE DEF h, p
  <2>8. CASE h.parser.state = "GROUND"
    <3>1. h.parser.buffer = <<>>
      BY <2>4, <2>8 DEF Handled, Shaped, Cleared
    <3>2. R(u) = <<>>
      BY <2>5, <3>1
    <3> HIDE DEF u, R
    <3>3. u = u \o R(u)
      BY <2>1, <3>2, ConcatEmptySeq
    <3> QED
      BY <2>1, <3>3 DEF u
  <2>9. CASE h.parser.state # "GROUND"
    <3>1. R(u) = Append(p.buffer, b)
      BY <2>4, <2>5, <2>9 DEF Handled
    <3> DEFINE v == p.buffer
    <3>2. v \in Seq(Bytes) /\ s = f \o v /\ R(u) = Append(v, b)
      BY <2>6, <2>7, <3>1
    <3> HIDE DEF v, R
    <3>3. /\ Append(v, b) = v \o <<b>> /\ u = (f \o v) \o <<b>>
          /\ <<b>> \in Seq(Bytes)
      BY <2>1, <3>2, AppendIsConcat
    <3>4. (f \o v) \o <<b>> = f \o (v \o <<b>>)
      BY <3>2, <3>3, ConcatAssociative
    <3>5. u = f \o R(u)
      BY <3>2, <3>3, <3>4
    <3> HIDE DEF u
    <3> QED
      BY <2>1, <3>5 DEF u
  <2> QED
    BY <2>8, <2>9
<1>3. R(bytes) \in Seq(Bytes)
  BY FeedResult, ClearedIsShaped DEF Result, Shaped, Fields
<1> HIDE DEF T
<1>4. T = Seq(Bytes)
  <2>1. T \in SUBSET Seq(Bytes)
    BY DEF T
  <2> QED
    BY <1>1, <1>2, <2>1, SeqInduction
<1>5. PICK f \in Seq(Bytes) : bytes = f \o R(bytes)
  BY <1>4 DEF T
<1> DEFINE r == R(bytes)
<1>6. bytes = f \o r /\ r \in Seq(Bytes)
  BY <1>3, <1>5
<1> HIDE DEF R, r
<1>7. r = SubSeq(bytes, Len(bytes) - Len(r) + 1, Len(bytes))
  <2>1. Len(bytes) = Len(f) + Len(r) /\ Len(f) \in Nat /\ Len(r) \in Nat
    BY <1>6, ConcatProperties
  <2>2. SubSeq(f \o r, Len(f) + 1, Len(f) + Len(r)) = r
    BY <1>6, ConcatProperties, SubSeqProperties
  <2>3. Len(bytes) - Len(r) + 1 = Len(f) + 1
    BY <2>1
  <2> QED
    BY <1>6, <2>1, <2>2, <2>3
<1> QED
  BY <1>7 DEF r, R

\* However long the data of a call are and whatever reset() or the consumers
\* do beside it: afterwards the parser is empty, and the bytes processData
\* returned are the end of the data and lead to the state they ended in.
THEOREM LeftoverLosesNothing == Spec => []LeftoverIsEnough
<1>1. ParserInv => LeftoverIsEnough
  <2> SUFFICES ASSUME ParserInv, call = "idle"
               PROVE  /\ parser = Cleared
                      /\ leftover = SubSeq(stream, Len(stream) - Len(leftover) + 1,
                                           Len(stream))
                      /\ Feed(Cleared, leftover) = Stay(Whole.parser)
    BY DEF LeftoverIsEnough
  <2>1. parser = Cleared /\ leftover = Whole.parser.buffer
    BY DEF ParserInv
  <2>2. Feed(Cleared, leftover) = Stay(Whole.parser)
    BY <2>1, WholeFacts DEF Refeeds
  <2>3. stream \in Seq(Bytes)
    BY DEF ParserInv, TypeOK
  <2> QED
    BY <2>1, <2>2, <2>3, BufferIsTail DEF Whole
<1> QED
  BY <1>1, InitParserInv, NextParserInv, PTL DEF Spec
-----------------------------------------------------------------------------
(* The handlers and the pattern of a control sequence.                     *)

\* The byte is kept, in state s and with these parameters and intermediates.
Kept(h, s, x, y) ==
  /\ h.parser.state = s /\ h.parser.params = x /\ h.parser.intermediate = y
  /\ h.commands = <<>>

\* The byte completes a command.
Completes(p, b, h) ==
  /\ h.parser = Cleared
  /\ \E c : /\ h.commands = <<c>> /\ c.params = p.params
            /\ c.intermediate = p.intermediate /\ c.final = b

LEMMA StayFields ==
  ASSUME NEW q
  PROVE  Stay(q).parser = q /\ Stay(q).commands = <<>>
  BY DEF Stay

LEMMA OpenMoves ==
  ASSUME NEW p, Shaped(p), NEW b, NEW v
  PROVE  Kept(Stay([Collect(p, b, "CSI_PARAM") EXCEPT !.params = Append(@, v)]),
              "CSI_PARAM", Append(p.params, v), p.intermediate)
<1> DEFINE r == Collect(p, b, "CSI_PARAM")
           q == [r EXCEPT !.params = Append(@, v)]
           x == Append(p.params, v)
<1>1. r = [state |-> "CSI_PARAM", buffer |-> Append(p.buffer, b),
           params |-> p.params, intermediate |-> p.intermediate]
  BY CollectFields
<1> HIDE DEF r, x
<1>2. /\ q.state = "CSI_PARAM" /\ q.intermediate = p.intermediate
      /\ q.params = x
  BY <1>1 DEF x
<1> HIDE DEF q
<1>3. Kept(Stay(q), "CSI_PARAM", x, p.intermediate)
  BY <1>2, StayFields DEF Kept
<1> QED
  BY <1>3 DEF q, r, x

LEMMA DigitMoves ==
  ASSUME NEW p, Shaped(p), NEW b
  PROVE  Kept(Stay([Collect(p, b, "CSI_PARAM") EXCEPT
                      !.params[Len(p.params)] = Int32(@ * 10 + (b - 48))]),
              "CSI_PARAM",
              [p.params EXCEPT ![Len(p.params)] = Int32(@ * 10 + (b - 48))],
              p.intermediate)
<1> DEFINE r == Collect(p, b, "CSI_PARAM")
           q == [r EXCEPT !.params[Len(p.params)] = Int32(@ * 10 + (b - 48))]
           x == [p.params EXCEPT ![Len(p.params)] = Int32(@ * 10 + (b - 48))]
<1>1. r = [state |-> "CSI_PARAM", buffer |-> Append(p.buffer, b),
           params |-> p.params, intermediate |-> p.intermediate]
  BY CollectFields
<1> HIDE DEF r, x
<1>2. /\ q.state = "CSI_PARAM" /\ q.intermediate = p.intermediate
      /\ q.params = x
  BY <1>1 DEF x
<1> HIDE DEF q
<1>3. Kept(Stay(q), "CSI_PARAM", x, p.intermediate)
  BY <1>2, StayFields DEF Kept
<1> QED
  BY <1>3 DEF q, r, x

LEMMA IntermediateMoves ==
  ASSUME NEW p, Shaped(p), NEW b
  PROVE  Kept(Intermediate(p, b), "CSI_INTERMEDIATE", p.params,
              Append(p.intermediate, b))
<1> DEFINE r == Collect(p, b, "CSI_INTERMEDIATE")
           q == [r EXCEPT !.intermediate = Append(@, b)]
<1>1. r = [state |-> "CSI_INTERMEDIATE", buffer |-> Append(p.buffer, b),
           params |-> p.params, intermediate |-> p.intermediate]
  BY CollectFields
<1> HIDE DEF r
<1>2. /\ q.state = "CSI_INTERMEDIATE" /\ q.params = p.params
      /\ q.intermediate = Append(p.intermediate, b)
  BY <1>1
<1> HIDE DEF q
<1>3. Kept(Stay(q), "CSI_INTERMEDIATE", p.params, Append(p.intermediate, b))
  BY <1>2, StayFields DEF Kept
<1> QED
  BY <1>3 DEF q, r, Intermediate

LEMMA CompleteMoves ==
  ASSUME NEW p, NEW b
  PROVE  Completes(p, b, CompleteCommand(p, b))
<1> DEFINE private == Question \in Range(p.intermediate)
           type == CommandType(b, private, p.intermediate)
           c == [type |-> type, params |-> p.params,
                 intermediate |-> p.intermediate, final |-> b,
                 isPrivate |-> private]
           h == CompleteCommand(p, b)
<1>1. h = [parser |-> Cleared, commands |-> <<c>>]
  BY DEF CompleteCommand
<1>2. c.params = p.params /\ c.intermediate = p.intermediate /\ c.final = b
  OBVIOUS
<1> HIDE DEF c, h
<1>3. h.parser = Cleared /\ h.commands = <<c>>
  BY <1>1
<1>4. Completes(p, b, h)
  BY <1>2, <1>3 DEF Completes
<1> QED
  BY <1>4 DEF h

\* The bytes of a control sequence in order, and no other byte, move the
\* machine on.
InSequence == {"CSI_ENTRY", "CSI_PARAM", "CSI_INTERMEDIATE"}
NewParams(p, b) ==
  IF p.state = "CSI_PARAM" /\ IsDigit(b)
  THEN [p.params EXCEPT ![Len(p.params)] = Int32(@ * 10 + (b - 48))]
  ELSE Append(p.params, IF IsDigit(b) THEN b - 48 ELSE 0)

Moves(p, b, h) ==
  /\ p.state = "GROUND" =>
       IF b = ESC THEN Kept(h, "ESCAPE", p.params, p.intermediate) ELSE h = Abandon
  /\ p.state = "ESCAPE" =>
       IF b = CSI THEN Kept(h, "CSI_ENTRY", p.params, p.intermediate) ELSE h = Abandon
  /\ p.state \in InSequence =>
       IF p.state # "CSI_INTERMEDIATE" /\ IsParamByte(b)
       THEN Kept(h, "CSI_PARAM", NewParams(p, b), p.intermediate)
       ELSE IF IsIntermediate(b)
       THEN Kept(h, "CSI_INTERMEDIATE", p.params, Append(p.intermediate, b))
       ELSE IF IsFinal(b) THEN Completes(p, b, h)
       ELSE h = Abandon

LEMMA HandleMoves ==
  ASSUME NEW p, Shaped(p), NEW b
  PROVE  Moves(p, b, Handle(p, b))
<1> DEFINE h == Handle(p, b)
<1>1. CASE p.state = "GROUND"
  <2>1. h = HandleGround(p, b)
    BY <1>1 DEF Handle
  <2>2. CASE b = ESC
    <3> DEFINE q == Collect(p, b, "ESCAPE")
    <3>1. q = [state |-> "ESCAPE", buffer |-> Append(p.buffer, b),
               params |-> p.params, intermediate |-> p.intermediate]
      BY CollectFields
    <3>2. h = Stay(q)
      BY <2>1, <2>2 DEF HandleGround
    <3> HIDE DEF q
    <3>3. q.state = "ESCAPE" /\ q.params = p.params /\ q.intermediate = p.intermediate
      BY <3>1
    <3>4. Kept(h, "ESCAPE", p.params, p.intermediate)
      BY <3>2, <3>3, StayFields DEF Kept
    <3> HIDE DEF h
    <3>5. Moves(p, b, h)
      BY <1>1, <2>2, <3>4 DEF Moves, InSequence
    <3> QED
      BY <3>5 DEF h
  <2>3. CASE b # ESC
    <3>1. h = Abandon
      BY <1>1, <2>1, <2>3 DEF HandleGround, Abandon, Shaped
    <3> HIDE DEF h
    <3>2. Moves(p, b, h)
      BY <1>1, <2>3, <3>1 DEF Moves, InSequence
    <3> QED
      BY <3>2 DEF h
  <2> QED
    BY <2>2, <2>3
<1>2. CASE p.state = "ESCAPE"
  <2>1. h = HandleEscape(p, b)
    BY <1>2 DEF Handle
  <2>2. CASE b = CSI
    <3> DEFINE q == Collect(p, b, "CSI_ENTRY")
    <3>1. q = [state |-> "CSI_ENTRY", buffer |-> Append(p.buffer, b),
               params |-> p.params, intermediate |-> p.intermediate]
      BY CollectFields
    <3>2. h = Stay(q)
      BY <2>1, <2>2 DEF HandleEscape
    <3> HIDE DEF q
    <3>3. q.state = "CSI_ENTRY" /\ q.params = p.params /\ q.intermediate = p.intermediate
      BY <3>1
    <3>4. Kept(h, "CSI_ENTRY", p.params, p.intermediate)
      BY <3>2, <3>3, StayFields DEF Kept
    <3> HIDE DEF h
    <3>5. Moves(p, b, h)
      BY <1>2, <2>2, <3>4 DEF Moves, InSequence, h
    <3> QED
      BY <3>5 DEF h
  <2>3. CASE b # CSI
    <3>1. h = Abandon
      BY <2>1, <2>3 DEF HandleEscape
    <3> HIDE DEF h
    <3>2. Moves(p, b, h)
      BY <1>2, <2>3, <3>1 DEF Moves, InSequence, h
    <3> QED
      BY <3>2 DEF h
  <2> QED
    BY <2>2, <2>3
<1>3. CASE p.state \in InSequence
  <2>1. /\ p.state = "CSI_ENTRY" => h = HandleCSIEntry(p, b)
        /\ p.state = "CSI_PARAM" => h = HandleCSIParam(p, b)
        /\ p.state = "CSI_INTERMEDIATE" => h = HandleCSIIntermediate(p, b)
    BY DEF Handle
  <2> HIDE DEF h
  <2>2. CASE IsParamByte(b) /\ p.state # "CSI_INTERMEDIATE"
    <3>1. Kept(h, "CSI_PARAM", NewParams(p, b), p.intermediate)
      <4>1. CASE p.state = "CSI_ENTRY"
        BY <2>1, <2>2, <4>1, ByteClasses, OpenMoves
           DEF HandleCSIEntry, IsParamByte, NewParams
      <4>2. CASE p.state = "CSI_PARAM" /\ IsDigit(b)
        BY <2>1, <4>2, ByteClasses, DigitMoves DEF HandleCSIParam, NewParams
      <4>3. CASE p.state = "CSI_PARAM" /\ b = Semicolon
        BY <2>1, <4>3, ByteClasses, OpenMoves DEF HandleCSIParam, NewParams
      <4> QED
        BY <1>3, <2>2, <4>1, <4>2, <4>3 DEF InSequence, IsParamByte
    <3> QED
      BY <1>3, <2>2, <3>1 DEF Moves, InSequence, h
  <2>3. CASE IsIntermediate(b)
    <3>1. h = Intermediate(p, b)
      BY <1>3, <2>1, <2>3, ByteClasses
         DEF InSequence, HandleCSIEntry, HandleCSIParam, HandleCSIIntermediate
    <3>2. ~IsParamByte(b)
      BY <2>3, ByteClasses DEF IsParamByte
    <3> QED
      BY <1>3, <2>3, <3>1, <3>2, IntermediateMoves DEF Moves, InSequence, h
  <2>4. CASE IsFinal(b)
    <3>1. h = CompleteCommand(p, b)
      BY <1>3, <2>1, <2>4, ByteClasses
         DEF InSequence, HandleCSIEntry, HandleCSIParam, HandleCSIIntermediate
    <3>2. ~IsParamByte(b) /\ ~IsIntermediate(b)
      BY <2>4, ByteClasses DEF IsParamByte
    <3> QED
      BY <1>3, <2>4, <3>1, <3>2, CompleteMoves DEF Moves, InSequence, h
  <2>5. CASE /\ ~(IsParamByte(b) /\ p.state # "CSI_INTERMEDIATE")
             /\ ~IsIntermediate(b) /\ ~IsFinal(b)
    <3>1. h = Abandon
      BY <1>3, <2>1, <2>5 DEF InSequence, IsParamByte, HandleCSIEntry,
                              HandleCSIParam, HandleCSIIntermediate
    <3> QED
      BY <1>3, <2>5, <3>1 DEF Moves, InSequence, h
  <2> QED
    BY <2>2, <2>3, <2>4, <2>5 DEF h
<1>4. p.state \in States
  BY CollectFields
<1> QED
  BY <1>1, <1>2, <1>3, <1>4 DEF States, InSequence

\* The next byte of a stream.
LEMMA NextByte ==
  ASSUME NEW s \in Seq(Bytes), NEW n \in Nat, n + 1 <= Len(s)
  PROVE  /\ SubSeq(s, 1, n) \in Seq(Bytes)
         /\ s[n + 1] \in Bytes
         /\ Feed(Cleared, SubSeq(s, 1, n + 1)) =
              Step(Feed(Cleared, SubSeq(s, 1, n)), s[n + 1])
<1>1. n + 1 \in 1..Len(s)
  OBVIOUS
<1>2. s[n + 1] \in Bytes
  BY <1>1, ElementOfSeq
<1>3. SubSeq(s, 1, n) \in Seq(Bytes)
  <2>1. \A i \in 1..n : s[i] \in Bytes
    BY ElementOfSeq
  <2> QED
    BY <2>1, SubSeqProperties
<1>4. SubSeq(s, 1, n + 1) = SubSeq(s, 1, (n + 1) - 1) \o << s[n + 1] >>
  <2>1. n + 1 \in 1..Len(s) /\ 1 \in 1..Len(s)
    OBVIOUS
  <2> QED
    BY <2>1, SubSeqRecursiveSecond
<1>5. (n + 1) - 1 = n
  OBVIOUS
<1>6. SubSeq(s, 1, n + 1) = Append(SubSeq(s, 1, n), s[n + 1])
  BY <1>2, <1>3, <1>4, <1>5, AppendIsConcat
<1> DEFINE r == SubSeq(s, 1, n)
           b == s[n + 1]
<1>7. Feed(Cleared, Append(r, b)) = Step(Feed(Cleared, r), b)
  <2>1. r \in Seq(Bytes) /\ b \in Bytes
    BY <1>2, <1>3
  <2> HIDE DEF r, b
  <2> QED
    BY <2>1, FeedAppend
<1> QED
  BY <1>2, <1>3, <1>6, <1>7
\* What a byte adds to the result of feeding.
LEMMA StepFields ==
  ASSUME NEW r, Result(r), NEW b \in Bytes
  PROVE  LET h == Handle(r.parser, b)
         IN  /\ Step(r, b).parser = h.parser
             /\ Step(r, b).commands = r.commands \o h.commands
             /\ h.commands \in Seq(Command)
             /\ Len(Step(r, b).commands) = Len(r.commands) + Len(h.commands)
<1> DEFINE h == Handle(r.parser, b)
<1>1. Step(r, b) = [parser |-> h.parser, commands |-> r.commands \o h.commands]
  BY DEF Step
<1>2. Handled(r.parser, b, h)
  BY HandleHandles DEF Result
<1> HIDE DEF h
<1>3. h.commands \in Seq(Command) /\ r.commands \in Seq(Command)
  BY <1>2 DEF Handled, Result
<1>4. Len(r.commands \o h.commands) = Len(r.commands) + Len(h.commands)
  BY <1>3, ConcatProperties
<1>5. /\ Step(r, b).parser = h.parser
      /\ Step(r, b).commands = r.commands \o h.commands
  <2> DEFINE x == h.parser
             y == r.commands \o h.commands
             z == Step(r, b)
  <2>1. z = [parser |-> x, commands |-> y]
    BY <1>1
  <2> HIDE DEF x, y, z
  <2>2. z.parser = x /\ z.commands = y
    BY <2>1
  <2> QED
    BY <2>2 DEF x, y, z
<1> QED
  BY <1>3, <1>4, <1>5 DEF h

Fed(s, n) == Feed(Cleared, SubSeq(s, 1, n))

LEMMA FedStart ==
  ASSUME NEW s
  PROVE  Fed(s, 0).parser = Cleared /\ Fed(s, 0).commands = <<>>
<1>1. SubSeq(s, 1, 0) = <<>>
  BY SubSeqEmpty
<1> QED
  BY <1>1, FeedNothing, StayFields DEF Fed

LEMMA FedStep ==
  ASSUME NEW s \in Seq(Bytes), NEW n \in Nat, n + 1 <= Len(s)
  PROVE  /\ Result(Fed(s, n)) /\ s[n + 1] \in Bytes
         /\ Moves(Fed(s, n).parser, s[n + 1], Handle(Fed(s, n).parser, s[n + 1]))
         /\ Fed(s, n + 1) = Step(Fed(s, n), s[n + 1])
<1>1. /\ SubSeq(s, 1, n) \in Seq(Bytes) /\ s[n + 1] \in Bytes
      /\ Fed(s, n + 1) = Step(Fed(s, n), s[n + 1])
  BY NextByte DEF Fed
<1>2. Result(Fed(s, n))
  BY <1>1, FeedResult, ClearedIsShaped DEF Fed
<1>3. Shaped(Fed(s, n).parser)
  BY <1>2 DEF Result
<1> QED
  BY <1>1, <1>2, <1>3, HandleMoves

LEMMA FedWhole ==
  ASSUME NEW s \in Seq(Bytes)
  PROVE  Fed(s, Len(s)) = Feed(Cleared, s)
  BY SubSeqFull DEF Fed
-----------------------------------------------------------------------------
(* The parameters.  The int of a parameter wraps around at each digit; the *)
(* number it stands for is made first and wraps around once.               *)

\* An int is a number up to multiples of its range.
LEMMA Division ==
  ASSUME NEW a \in Int, NEW m \in Nat, m > 0
  PROVE  /\ a = m * (a \div m) + (a % m)
         /\ a \div m \in Int /\ a % m \in 0..(m - 1)
  OBVIOUS

\* The remainder is determined by its range.
LEMMA Remainder ==
  ASSUME NEW m \in Nat, m > 0, NEW q \in Int, NEW r \in 0..(m - 1)
  PROVE  (m * q + r) % m = r
<1> DEFINE a == m * q + r
           p == a \div m
           t == a % m
<1>1. a \in Int /\ a = m * q + r
  OBVIOUS
<1> HIDE DEF a
<1>2. a = m * p + t /\ p \in Int /\ t \in 0..(m - 1)
  BY <1>1, Division
<1> HIDE DEF p, t
<1>3. m * (q - p) = t - r
  <2>1. m * q + r = m * p + t
    BY <1>1, <1>2
  <2>2. m * (q - p) = m * q - m * p
    BY <1>2
  <2>3. m * q \in Int /\ m * p \in Int
    BY <1>2
  <2> QED
    BY <1>2, <2>1, <2>2, <2>3
<1>4. ASSUME NEW d \in Int, d >= 1 PROVE m * d >= m
  BY <1>4
<1>5. ~(q - p >= 1)
  BY <1>2, <1>3, <1>4
<1>6. ~(p - q >= 1)
  <2>1. m * (p - q) = r - t
    <3>1. m * (p - q) = 0 - m * (q - p)
      BY <1>2
    <3> QED
      BY <1>2, <1>3, <3>1
  <2> QED
    BY <1>2, <1>4, <2>1
<1>7. p = q
  BY <1>2, <1>5, <1>6
<1>8. t = r
  BY <1>1, <1>2, <1>7
<1> QED
  BY <1>8 DEF t, a

\* Wrapping around on the way changes nothing.
LEMMA Int32Again ==
  ASSUME NEW a \in Int, NEW d \in Int
  PROVE  Int32(Int32(a) * 10 + d) = Int32(a * 10 + d)
<1> DEFINE h == IntHalf
           m == 2 * IntHalf
           q == (a + h) \div m
           x == a * 10 + d + h
           p == x \div m
           r == x % m
<1>1. h \in Nat /\ m \in Nat /\ m > 0 /\ x \in Int /\ a + h \in Int
  BY MachineAssumption
<1> HIDE DEF h, m
<1>2. a + h = m * q + ((a + h) % m) /\ q \in Int
  BY <1>1, Division
<1>3. Int32(a) = a - m * q
  <2>1. Int32(a) = ((a + h) % m) - h
    BY DEF Int32, h, m
  <2>2. (a + h) % m \in Int
    BY <1>1, Division
  <2> HIDE DEF q
  <2>3. m * q \in Int
    BY <1>1, <1>2
  <2> QED
    BY <1>1, <1>2, <2>1, <2>2, <2>3
<1> HIDE DEF q, x
<1>4. x = m * p + r /\ p \in Int /\ r \in 0..(m - 1)
  BY <1>1, Division
<1> HIDE DEF p, r
<1>5. (Int32(a) * 10 + d) + h = m * (p - 10 * q) + r
  <2> DEFINE u == m * q
             v == m * p
  <2>1. u \in Int /\ v \in Int /\ r \in Int
    BY <1>1, <1>2, <1>4
  <2>2. m * (p - 10 * q) = v - 10 * u
    BY <1>1, <1>2, <1>4
  <2>3. Int32(a) = a - u /\ a * 10 + d + h = v + r
    BY <1>3, <1>4 DEF x
  <2> HIDE DEF u, v
  <2>4. (Int32(a) * 10 + d) + h = (v - 10 * u) + r
    BY <1>1, <2>1, <2>3
  <2> QED
    BY <2>2, <2>4
<1>6. ((Int32(a) * 10 + d) + h) % m = r
  <2>1. p - 10 * q \in Int
    BY <1>2, <1>4
  <2>2. (m * (p - 10 * q) + r) % m = r
    BY <1>1, <1>4, <2>1, Remainder
  <2> QED
    BY <1>5, <2>2
<1>7. ((a * 10 + d) + h) % m = r
  BY DEF r, x
<1> QED
  BY <1>6, <1>7 DEF Int32, h, m

LEMMA Int32Small ==
  ASSUME NEW d \in 0..9
  PROVE  Int32(d) = d
<1> DEFINE h == IntHalf
           m == 2 * IntHalf
<1>1. m \in Nat /\ m > 0 /\ d + h \in 0..(m - 1) /\ m * 0 + (d + h) = d + h
      /\ d + h \in Int
  BY MachineAssumption
<1>2. (d + h) % m = d + h
  BY <1>1, Remainder
<1> QED
  BY <1>1, <1>2, MachineAssumption DEF Int32

\* Decimal as a table.
Digits(f, s) ==
  f = [n \in 0..Len(s) |->
         IF n # 0 /\ IsDigit(s[n]) THEN f[n - 1] * 10 + (s[n] - 48) ELSE 0]

LEMMA DigitsExist ==
  ASSUME NEW s, Len(s) \in Nat
  PROVE  \E f : Digits(f, s)
<1> DEFINE E(g, n) == IF n # 0 /\ IsDigit(s[n]) THEN g[n - 1] * 10 + (s[n] - 48)
                      ELSE 0
           S == {m \in Nat : \E f : f = [n \in 0..m |-> E(f, n)]}
<1>1. 0 \in S
  <2> DEFINE f == [n \in 0..0 |-> 0]
  <2>1. f = [n \in 0..0 |-> E(f, n)]
    OBVIOUS
  <2> HIDE DEF f
  <2> QED
    BY <2>1
<1>2. ASSUME NEW m \in S PROVE m + 1 \in S
  <2>1. PICK f : f = [n \in 0..m |-> E(f, n)]
    OBVIOUS
  <2> DEFINE g == [n \in 0..(m + 1) |-> IF n = m + 1 THEN E(f, m + 1) ELSE f[n]]
  <2>2. m \in Nat
    OBVIOUS
  <2>3. ASSUME NEW n \in 0..(m + 1) PROVE g[n] = E(g, n)
    <3>1. CASE n = m + 1
      <4>1. g[n] = E(f, m + 1) /\ n - 1 \in 0..(m + 1) /\ n - 1 # m + 1
        BY <2>2, <3>1
      <4>2. g[n - 1] = f[n - 1]
        BY <4>1
      <4> QED
        BY <3>1, <4>1, <4>2
    <3>2. CASE n # m + 1
      <4>1. n \in 0..m /\ g[n] = f[n] /\ (n # 0 => g[n - 1] = f[n - 1])
        BY <2>2, <3>2
      <4>2. f[n] = E(f, n)
        BY <2>1, <4>1
      <4> QED
        BY <4>1, <4>2
    <3> QED
      BY <3>1, <3>2
  <2>4. g = [n \in 0..(m + 1) |-> E(g, n)]
    <3> HIDE DEF E
    <3> QED
      BY <2>3
  <2> HIDE DEF g, E
  <2> QED
    BY <2>2, <2>4
<1> HIDE DEF S
<1>3. S = Nat
  <2>1. S \in SUBSET Nat
    BY DEF S
  <2> QED
    BY <1>1, <1>2, <2>1, SetInduction
<1> QED
  BY <1>3 DEF S, Digits

LEMMA DecimalStep ==
  ASSUME NEW s, Len(s) \in Nat, NEW n \in 0..Len(s)
  PROVE  Decimal(s, n) = IF n # 0 /\ IsDigit(s[n])
                         THEN Decimal(s, n - 1) * 10 + (s[n] - 48) ELSE 0
<1> DEFINE g == CHOOSE f : Digits(f, s)
<1>1. Digits(g, s)
  BY DigitsExist
<1>2. \A y : Decimal(s, y) = g[y]
  BY DEF Decimal, Digits
<1> HIDE DEF g
<1>3. g[n] = IF n # 0 /\ IsDigit(s[n]) THEN g[n - 1] * 10 + (s[n] - 48) ELSE 0
  BY <1>1 DEF Digits
<1> QED
  BY <1>2, <1>3

LEMMA DecimalIsNumber ==
  ASSUME NEW s, Len(s) \in Nat, NEW n \in 0..Len(s)
  PROVE  Decimal(s, n) \in Int
<1> DEFINE S == {m \in Nat : m <= Len(s) => Decimal(s, m) \in Int}
<1>1. 0 \in S
  BY DecimalStep
<1>2. ASSUME NEW m \in S PROVE m + 1 \in S
  <2> SUFFICES ASSUME m + 1 <= Len(s) PROVE Decimal(s, m + 1) \in Int
    OBVIOUS
  <2> DEFINE k == m + 1
  <2>1. k \in 0..Len(s) /\ k - 1 = m /\ Decimal(s, m) \in Int
    OBVIOUS
  <2> HIDE DEF k
  <2>2. Decimal(s, k) = IF k # 0 /\ IsDigit(s[k])
                        THEN Decimal(s, m) * 10 + (s[k] - 48) ELSE 0
    BY <2>1, DecimalStep
  <2>3. CASE k # 0 /\ IsDigit(s[k])
    <3>1. s[k] - 48 \in Int
      BY <2>3, DigitType
    <3> QED
      BY <2>1, <2>2, <2>3, <3>1 DEF k
  <2>4. CASE ~(k # 0 /\ IsDigit(s[k]))
    BY <2>2, <2>4 DEF k
  <2> QED
    BY <2>3, <2>4
<1> HIDE DEF S
<1>3. S = Nat
  <2>1. S \in SUBSET Nat
    BY DEF S
  <2> QED
    BY <1>1, <1>2, <2>1, SetInduction
<1> QED
  BY <1>3 DEF S

LEMMA NoParams ==
  ASSUME NEW s, NEW i \in Nat
  PROVE  HasParams(<<>>, s, i, i + 2)
<1>1. ParamEnds(s, i, i + 2) = {} /\ DOMAIN <<>> = {}
  BY DEF ParamEnds
<1> DEFINE end == [f \in DOMAIN <<>> |-> 0]
<1>2. end \in [DOMAIN <<>> -> ParamEnds(s, i, i + 2)]
  BY <1>1
<1> QED
  BY <1>1, <1>2 DEF HasParams

\* A byte that opens a parameter: the first one of all, or a semicolon.
LEMMA ParamOpens ==
  ASSUME NEW s, NEW i \in Nat, NEW n \in Nat, i + 1 <= n,
         n = i + 1 \/ s[n + 1] = Semicolon,
         NEW x \in Seq(Ints), HasParams(x, s, i, n + 1),
         NEW v \in Ints, v = Int32(Decimal(s, n + 1))
  PROVE  HasParams(Append(x, v), s, i, n + 2)
<1> DEFINE A == ParamEnds(s, i, n + 1)
           B == ParamEnds(s, i, n + 2)
           m == Len(x)
           z == Append(x, v)
<1>1. B = A \cup {n + 1} /\ \A y \in A : y \in Nat /\ y < n + 1
  BY DEF ParamEnds
<1>2. m \in Nat /\ DOMAIN x = 1..m
  OBVIOUS
<1>3. /\ DOMAIN z = 1..(m + 1) /\ z[m + 1] = v
      /\ \A f \in 1..m : z[f] = x[f]
  BY AppendProperties
<1>4. PICK end \in [1..m -> A] :
        /\ \A y \in A : \E f \in 1..m : end[f] = y
        /\ \A f \in 1..m : x[f] = Int32(Decimal(s, end[f]))
        /\ \A f, g \in 1..m : f < g => end[f] < end[g]
  BY <1>2 DEF HasParams
<1> HIDE DEF A, B, z, m
<1> DEFINE e == [f \in 1..(m + 1) |-> IF f = m + 1 THEN n + 1 ELSE end[f]]
<1>5. /\ \A f \in 1..m : f \in 1..(m + 1) /\ f # m + 1
      /\ \A f \in 1..(m + 1) : f # m + 1 => f \in 1..m
      /\ m + 1 \in 1..(m + 1)
  BY <1>2
<1>6. e[m + 1] = n + 1 /\ \A f \in 1..m : e[f] = end[f]
  BY <1>5
<1>7. e \in [1..(m + 1) -> B]
  BY <1>1, <1>4, <1>5
<1> HIDE DEF e
<1>8. \A y \in B : \E f \in 1..(m + 1) : e[f] = y
  BY <1>1, <1>4, <1>5, <1>6
<1>9. \A f \in 1..(m + 1) : z[f] = Int32(Decimal(s, e[f]))
  <2> TAKE f \in 1..(m + 1)
  <2>1. CASE f = m + 1
    BY <1>3, <1>6, <2>1
  <2>2. CASE f # m + 1
    BY <1>3, <1>4, <1>5, <1>6, <2>2
  <2> QED
    BY <2>1, <2>2
<1>10. ASSUME NEW f \in 1..(m + 1), NEW g \in 1..(m + 1), f < g
       PROVE  e[f] < e[g]
  <2>1. f \in 1..m
    BY <1>2, <1>10
  <2>2. CASE g = m + 1
    BY <1>1, <1>4, <1>6, <2>1, <2>2
  <2>3. CASE g # m + 1
    BY <1>4, <1>5, <1>6, <1>10, <2>1, <2>3
  <2> QED
    BY <2>2, <2>3
<1>11. \A f, g \in 1..(m + 1) : f < g => e[f] < e[g]
  BY <1>10
<1>12. DOMAIN z = 1..(m + 1)
  BY <1>3 DEF m, z
<1>13. \E o \in [1..(m + 1) -> B] :
         /\ \A y \in B : \E f \in 1..(m + 1) : o[f] = y
         /\ \A f \in 1..(m + 1) : z[f] = Int32(Decimal(s, o[f]))
         /\ \A f, g \in 1..(m + 1) : f < g => o[f] < o[g]
  BY <1>7, <1>8, <1>9, <1>11
<1>14. HasParams(z, s, i, n + 2)
  <2> DEFINE D == 1..(m + 1)
  <2>1. DOMAIN z = D
    BY <1>12
  <2>2. \E o \in [D -> B] :
          /\ \A y \in B : \E f \in D : o[f] = y
          /\ \A f \in D : z[f] = Int32(Decimal(s, o[f]))
          /\ \A f, g \in D : f < g => o[f] < o[g]
    BY <1>13
  <2> HIDE DEF D
  <2> QED
    BY <2>1, <2>2 DEF HasParams, B
<1> QED
  BY <1>14 DEF z

\* A digit in a parameter: it ends one byte later.
LEMMA ParamGrows ==
  ASSUME NEW s, Len(s) \in Nat, NEW i \in Nat, NEW n \in Nat, i + 2 <= n,
         n + 1 <= Len(s), IsDigit(s[n + 1]),
         NEW x \in Seq(Ints), HasParams(x, s, i, n + 1)
  PROVE  HasParams([x EXCEPT ![Len(x)] = Int32(@ * 10 + (s[n + 1] - 48))],
                   s, i, n + 2)
<1> DEFINE A == ParamEnds(s, i, n + 1)
           B == ParamEnds(s, i, n + 2)
           m == Len(x)
           v == Int32(x[m] * 10 + (s[n + 1] - 48))
           z == [x EXCEPT ![m] = v]
<1>1. B = (A \ {n}) \cup {n + 1}
  <2>1. s[n + 1] # Semicolon
    BY ByteClasses
  <2>2. \A y \in (i + 2)..((n + 2) - 1) :
          (y = (n + 2) - 1 \/ s[y + 1] = Semicolon) =>
            y = n + 1 \/ (y \in A /\ y # n)
    BY <2>1 DEF ParamEnds
  <2>3. \A y \in A : y # n => y \in B
    BY DEF ParamEnds
  <2>4. n + 1 \in B /\ n \notin B
    BY <2>1 DEF ParamEnds
  <2>5. \A y \in B : y = n + 1 \/ (y \in A /\ y # n)
    BY <2>2 DEF ParamEnds
  <2> HIDE DEF A, B
  <2> QED
    BY <2>3, <2>4, <2>5
<1>2. n \in A /\ \A y \in A : y \in Nat /\ y <= n
  BY DEF ParamEnds
<1>3. m \in Nat /\ DOMAIN x = 1..m
  OBVIOUS
<1>4. PICK end \in [1..m -> A] :
        /\ \A y \in A : \E f \in 1..m : end[f] = y
        /\ \A f \in 1..m : x[f] = Int32(Decimal(s, end[f]))
        /\ \A f, g \in 1..m : f < g => end[f] < end[g]
  BY <1>3 DEF HasParams
<1> HIDE DEF A, B
<1>5. m \in 1..m /\ end[m] = n
  <2> HIDE DEF m
  <2>1. PICK f \in 1..m : end[f] = n
    BY <1>2, <1>4
  <2>2. m \in 1..m
    BY <1>3
  <2>3. CASE f = m
    BY <2>1, <2>2, <2>3
  <2>4. CASE f # m
    <3>1. f < m
      BY <1>3, <2>4
    <3>2. end[f] < end[m] /\ end[m] <= n /\ end[m] \in Nat
      BY <1>2, <1>4, <2>2, <3>1
    <3> QED
      BY <2>1, <3>2
  <2> QED
    BY <2>3, <2>4
<1>6. v = Int32(Decimal(s, n + 1))
  <2> DEFINE d == s[n + 1] - 48
             k == n + 1
  <2>1. d \in Int
    BY DigitType
  <2>2. k \in 0..Len(s) /\ k # 0 /\ k - 1 = n /\ IsDigit(s[k]) /\ n \in 0..Len(s)
    OBVIOUS
  <2>3. s[k] - 48 = d
    OBVIOUS
  <2>4. x[m] = Int32(Decimal(s, n))
    BY <1>4, <1>5
  <2> HIDE DEF k, d, m
  <2>5. Decimal(s, k) = Decimal(s, n) * 10 + d
    BY <2>2, <2>3, DecimalStep
  <2>6. Decimal(s, n) \in Int
    BY <2>2, DecimalIsNumber
  <2>7. Int32(Int32(Decimal(s, n)) * 10 + d) = Int32(Decimal(s, n) * 10 + d)
    BY <2>1, <2>6, Int32Again
  <2> QED
    BY <2>4, <2>5, <2>7 DEF k, d
<1>7. /\ DOMAIN z = 1..m /\ z[m] = v
      /\ \A f \in 1..m : f # m => z[f] = x[f]
  <2> HIDE DEF v
  <2> QED
    BY <1>3, <1>5
<1> HIDE DEF z, m, v
<1> DEFINE e == [end EXCEPT ![m] = n + 1]
<1>8. e[m] = n + 1 /\ \A f \in 1..m : f # m => e[f] = end[f]
  BY <1>4, <1>5
<1>9. \A f \in 1..m : f # m => end[f] \in A \ {n} /\ end[f] < n
  <2> TAKE f \in 1..m
  <2> HAVE f # m
  <2>1. f < m
    BY <1>3
  <2> QED
    BY <1>2, <1>4, <1>5, <2>1
<1>10. e \in [1..m -> B]
  <2>1. DOMAIN e = 1..m /\ e = [f \in 1..m |-> e[f]]
    BY <1>4
  <2> HIDE DEF e
  <2>2. \A f \in 1..m : e[f] \in B
    BY <1>1, <1>8, <1>9
  <2> QED
    BY <2>1, <2>2
<1> HIDE DEF e
<1>11. \A y \in B : \E f \in 1..m : e[f] = y
  <2> TAKE y \in B
  <2>1. CASE y = n + 1
    BY <1>5, <1>8, <2>1
  <2>2. CASE y # n + 1
    <3>1. y \in A /\ y # n
      BY <1>1, <2>2
    <3>2. PICK f \in 1..m : end[f] = y
      BY <1>4, <3>1
    <3> QED
      BY <1>5, <1>8, <3>1, <3>2
  <2> QED
    BY <2>1, <2>2
<1>12. \A f \in 1..m : z[f] = Int32(Decimal(s, e[f]))
  <2> TAKE f \in 1..m
  <2>1. CASE f = m
    BY <1>6, <1>7, <1>8, <2>1
  <2>2. CASE f # m
    BY <1>4, <1>7, <1>8, <2>2
  <2> QED
    BY <2>1, <2>2
<1>13. ASSUME NEW f \in 1..m, NEW g \in 1..m, f < g
       PROVE  e[f] < e[g]
  <2>1. f # m
    BY <1>3, <1>13
  <2>2. CASE g = m
    <3>1. e[f] = end[f] /\ e[g] = n + 1
      BY <1>8, <2>1, <2>2
    <3>2. end[f] < n /\ end[f] \in Nat
      BY <1>2, <1>9, <2>1
    <3>3. \A y \in Nat : y < n => y < n + 1
      OBVIOUS
    <3> QED
      BY <3>1, <3>2, <3>3
  <2>3. CASE g # m
    BY <1>4, <1>8, <1>13, <2>1, <2>3
  <2> QED
    BY <2>2, <2>3
<1>14. \A f, g \in 1..m : f < g => e[f] < e[g]
  BY <1>13
<1>15. DOMAIN z = 1..m
  BY <1>7
<1>16. \E o \in [1..m -> B] :
         /\ \A y \in B : \E f \in 1..m : o[f] = y
         /\ \A f \in 1..m : z[f] = Int32(Decimal(s, o[f]))
         /\ \A f, g \in 1..m : f < g => o[f] < o[g]
  BY <1>10, <1>11, <1>12, <1>14
<1>17. HasParams(z, s, i, n + 2)
  BY <1>15, <1>16 DEF HasParams, B
<1> QED
  BY <1>17 DEF z, v, m

\* A digit or a semicolon, in either state.
LEMMA ParamsStep ==
  ASSUME NEW s \in Seq(Bytes), NEW i \in Nat, NEW n \in Nat, i + 1 <= n,
         n + 1 <= Len(s), s[i + 1] = CSI, IsParamByte(s[n + 1]),
         NEW p, p.params \in Seq(Ints), HasParams(p.params, s, i, n + 1),
         \/ p.state = "CSI_ENTRY" /\ n = i + 1
         \/ p.state = "CSI_PARAM" /\ i + 2 <= n
  PROVE  HasParams(NewParams(p, s[n + 1]), s, i, n + 2)
<1> DEFINE b == s[n + 1]
<1>1. Len(s) \in Nat /\ n + 1 \in 0..Len(s) /\ n + 1 # 0 /\ n \in 0..Len(s)
      /\ (n + 1) - 1 = n
  OBVIOUS
<1>2. Decimal(s, n + 1) = IF IsDigit(b) THEN Decimal(s, n) * 10 + (b - 48) ELSE 0
  BY <1>1, DecimalStep
<1>3. CASE p.state = "CSI_PARAM" /\ IsDigit(b)
  <2>1. HasParams([p.params EXCEPT ![Len(p.params)] = Int32(@ * 10 + (b - 48))],
                  s, i, n + 2)
    BY <1>1, <1>3, ParamGrows
  <2> QED
    BY <1>3, <2>1 DEF NewParams
<1>4. CASE ~(p.state = "CSI_PARAM" /\ IsDigit(b))
  <2> DEFINE v == IF IsDigit(b) THEN b - 48 ELSE 0
  <2>1. v \in Ints /\ v \in 0..9
    BY DigitType, ZeroType
  <2>2. Decimal(s, n + 1) = v
    <3>1. CASE IsDigit(b)
      <4>1. n = i + 1 /\ s[n] = CSI
        BY <1>4, <3>1
      <4>2. ~IsDigit(s[n])
        BY <4>1 DEF IsDigit, CSI
      <4>3. Decimal(s, n) = 0
        BY <1>1, <4>2, DecimalStep
      <4>4. b - 48 \in 0..9
        BY <3>1, DigitType
      <4> QED
        BY <1>2, <3>1, <4>3, <4>4
    <3>2. CASE ~IsDigit(b)
      BY <1>2, <3>2
    <3> QED
      BY <3>1, <3>2
  <2>3. n = i + 1 \/ s[n + 1] = Semicolon
    BY <1>4 DEF IsParamByte
  <2>4. NewParams(p, b) = Append(p.params, v)
    BY <1>4 DEF NewParams
  <2> HIDE DEF v, b
  <2>5. v = Int32(Decimal(s, n + 1))
    BY <2>1, <2>2, Int32Small
  <2>6. HasParams(Append(p.params, v), s, i, n + 2)
    BY <2>1, <2>3, <2>5, ParamOpens
  <2> QED
    BY <2>4, <2>6 DEF b
<1> QED
  BY <1>3, <1>4
-----------------------------------------------------------------------------
(* Soundness and completeness, prefix by prefix.                           *)

\* The machine is inside a sequence that begins at i and reaches to n.
Inside(s, i, n, p) ==
  /\ i <= n /\ s[i] = ESC
  /\ p.state = "ESCAPE" => n = i /\ p.params = <<>> /\ p.intermediate = <<>>
  /\ p.state \in InSequence =>
       /\ i + 1 <= n /\ s[i + 1] = CSI
       /\ p.state = "CSI_ENTRY" => n = i + 1
       /\ p.state = "CSI_PARAM" => i + 2 <= n
       /\ \E k \in (i + 2)..(n + 1) :
            /\ \A x \in (i + 2)..(k - 1) : IsParamByte(s[x])
            /\ \A x \in k..n : IsIntermediate(s[x])
            /\ HasParams(p.params, s, i, k)
            /\ p.intermediate = SubSeq(s, k, n)
            /\ p.state # "CSI_INTERMEDIATE" => k = n + 1
            /\ p.state = "CSI_INTERMEDIATE" => k <= n

\* The commands can be placed in the first end bytes of s, so that none of the
\* sequences of the first n bytes is left out.
SpansOf(q, s, end, n) ==
  \E first, last \in [DOMAIN q -> 1..end] :
    /\ Spans(q, s, first, last)
    /\ \A x \in Sequences(s, n) : \E c \in DOMAIN q : first[c] = x

\* A sequence that begins outside an unfinished one and is unfinished itself
\* is the one the machine is in.
Follows(s, i, n, p) ==
  \A x \in 1..n : Begins(s, x) /\ Unfinished(s, x, n)
                   => p.state # "GROUND" /\ x = i

\* The commands so far are sequences, and the one that is open comes behind.
Spanned(s, n, p, q) ==
  \E i \in 1..(n + 1) : /\ SpansOf(q, s, i - 1, n)
                        /\ p.state # "GROUND" => Inside(s, i, n, p)
                        /\ Follows(s, i, n, p)

\* A sequence that gets its final byte was unfinished before.
LEMMA SequencesStep ==
  ASSUME NEW s, NEW n \in Nat, NEW x \in Sequences(s, n + 1)
  PROVE  \/ x \in Sequences(s, n)
         \/ /\ x \in 1..n /\ x + 1 <= n /\ Begins(s, x)
            /\ Unfinished(s, x, n) /\ IsFinal(s[n + 1])
<1>1. x \in 1..(n + 1) /\ Begins(s, x)
  BY DEF Sequences
<1>2. PICK j \in x..(n + 1) : Span(s, x, j)
  BY DEF Sequences
<1>3. PICK k \in (x + 2)..j : SpanSplit(s, x, j, k)
  BY <1>2 DEF Span
<1>4. x \in Nat /\ j \in Nat /\ k \in Nat /\ x + 2 <= k /\ k <= j /\ j <= n + 1
  BY <1>1, <1>2, <1>3
<1>5. CASE j <= n
  <2>1. j \in x..n /\ x \in 1..n
    BY <1>1, <1>4, <1>5
  <2> QED
    BY <1>1, <1>2, <2>1 DEF Sequences
<1>6. CASE j = n + 1
  <2>1. j - 1 = n /\ k \in (x + 2)..(n + 1) /\ x \in 1..n /\ x + 1 <= n
    BY <1>1, <1>4, <1>6
  <2>2. UpTo(s, x, n, k) /\ IsFinal(s[n + 1])
    BY <1>3, <1>6, <2>1 DEF SpanSplit
  <2>3. s[x] = ESC
    BY <2>2 DEF UpTo
  <2> QED
    BY <1>1, <2>1, <2>2, <2>3 DEF Unfinished
<1> QED
  BY <1>4, <1>5, <1>6

\* What is unfinished was so one byte earlier, and how it went on.
LEMMA UnfinishedStep ==
  ASSUME NEW s, NEW n \in Nat, NEW x \in 1..(n + 1), Unfinished(s, x, n + 1)
  PROVE  /\ s[x] = ESC
         /\ x # n + 1 =>
              /\ Unfinished(s, x, n)
              /\ x = n => s[n + 1] = CSI
              /\ x # n => \/ IsIntermediate(s[n + 1])
                          \/ /\ IsParamByte(s[n + 1])
                             /\ \A y \in (x + 2)..n : IsParamByte(s[y])
<1>1. s[x] = ESC
  BY DEF Unfinished
<1> SUFFICES ASSUME x # n + 1
             PROVE  /\ Unfinished(s, x, n)
                    /\ x = n => s[n + 1] = CSI
                    /\ x # n => \/ IsIntermediate(s[n + 1])
                                \/ /\ IsParamByte(s[n + 1])
                                   /\ \A y \in (x + 2)..n : IsParamByte(s[y])
  BY <1>1
<1>2. PICK k \in (x + 2)..((n + 1) + 1) : UpTo(s, x, n + 1, k)
  BY DEF Unfinished
<1>3. /\ s[x + 1] = CSI
      /\ \A y \in (x + 2)..(k - 1) : IsParamByte(s[y])
      /\ \A y \in k..(n + 1) : IsIntermediate(s[y])
  BY <1>2 DEF UpTo
<1>4. x \in Nat /\ k \in Nat /\ x <= n /\ x + 2 <= k /\ k <= n + 2
  BY <1>2
<1>5. CASE x = n
  BY <1>1, <1>3, <1>5 DEF Unfinished
<1>6. CASE x # n /\ k = n + 2
  <2>1. /\ n + 1 \in (x + 2)..(n + 1) /\ k - 1 = n + 1
        /\ \A y \in (x + 2)..n : y \in (x + 2)..(k - 1)
        /\ \A y \in (x + 2)..((n + 1) - 1) : y \in (x + 2)..(k - 1)
        /\ \A y \in (n + 1)..n : FALSE
        /\ x + 2 <= n + 1
    BY <1>4, <1>6
  <2>2. IsParamByte(s[n + 1]) /\ \A y \in (x + 2)..n : IsParamByte(s[y])
    BY <1>3, <2>1
  <2>3. UpTo(s, x, n, n + 1)
    BY <1>1, <1>3, <2>1 DEF UpTo
  <2> QED
    BY <1>1, <1>6, <2>1, <2>2, <2>3 DEF Unfinished
<1>7. CASE x # n /\ k <= n + 1
  <2>1. n + 1 \in k..(n + 1) /\ k \in (x + 2)..(n + 1)
        /\ \A y \in k..n : y \in k..(n + 1)
    BY <1>4, <1>7
  <2>2. UpTo(s, x, n, k)
    BY <1>1, <1>3, <1>4, <1>7, <2>1 DEF UpTo
  <2> QED
    BY <1>1, <1>3, <1>7, <2>1, <2>2 DEF Unfinished
<1> QED
  BY <1>4, <1>5, <1>6, <1>7

\* The sequence the machine is in is unfinished.
LEMMA InsideIsUnfinished ==
  ASSUME NEW s, NEW n \in Nat, NEW i \in Nat, NEW p, Inside(s, i, n, p),
         p.state \in InSequence \cup {"ESCAPE"}
  PROVE  i <= n /\ Unfinished(s, i, n)
<1>1. i <= n /\ s[i] = ESC
  BY DEF Inside
<1>2. CASE p.state = "ESCAPE"
  BY <1>1, <1>2 DEF Inside, Unfinished
<1>3. CASE p.state \in InSequence
  <2>1. PICK k \in (i + 2)..(n + 1) :
          /\ \A x \in (i + 2)..(k - 1) : IsParamByte(s[x])
          /\ \A x \in k..n : IsIntermediate(s[x])
    BY <1>3 DEF Inside
  <2>2. s[i + 1] = CSI /\ i + 2 <= k /\ k <= n + 1
    BY <1>3 DEF Inside
  <2>3. UpTo(s, i, n, k)
    BY <1>1, <2>1, <2>2 DEF UpTo
  <2> QED
    BY <1>1, <2>3 DEF Unfinished
<1> QED
  BY <1>2, <1>3

\* A byte that completes no command finishes no sequence.
LEMMA SequencesStay ==
  ASSUME NEW s, NEW n \in Nat, NEW i \in 1..(n + 1), NEW p, p.state \in States,
         p.state # "GROUND" => Inside(s, i, n, p), Follows(s, i, n, p),
         ~(p.state \in InSequence /\ IsFinal(s[n + 1]))
  PROVE  \A x \in Sequences(s, n + 1) : x \in Sequences(s, n)
<1> SUFFICES ASSUME NEW x \in Sequences(s, n + 1), x \notin Sequences(s, n)
             PROVE  FALSE
  OBVIOUS
<1>1. /\ x \in 1..n /\ x + 1 <= n /\ Begins(s, x)
      /\ Unfinished(s, x, n) /\ IsFinal(s[n + 1])
  BY SequencesStep
<1>2. p.state # "GROUND" /\ x = i
  BY <1>1 DEF Follows
<1>3. p.state = "ESCAPE"
  BY <1>1, <1>2 DEF States, InSequence
<1>4. n = i
  BY <1>2, <1>3 DEF Inside
<1> QED
  BY <1>1, <1>2, <1>4

\* The machine stays in the sequence as long as it is unfinished.
LEMMA FollowsStep ==
  ASSUME NEW s \in Seq(Bytes), NEW n \in Nat, n + 1 <= Len(s),
         NEW p, Shaped(p), NEW i \in 1..(n + 1),
         p.state # "GROUND" => Inside(s, i, n, p), Follows(s, i, n, p),
         NEW h, Moves(p, s[n + 1], h)
  PROVE  IF p.state = "GROUND"
         THEN IF s[n + 1] = ESC THEN Follows(s, n + 1, n + 1, h.parser)
              ELSE \A j : Follows(s, j, n + 1, h.parser)
         ELSE /\ Follows(s, i, n + 1, h.parser)
              /\ h.parser.state = "GROUND" => \A j : Follows(s, j, n + 1, h.parser)
<1> DEFINE b == s[n + 1]
<1>1. p.state \in States
  BY CollectFields
\* The one that begins with the byte.
<1>2. ASSUME Begins(s, n + 1) PROVE p.state = "GROUND" /\ b = ESC
  <2>1. b = ESC /\ \A x \in 1..((n + 1) - 1) : ~Unfinished(s, x, (n + 1) - 1)
    BY <1>2 DEF Begins
  <2>2. (n + 1) - 1 = n
    OBVIOUS
  <2>3. CASE p.state # "GROUND"
    <3>1. p.state \in InSequence \cup {"ESCAPE"}
      BY <1>1, <2>3 DEF States, InSequence
    <3>2. i <= n /\ Unfinished(s, i, n)
      BY <2>3, <3>1, InsideIsUnfinished
    <3>3. i \in 1..n
      BY <3>2
    <3> QED
      BY <2>1, <2>2, <3>2, <3>3
  <2> QED
    BY <2>1, <2>3
\* One that began before.
<1>3. ASSUME NEW x \in 1..(n + 1), x # n + 1, Begins(s, x),
             Unfinished(s, x, n + 1)
      PROVE  p.state # "GROUND" /\ x = i /\ h.parser.state # "GROUND"
  <2>1. /\ Unfinished(s, x, n)
        /\ x = n => b = CSI
        /\ x # n => \/ IsIntermediate(b)
                    \/ /\ IsParamByte(b)
                       /\ \A y \in (x + 2)..n : IsParamByte(s[y])
    BY <1>3, UnfinishedStep
  <2>2. x \in 1..n
    BY <1>3
  <2>3. p.state # "GROUND" /\ x = i
    BY <1>3, <2>1, <2>2 DEF Follows
  <2>4. Inside(s, x, n, p)
    BY <2>3
  <2>5. CASE p.state = "ESCAPE"
    <3>1. b = CSI
      BY <2>1, <2>4, <2>5 DEF Inside
    <3>2. Kept(h, "CSI_ENTRY", p.params, p.intermediate)
      BY <2>5, <3>1 DEF Moves
    <3> QED
      BY <2>3, <3>2 DEF Kept
  <2>6. CASE p.state \in InSequence
    <3>1. x # n
      BY <2>2, <2>4, <2>6 DEF Inside
    <3>2. CASE IsIntermediate(b)
      <4>1. ~IsParamByte(b)
        BY <3>2, ByteClasses DEF IsParamByte
      <4>2. Kept(h, "CSI_INTERMEDIATE", p.params, Append(p.intermediate, b))
        BY <2>6, <3>2, <4>1 DEF Moves
      <4> QED
        BY <2>3, <4>2 DEF Kept
    <3>3. CASE IsParamByte(b) /\ \A y \in (x + 2)..n : IsParamByte(s[y])
      <4>1. p.state # "CSI_INTERMEDIATE"
        <5> SUFFICES ASSUME p.state = "CSI_INTERMEDIATE" PROVE FALSE
          OBVIOUS
        <5>1. PICK k \in (x + 2)..(n + 1) :
                /\ \A y \in k..n : IsIntermediate(s[y])
                /\ k <= n
          BY <2>4 DEF Inside, InSequence
        <5>2. n \in k..n /\ n \in (x + 2)..n
          BY <2>2, <5>1
        <5>3. IsIntermediate(s[n]) /\ IsParamByte(s[n])
          BY <3>3, <5>1, <5>2
        <5> QED
          BY <5>3, ByteClasses DEF IsParamByte
      <4>2. Kept(h, "CSI_PARAM", NewParams(p, b), p.intermediate)
        BY <2>6, <3>3, <4>1 DEF Moves
      <4> QED
        BY <2>3, <4>2 DEF Kept
    <3> QED
      BY <2>1, <3>1, <3>2, <3>3
  <2> QED
    BY <1>1, <2>3, <2>5, <2>6 DEF States, InSequence
<1>4. CASE p.state = "GROUND" /\ b = ESC
  <2>1. h.parser.state = "ESCAPE"
    BY <1>4 DEF Moves, Kept
  <2>2. Follows(s, n + 1, n + 1, h.parser)
    BY <1>3, <1>4, <2>1 DEF Follows
  <2> QED
    BY <1>4, <2>2
<1>5. CASE p.state = "GROUND" /\ b # ESC
  <2>1. \A j : Follows(s, j, n + 1, h.parser)
    BY <1>2, <1>3, <1>5 DEF Follows
  <2> QED
    BY <1>5, <2>1
<1>6. CASE p.state # "GROUND"
  <2>1. Follows(s, i, n + 1, h.parser)
    BY <1>2, <1>3, <1>6 DEF Follows
  <2>2. h.parser.state = "GROUND" => \A j : Follows(s, j, n + 1, h.parser)
    BY <1>2, <1>3, <1>6 DEF Follows
  <2> QED
    BY <1>6, <2>1, <2>2
<1> QED
  BY <1>4, <1>5, <1>6

LEMMA SpansWeaken ==
  ASSUME NEW q, NEW s, NEW m \in Nat, NEW n \in Nat, m <= n,
         NEW e, NEW f, SpansOf(q, s, m, e),
         \A x \in Sequences(s, f) : x \in Sequences(s, e)
  PROVE  SpansOf(q, s, n, f)
<1>1. 1..m \subseteq 1..n
  OBVIOUS
<1>2. [DOMAIN q -> 1..m] \subseteq [DOMAIN q -> 1..n]
  BY <1>1
<1> QED
  BY <1>2 DEF SpansOf

LEMMA SpansAppend ==
  ASSUME NEW q \in Seq(Command), NEW s, NEW i \in Nat, NEW n \in Nat, 1 <= i,
         i <= n, NEW e, SpansOf(q, s, i - 1, e), NEW c, NEW k \in (i + 2)..n,
         SpanOf(c, s, i, n, k), <<c>> \in Seq(Command),
         \A x \in Sequences(s, n) : x \in Sequences(s, e) \/ x = i
  PROVE  SpansOf(q \o <<c>>, s, n, n)
<1> DEFINE m == Len(q)
           r == q \o <<c>>
<1>1. m \in Nat /\ DOMAIN q = 1..m
  OBVIOUS
<1>2. /\ DOMAIN r = 1..(m + 1)
      /\ \A x \in 1..m : r[x] = q[x]
      /\ r[m + 1] = c
  BY ConcatProperties
<1>3. PICK f \in [1..m -> 1..(i - 1)], l \in [1..m -> 1..(i - 1)] :
        /\ \A x \in 1..m :
             /\ \E y \in (f[x] + 2)..l[x] : SpanOf(q[x], s, f[x], l[x], y)
             /\ \A d \in 1..m : x < d => l[x] < f[d]
        /\ \A x \in Sequences(s, e) : \E d \in 1..m : f[d] = x
  BY <1>1 DEF SpansOf, Spans
<1> DEFINE first == [x \in 1..(m + 1) |-> IF x = m + 1 THEN i ELSE f[x]]
           last == [x \in 1..(m + 1) |-> IF x = m + 1 THEN n ELSE l[x]]
<1> HIDE DEF r, m
<1>4. /\ \A x \in 1..m : f[x] \in 1..(i - 1) /\ l[x] \in 1..(i - 1)
      /\ \A x \in 1..m : x \in 1..(m + 1) /\ x # m + 1
      /\ \A x \in 1..(m + 1) : x # m + 1 => x \in 1..m
      /\ m + 1 \in 1..(m + 1)
  BY <1>1
<1>5. /\ \A x \in 1..m : first[x] = f[x] /\ last[x] = l[x]
      /\ first[m + 1] = i /\ last[m + 1] = n
  BY <1>4
<1>6. first \in [1..(m + 1) -> 1..n] /\ last \in [1..(m + 1) -> 1..n]
  <2>1. \A x \in 1..(m + 1) : /\ (IF x = m + 1 THEN i ELSE f[x]) \in 1..n
                              /\ (IF x = m + 1 THEN n ELSE l[x]) \in 1..n
    BY <1>4
  <2> QED
    BY <2>1
<1> HIDE DEF first, last
<1>7. ASSUME NEW x \in 1..(m + 1)
      PROVE  \E y \in (first[x] + 2)..last[x] :
               SpanOf(r[x], s, first[x], last[x], y)
  <2>1. CASE x = m + 1
    BY <1>2, <1>5, <2>1 DEF m
  <2>2. CASE x # m + 1
    <3>1. x \in 1..m
      BY <1>4, <2>2
    <3>2. r[x] = q[x] /\ first[x] = f[x] /\ last[x] = l[x]
      BY <1>2, <1>5, <3>1 DEF m
    <3> QED
      BY <1>3, <3>1, <3>2
  <2> QED
    BY <2>1, <2>2
<1>8. ASSUME NEW x \in 1..(m + 1), NEW d \in 1..(m + 1), x < d
      PROVE  last[x] < first[d]
  <2>1. x \in 1..m
    BY <1>1, <1>8
  <2>2. CASE d = m + 1
    BY <1>4, <1>5, <2>1, <2>2
  <2>3. CASE d # m + 1
    BY <1>3, <1>4, <1>5, <1>8, <2>1, <2>3
  <2> QED
    BY <2>2, <2>3
<1>9. DOMAIN r = 1..(m + 1)
  BY <1>2 DEF m
<1>10. ASSUME NEW x \in Sequences(s, n)
       PROVE  \E d \in 1..(m + 1) : first[d] = x
  <2>1. CASE x = i
    BY <1>4, <1>5, <2>1
  <2>2. CASE x # i
    <3>1. x \in Sequences(s, e)
      BY <2>2
    <3>2. PICK d \in 1..m : f[d] = x
      BY <1>3, <3>1
    <3> QED
      BY <1>4, <1>5, <3>2
  <2> QED
    BY <2>1, <2>2
<1>11. SpansOf(r, s, n, n)
  BY <1>6, <1>7, <1>8, <1>9, <1>10 DEF SpansOf, Spans
<1> QED
  BY <1>11 DEF r

LEMMA IntermediateGrows ==
  ASSUME NEW s \in Seq(Bytes), NEW n \in Nat, n + 1 <= Len(s),
         NEW k \in 1..(n + 1)
  PROVE  Append(SubSeq(s, k, n), s[n + 1]) = SubSeq(s, k, n + 1)
<1>1. k \in 1..Len(s) /\ n + 1 \in k..Len(s) /\ (n + 1) - 1 = n
  OBVIOUS
<1>2. SubSeq(s, k, n + 1) = SubSeq(s, k, n) \o << s[n + 1] >>
  BY <1>1, SubSeqRecursiveSecond
<1>3. s[n + 1] \in Bytes /\ SubSeq(s, k, n) \in Seq(Bytes)
  <2>1. \A x \in k..n : s[x] \in Bytes
    BY ElementOfSeq
  <2> QED
    BY <1>1, <2>1, SubSeqProperties, ElementOfSeq
<1> DEFINE a == SubSeq(s, k, n)
           b == s[n + 1]
<1>4. a \o <<b>> = Append(a, b)
  <2> HIDE DEF a, b
  <2> QED
    BY <1>3, AppendIsConcat DEF a, b
<1> QED
  BY <1>2, <1>4

LEMMA SpannedStep ==
  ASSUME NEW s \in Seq(Bytes), NEW n \in Nat, n + 1 <= Len(s),
         NEW p, Shaped(p), NEW q \in Seq(Command), Spanned(s, n, p, q),
         NEW h, Moves(p, s[n + 1], h), h.commands \in Seq(Command)
  PROVE  Spanned(s, n + 1, h.parser, q \o h.commands)
<1> DEFINE b == s[n + 1]
<1>1. PICK i \in 1..(n + 1) : /\ SpansOf(q, s, i - 1, n)
                              /\ p.state # "GROUND" => Inside(s, i, n, p)
                              /\ Follows(s, i, n, p)
  BY DEF Spanned
<1>2. /\ i \in Nat /\ 1 <= i /\ i <= n + 1
      /\ i - 1 \in Nat /\ i \in 1..((n + 1) + 1)
      /\ (n + 1) + 1 \in 1..((n + 1) + 1)
  BY <1>1
<1>3. /\ Abandon.parser.state = "GROUND" /\ Abandon.commands = <<>>
      /\ Cleared.state = "GROUND" /\ Cleared.intermediate = <<>>
      /\ Cleared.params = <<>>
  BY StayFields DEF Abandon, Cleared
<1>4. q \o <<>> = q
  OBVIOUS
<1>4a. p.state \in States
  BY CollectFields
<1>4b. /\ p.state = "GROUND" /\ b = ESC => Follows(s, n + 1, n + 1, h.parser)
       /\ p.state # "GROUND" => Follows(s, i, n + 1, h.parser)
       /\ h.parser.state = "GROUND" => \A j : Follows(s, j, n + 1, h.parser)
  <2>1. p.state = "GROUND" /\ b = ESC => h.parser.state # "GROUND"
    BY DEF Moves, Kept
  <2> QED
    BY <1>1, <2>1, FollowsStep
<1>4c. ASSUME ~(p.state \in InSequence /\ IsFinal(b))
       PROVE  \A x \in Sequences(s, n + 1) : x \in Sequences(s, n)
  BY <1>1, <1>4a, <1>4c, SequencesStay
<1>5. CASE h = Abandon /\ ~(p.state \in InSequence /\ IsFinal(b))
  <2>1. h.parser.state = "GROUND" /\ q \o h.commands = q
    BY <1>3, <1>4, <1>5
  <2>2. SpansOf(q, s, i - 1, n + 1)
    BY <1>1, <1>2, <1>4c, <1>5, SpansWeaken
  <2> QED
    BY <1>2, <1>4b, <2>1, <2>2 DEF Spanned
\* The byte is kept, and the sequence goes on.
<1>6. ASSUME Inside(s, i, n + 1, h.parser), h.commands = <<>>,
             p.state # "GROUND", ~(p.state \in InSequence /\ IsFinal(b))
      PROVE  Spanned(s, n + 1, h.parser, q \o h.commands)
  <2>1. SpansOf(q, s, i - 1, n + 1)
    BY <1>1, <1>2, <1>4c, <1>6, SpansWeaken
  <2> QED
    BY <1>2, <1>4, <1>4b, <1>6, <2>1 DEF Spanned
<1>7. CASE p.state = "GROUND" /\ b = ESC
  <2>1. p = Cleared
    BY <1>7 DEF Shaped
  <2>2. /\ h.parser.state = "ESCAPE" /\ h.parser.intermediate = <<>>
        /\ h.parser.params = <<>> /\ h.commands = <<>>
    BY <1>3, <1>7, <2>1 DEF Moves, Kept
  <2>3. SpansOf(q, s, n, n + 1)
    <3>1. p.state \notin InSequence
      BY <1>7 DEF InSequence
    <3> QED
      BY <1>1, <1>2, <1>4c, <3>1, SpansWeaken
  <2>4. Inside(s, n + 1, n + 1, h.parser)
    BY <1>7, <2>2 DEF Inside, InSequence
  <2>5. (n + 1) - 1 = n /\ n + 1 \in 1..((n + 1) + 1)
    OBVIOUS
  <2> QED
    BY <1>4, <1>4b, <1>7, <2>2, <2>3, <2>4, <2>5 DEF Spanned
<1>8. CASE p.state = "ESCAPE" /\ b = CSI
  <2>1. Inside(s, i, n, p)
    BY <1>1, <1>8
  <2>2. n = i /\ s[i] = ESC /\ p.params = <<>> /\ p.intermediate = <<>>
    BY <1>8, <2>1 DEF Inside
  <2>3. /\ h.parser.state = "CSI_ENTRY" /\ h.parser.intermediate = <<>>
        /\ h.parser.params = <<>> /\ h.commands = <<>>
    BY <1>8, <2>2 DEF Moves, Kept
  <2>4. SubSeq(s, n + 2, n + 1) = <<>>
    BY SubSeqEmpty
  <2>5. Inside(s, i, n + 1, h.parser)
    <3>1. h.parser.state \in InSequence /\ h.parser.state # "ESCAPE"
      BY <2>3 DEF InSequence
    <3>2. /\ i <= n + 1 /\ i + 1 <= n + 1 /\ s[i + 1] = CSI
          /\ i + 2 \in (i + 2)..((n + 1) + 1) /\ i + 2 = (n + 1) + 1
          /\ \A x \in (i + 2)..((i + 2) - 1) : IsParamByte(s[x])
          /\ \A x \in (i + 2)..(n + 1) : IsIntermediate(s[x])
      BY <1>8, <2>2
    <3>3. h.parser.intermediate = SubSeq(s, i + 2, n + 1)
      BY <2>2, <2>3, <2>4
    <3>4. HasParams(h.parser.params, s, i, i + 2)
      BY <1>2, <2>3, NoParams
    <3>5. /\ n + 1 = i + 1 /\ h.parser.state # "CSI_PARAM"
          /\ h.parser.state # "CSI_INTERMEDIATE"
      BY <2>2, <2>3
    <3> QED
      BY <2>2, <3>1, <3>2, <3>3, <3>4, <3>5 DEF Inside
  <2>6. p.state # "GROUND" /\ p.state \notin InSequence
    BY <1>8 DEF InSequence
  <2> QED
    BY <1>6, <2>3, <2>5, <2>6
<1>9. CASE p.state \in InSequence
  <2>1. Inside(s, i, n, p)
    BY <1>1, <1>9 DEF InSequence
  <2>2. i <= n /\ s[i] = ESC /\ i + 1 <= n /\ s[i + 1] = CSI
        /\ (p.state = "CSI_ENTRY" => n = i + 1)
        /\ (p.state = "CSI_PARAM" => i + 2 <= n)
    BY <1>9, <2>1 DEF Inside
  <2>3. PICK k \in (i + 2)..(n + 1) :
          /\ \A x \in (i + 2)..(k - 1) : IsParamByte(s[x])
          /\ \A x \in k..n : IsIntermediate(s[x])
          /\ HasParams(p.params, s, i, k)
          /\ p.intermediate = SubSeq(s, k, n)
          /\ p.state # "CSI_INTERMEDIATE" => k = n + 1
    BY <1>9, <2>1 DEF Inside
  <2>3a. p.state # "GROUND"
    BY <1>9 DEF InSequence
  <2>4. k \in Nat /\ i + 2 <= k /\ k <= n + 1 /\ k \in 1..(n + 1)
    BY <1>2, <2>3
  <2>5. CASE p.state # "CSI_INTERMEDIATE" /\ IsParamByte(b)
    <3>1. /\ h.parser.state = "CSI_PARAM" /\ h.commands = <<>>
          /\ h.parser.intermediate = p.intermediate
          /\ h.parser.params = NewParams(p, b)
      BY <1>9, <2>5 DEF Moves, Kept
    <3>2. k = n + 1 /\ SubSeq(s, n + 1, n) = <<>> /\ SubSeq(s, n + 2, n + 1) = <<>>
      BY <2>3, <2>5, SubSeqEmpty
    <3>3. h.parser.intermediate = SubSeq(s, n + 2, n + 1)
      BY <2>3, <3>1, <3>2
    <3>4. \A x \in (i + 2)..((n + 2) - 1) : IsParamByte(s[x])
      <4>1. \A x \in (i + 2)..((n + 2) - 1) : x = n + 1 \/ x \in (i + 2)..(k - 1)
        BY <1>2, <3>2
      <4> QED
        BY <2>3, <2>5, <4>1
    <3>5. /\ \A x \in (n + 2)..(n + 1) : IsIntermediate(s[x])
          /\ n + 2 \in (i + 2)..((n + 1) + 1) /\ n + 2 = (n + 1) + 1
          /\ i <= n + 1 /\ i + 1 <= n + 1
      BY <1>2, <2>2
    <3>6. h.parser.state \in InSequence /\ h.parser.state # "ESCAPE"
      BY <3>1 DEF InSequence
    <3>7. HasParams(h.parser.params, s, i, n + 2)
      <4>1. p.params \in Seq(Ints)
        BY CollectFields
      <4>2. \/ p.state = "CSI_ENTRY" /\ n = i + 1
            \/ p.state = "CSI_PARAM" /\ i + 2 <= n
        BY <1>9, <2>2, <2>5 DEF InSequence
      <4>3. HasParams(p.params, s, i, n + 1)
        BY <2>3, <3>2
      <4> QED
        BY <1>2, <2>2, <2>5, <3>1, <4>1, <4>2, <4>3, ParamsStep
    <3>8. /\ i + 2 <= n + 1 /\ h.parser.state # "CSI_ENTRY"
          /\ h.parser.state # "CSI_INTERMEDIATE"
      BY <1>2, <2>2, <3>1
    <3>9. Inside(s, i, n + 1, h.parser)
      BY <2>2, <3>3, <3>4, <3>5, <3>6, <3>7, <3>8 DEF Inside
    <3>10. ~IsFinal(b)
      BY <2>5, ByteClasses DEF IsParamByte
    <3> QED
      BY <1>6, <2>3a, <3>1, <3>9, <3>10
  <2>6. CASE IsIntermediate(b)
    <3>1. ~IsParamByte(b)
      BY <2>6, ByteClasses DEF IsParamByte
    <3>2. /\ h.parser.state = "CSI_INTERMEDIATE" /\ h.commands = <<>>
          /\ h.parser.intermediate = Append(p.intermediate, b)
          /\ h.parser.params = p.params
      BY <1>9, <2>6, <3>1 DEF Moves, Kept
    <3>3. h.parser.intermediate = SubSeq(s, k, n + 1)
      BY <2>3, <2>4, <3>2, IntermediateGrows
    <3>4. \A x \in k..(n + 1) : IsIntermediate(s[x])
      <4>1. \A x \in k..(n + 1) : x = n + 1 \/ x \in k..n
        BY <2>4
      <4> QED
        BY <2>3, <2>6, <4>1
    <3>5. k \in (i + 2)..((n + 1) + 1) /\ i <= n + 1 /\ i + 1 <= n + 1
          /\ k <= n + 1
      BY <1>2, <2>2, <2>4
    <3>6. h.parser.state \in InSequence /\ h.parser.state # "ESCAPE"
      BY <3>2 DEF InSequence
    <3>7. Inside(s, i, n + 1, h.parser)
      BY <2>2, <2>3, <3>2, <3>3, <3>4, <3>5, <3>6 DEF Inside
    <3>8. ~IsFinal(b)
      BY <2>6, ByteClasses
    <3> QED
      BY <1>6, <2>3a, <3>2, <3>7, <3>8
  <2>7. CASE IsFinal(b)
    <3>1. ~IsParamByte(b) /\ ~IsIntermediate(b)
      BY <2>7, ByteClasses DEF IsParamByte
    <3>2. Completes(p, b, h)
      BY <1>9, <2>7, <3>1 DEF Moves
    <3>3. PICK c : h.commands = <<c>> /\ c.params = p.params
                   /\ c.intermediate = p.intermediate /\ c.final = b
      BY <3>2 DEF Completes
    <3>4. SpanOf(c, s, i, n + 1, k)
      <4>1. (n + 1) - 1 = n
        OBVIOUS
      <4>2. SpanSplit(s, i, n + 1, k)
        BY <2>2, <2>3, <2>4, <2>7, <4>1 DEF SpanSplit, UpTo
      <4> QED
        BY <2>3, <3>3, <4>1, <4>2 DEF SpanOf
    <3>5. SpansOf(q \o <<c>>, s, n + 1, n + 1)
      <4>1. <<c>> \in Seq(Command)
        BY <3>3
      <4>2. i <= n + 1 /\ n + 1 \in Nat /\ k \in (i + 2)..(n + 1)
        BY <1>2
      <4>3. \A x \in Sequences(s, n + 1) : x \in Sequences(s, n) \/ x = i
        BY <1>1, SequencesStep DEF Follows
      <4> QED
        BY <1>1, <1>2, <3>4, <4>1, <4>2, <4>3, SpansAppend
    <3>6. h.parser.state = "GROUND" /\ q \o h.commands = q \o <<c>>
      BY <1>3, <3>2, <3>3 DEF Completes
    <3>7. ((n + 1) + 1) - 1 = n + 1
      OBVIOUS
    <3>8. SpansOf(q \o h.commands, s, ((n + 1) + 1) - 1, n + 1)
      BY <3>5, <3>6, <3>7
    <3> QED
      BY <1>2, <1>4b, <3>6, <3>8 DEF Spanned
  <2>8. CASE /\ ~(p.state # "CSI_INTERMEDIATE" /\ IsParamByte(b))
             /\ ~IsIntermediate(b) /\ ~IsFinal(b)
    <3>1. h = Abandon
      BY <1>9, <2>8 DEF Moves
    <3> QED
      BY <1>5, <2>8, <3>1
  <2> QED
    BY <2>5, <2>6, <2>7, <2>8
<1>10. /\ p.state = "GROUND" => p.state \notin InSequence
       /\ p.state = "ESCAPE" => p.state \notin InSequence
  BY DEF InSequence
<1>11. p.state = "GROUND" /\ b # ESC => h = Abandon
  BY DEF Moves
<1>12. p.state = "ESCAPE" /\ b # CSI => h = Abandon
  BY DEF Moves
<1> QED
  BY <1>4a, <1>5, <1>7, <1>8, <1>9, <1>10, <1>11, <1>12 DEF States, InSequence

LEMMA FedIsSpanned ==
  ASSUME NEW s \in Seq(Bytes)
  PROVE  SpansOf(Feed(Cleared, s).commands, s, Len(s), Len(s))
<1> DEFINE P(n) == Spanned(s, n, Fed(s, n).parser, Fed(s, n).commands)
           S == {n \in Nat : n <= Len(s) => P(n)}
<1>1. 0 \in S
  <2>1. Cleared.state = "GROUND" /\ 1 \in 1..(0 + 1)
    BY DEF Cleared
  <2>2. SpansOf(<<>>, s, 1 - 1, 0)
    <3>1. DOMAIN <<>> = {}
      OBVIOUS
    <3>2. \E f \in [DOMAIN <<>> -> 1..(1 - 1)] : TRUE
      <4> DEFINE f == [x \in DOMAIN <<>> |-> 0]
      <4>1. f \in [DOMAIN <<>> -> 1..(1 - 1)]
        BY <3>1
      <4> QED
        BY <4>1
    <3>3. \A x : x \notin Sequences(s, 0)
      BY DEF Sequences
    <3>4. PICK f \in [DOMAIN <<>> -> 1..(1 - 1)] : TRUE
      BY <3>2
    <3>5. Spans(<<>>, s, f, f)
      BY <3>1 DEF Spans
    <3> QED
      BY <3>3, <3>4, <3>5 DEF SpansOf
  <2>3. Follows(s, 1, 0, Cleared)
    BY DEF Follows
  <2>3a. Spanned(s, 0, Cleared, <<>>)
    BY <2>1, <2>2, <2>3 DEF Spanned
  <2>4. P(0)
    BY <2>3a, FedStart
  <2> QED
    BY <2>4
<1>2. ASSUME NEW n \in S PROVE n + 1 \in S
  <2>1. n \in Nat /\ Len(s) \in Nat
    OBVIOUS
  <2> SUFFICES ASSUME n + 1 <= Len(s) PROVE P(n + 1)
    BY <2>1
  <2>2. P(n)
    BY <2>1
  <2> DEFINE r == Fed(s, n)
             h == Handle(r.parser, s[n + 1])
             q == r.commands
  <2>3. /\ Result(r) /\ s[n + 1] \in Bytes /\ Moves(r.parser, s[n + 1], h)
        /\ Fed(s, n + 1) = Step(r, s[n + 1])
    BY <2>1, FedStep
  <2>4. /\ Step(r, s[n + 1]).parser = h.parser
        /\ Step(r, s[n + 1]).commands = q \o h.commands
        /\ h.commands \in Seq(Command)
    BY <2>3, StepFields
  <2>5. Shaped(r.parser) /\ q \in Seq(Command)
    BY <2>3 DEF Result
  <2> HIDE DEF h
  <2>6. Spanned(s, n, r.parser, q)
    BY <2>2
  <2> HIDE DEF r, P, q
  <2>7. Spanned(s, n + 1, h.parser, q \o h.commands)
    BY <2>1, <2>3, <2>4, <2>5, <2>6, SpannedStep
  <2> QED
    BY <2>3, <2>4, <2>7 DEF P
<1> HIDE DEF P
<1>3. S = Nat
  <2>1. S \in SUBSET Nat
    OBVIOUS
  <2> HIDE DEF S
  <2> QED
    BY <1>1, <1>2, <2>1, SetInduction
<1>4. Len(s) \in Nat /\ P(Len(s))
  BY <1>3
<1> DEFINE q == Fed(s, Len(s)).commands
<1>5. PICK i \in 1..(Len(s) + 1) : SpansOf(q, s, i - 1, Len(s))
  BY <1>4 DEF P, Spanned
<1>6. i - 1 \in Nat /\ i - 1 <= Len(s)
  BY <1>4
<1> HIDE DEF q
<1>7. SpansOf(q, s, Len(s), Len(s))
  BY <1>4, <1>5, <1>6, SpansWeaken
<1> QED
  BY <1>7, FedWhole DEF q

\* The commands of a call are those its data give.
LEMMA OwnCommands ==
  ASSUME ParserInv
  PROVE  /\ Own = Feed(Cleared, stream).commands
         /\ Commands = earlier \o Own
         /\ stream \in Seq(Bytes)
<1> DEFINE w == Whole.commands
<1>1. /\ Commands = earlier \o w /\ earlier \in Seq(Command)
      /\ stream \in Seq(Bytes) /\ w \in Seq(Command)
  BY WholeFacts DEF ParserInv, TypeOK, Result
<1> HIDE DEF w
<1>2. Len(earlier \o w) = Len(earlier) + Len(w)
  BY <1>1, ConcatProperties
<1>3. SubSeq(earlier \o w, Len(earlier) + 1, Len(earlier) + Len(w)) = w
  BY <1>1, ConcatProperties, SubSeqProperties
<1>4. Own = w
  BY <1>1, <1>2, <1>3 DEF Own
<1> QED
  BY <1>1, <1>4 DEF w, Whole

\* Whatever bytes arrive, each command of a call is a control sequence of its
\* data, with its parameters, its intermediates and its final byte; the
\* commands come in stream order and no two of them share a byte.  A parameter
\* is the number its digits spell, wrapped to an int, although the code wraps
\* at every digit.
THEOREM CommandsComeFromStream == Spec => []CommandsAreInStream
<1>1. ParserInv => CommandsAreInStream
  <2> SUFFICES ASSUME ParserInv PROVE CommandsAreInStream
    OBVIOUS
  <2>1. SpansOf(Own, stream, Len(stream), Len(stream))
    BY OwnCommands, FedIsSpanned
  <2> QED
    BY <2>1, OwnCommands DEF CommandsAreInStream, SpansOf
<1> QED
  BY <1>1, InitParserInv, NextParserInv, PTL DEF Spec

\* Each complete sequence with parameters of digits and semicolons whose ESC
\* does not stand inside an unfinished sequence gives a command of its own,
\* whatever stands in front of it: text, an abandoned private sequence, the
\* data of earlier calls.
THEOREM NoSequenceIsMissed == Spec => []SequencesAreParsed
<1>1. ParserInv => SequencesAreParsed
  <2> SUFFICES ASSUME ParserInv PROVE SequencesAreParsed
    OBVIOUS
  <2>1. SpansOf(Own, stream, Len(stream), Len(stream))
    BY OwnCommands, FedIsSpanned
  <2> QED
    BY <2>1 DEF SequencesAreParsed, SpansOf
<1> QED
  BY <1>1, InitParserInv, NextParserInv, PTL DEF Spec
=============================================================================
