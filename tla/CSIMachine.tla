----------------------------- MODULE CSIMachine -----------------------------
(***************************************************************************)
(* The state machine of Terminal/CSIParser, which recognizes               *)
(*   ESC [ parameters intermediates final                                  *)
(* byte by byte: what the handlers compute.  CSIParser is the object that  *)
(* runs it, TerminalHandler the one that feeds it.                         *)
(*                                                                         *)
(* A byte is a number in 0..255; the code's char is signed, so the bytes   *)
(* from 128 on fail every range test just as they do here.                 *)
(***************************************************************************)
EXTENDS Integers, Sequences, SequencesExt

CONSTANTS
  Bytes,     \* the bytes that are fed
  IntHalf    \* 2^31: the parameters are ints

ASSUME MachineAssumption ==
  /\ Bytes \subseteq 0..255
  /\ IntHalf \in Nat
  /\ IntHalf > 9

ESC       == 27
CSI       == 91
Semicolon == 59
Question  == 63
Bang      == 33

IsDigit(b)        == b \in 48..57
IsIntermediate(b) == b \in 32..47
IsFinal(b)        == b \in 64..126

States == {"GROUND", "ESCAPE", "CSI_ENTRY", "CSI_PARAM", "CSI_INTERMEDIATE"}
Types  == {"CURSOR", "ERASE", "SELECT_GRAPHIC", "DECSET_PRIVATE", "DECSET",
           "DECRST_PRIVATE", "DECRST", "SOFT_RESET", "OTHER", "UNKNOWN"}
Ints   == (-IntHalf)..(IntHalf - 1)

\* The fields of the parser.
Intermediates == {b \in Bytes : IsIntermediate(b)}
Fields  == [state : States, buffer : Seq(Bytes), params : Seq(Ints),
            intermediate : Seq(Intermediates)]

\* Arithmetic of int: an overflowing product or sum wraps around.
Int32(n) == ((n + IntHalf) % (2 * IntHalf)) - IntHalf

-----------------------------------------------------------------------------
(* The handlers.  Each maps the fields of the parser and a byte to the new *)
(* fields and the command that the byte completes, if any.                 *)

\* clearState()
Cleared == [state |-> "GROUND", buffer |-> <<>>, params |-> <<>>,
            intermediate |-> <<>>]

Stay(p)          == [parser |-> p, commands |-> <<>>]
\* A sequence is given up.  The parseError signal that goes with it changes
\* nothing: it has no receiver in the program.
Abandon          == Stay(Cleared)
Collect(p, b, s) == [p EXCEPT !.state = s, !.buffer = Append(@, b)]

\* determineCommandType(), as far as the rest of the program tells types apart.
CommandType(final, private, intermediate) ==
  CASE final \in {65, 66, 67, 68, 69, 70, 71, 72, 102} -> "CURSOR"
    [] final \in {74, 75}  -> "ERASE"
    [] final = 109         -> "SELECT_GRAPHIC"
    [] final = 104         -> IF private THEN "DECSET_PRIVATE" ELSE "DECSET"
    [] final = 108         -> IF private THEN "DECRST_PRIVATE" ELSE "DECRST"
    [] final = 112 /\ Bang \in Range(intermediate) -> "SOFT_RESET"
    [] final \in {83, 84, 110, 115, 117} -> "OTHER"
    [] OTHER               -> "UNKNOWN"

\* A CSICommand, whose type follows from the rest.
Command ==
  {c \in [type : Types, params : Seq(Ints), intermediate : Seq(Intermediates),
          final : {b \in Bytes : IsFinal(b)}, isPrivate : BOOLEAN] :
     c.type = CommandType(c.final, c.isPrivate, c.intermediate)}

\* Faulty (this and the other variants below make one property fail each):
\* the parameters stay behind for the next command.
CompleteCommandKeepsParams(p, final) ==
  [parser |-> [Cleared EXCEPT !.params = p.params],
   commands |-> << [type |-> CommandType(final, FALSE, p.intermediate),
                    params |-> p.params, intermediate |-> p.intermediate,
                    final |-> final, isPrivate |-> FALSE] >>]

\* completeCommand(final)
CompleteCommand(p, final) ==
  LET private == Question \in Range(p.intermediate)
  IN  [parser |-> Cleared,
       commands |-> << [type |-> CommandType(final, private, p.intermediate),
                        params |-> p.params,
                        intermediate |-> p.intermediate,
                        final |-> final,
                        isPrivate |-> private] >>]

HandleGround(p, b) ==
  IF b = ESC THEN Stay(Collect(p, b, "ESCAPE")) ELSE Stay(p)

HandleEscape(p, b) ==
  IF b = CSI THEN Stay(Collect(p, b, "CSI_ENTRY")) ELSE Abandon

\* The part that entry, parameter and intermediate state have in common.
Intermediate(p, b) ==
  Stay([Collect(p, b, "CSI_INTERMEDIATE") EXCEPT !.intermediate = Append(@, b)])

\* Faulty: a sequence without parameters is not accepted.
HandleCSIEntryNeedsParam(p, b) ==
  CASE IsDigit(b) ->
         Stay([Collect(p, b, "CSI_PARAM") EXCEPT !.params = Append(@, b - 48)])
    [] b = Semicolon ->
         Stay([Collect(p, b, "CSI_PARAM") EXCEPT !.params = Append(@, 0)])
    [] IsIntermediate(b) -> Intermediate(p, b)
    [] OTHER             -> Abandon

HandleCSIEntry(p, b) ==
  CASE IsDigit(b) ->
         Stay([Collect(p, b, "CSI_PARAM") EXCEPT !.params = Append(@, b - 48)])
    [] b = Semicolon ->
         Stay([Collect(p, b, "CSI_PARAM") EXCEPT !.params = Append(@, 0)])
    [] IsIntermediate(b) -> Intermediate(p, b)
    [] IsFinal(b)        -> CompleteCommand(p, b)
    [] OTHER             -> Abandon

HandleCSIParam(p, b) ==
  CASE IsDigit(b) ->
         Stay([Collect(p, b, "CSI_PARAM") EXCEPT
                 !.params[Len(p.params)] = Int32(@ * 10 + (b - 48))])
    [] b = Semicolon ->
         Stay([Collect(p, b, "CSI_PARAM") EXCEPT !.params = Append(@, 0)])
    [] IsIntermediate(b) -> Intermediate(p, b)
    [] IsFinal(b)        -> CompleteCommand(p, b)
    [] OTHER             -> Abandon

\* Faulty: every byte that does not end the sequence is an intermediate.
HandleCSIIntermediateAny(p, b) ==
  IF IsFinal(b) THEN CompleteCommand(p, b) ELSE Intermediate(p, b)

HandleCSIIntermediate(p, b) ==
  CASE IsIntermediate(b) -> Intermediate(p, b)
    [] IsFinal(b)        -> CompleteCommand(p, b)
    [] OTHER             -> Abandon

\* The switch of processByte; STATE_CSI_FINAL is never entered.
Handle(p, b) ==
  CASE p.state = "GROUND"           -> HandleGround(p, b)
    [] p.state = "ESCAPE"           -> HandleEscape(p, b)
    [] p.state = "CSI_ENTRY"        -> HandleCSIEntry(p, b)
    [] p.state = "CSI_PARAM"        -> HandleCSIParam(p, b)
    [] p.state = "CSI_INTERMEDIATE" -> HandleCSIIntermediate(p, b)

\* A turn of the loop of processData, and the loop over all bytes.
Step(r, b) ==
  LET h == Handle(r.parser, b)
  IN  [parser |-> h.parser, commands |-> r.commands \o h.commands]

Feed(p, bytes) ==
  LET fed[i \in 0..Len(bytes)] ==
        IF i = 0 THEN Stay(p) ELSE Step(fed[i - 1], bytes[i])
  IN  fed[Len(bytes)]
=============================================================================
