------------------------- MODULE MCTerminalHandler -------------------------
(***************************************************************************)
(* Instances of TerminalHandler for TLC: data is put together from text,   *)
(* complete sequences and incomplete ones.                                 *)
(***************************************************************************)
EXTENDS TerminalHandler

Text       == <<120>>                      \* x
ShowCursor == <<27, 91, 50, 53, 104>>      \* ESC [ 25 h
Attribute  == <<27, 91, 49, 109>>          \* ESC [ 1 m
GotoFar    == <<27, 91, 50, 48, 48, 72>>   \* ESC [ 200 H, an overflow here
Up         == <<27, 91, 65>>               \* ESC [ A
Erase      == <<27, 91, 50, 74>>           \* ESC [ 2 J
Part       == <<27, 91>>                   \* ESC [

Tokens   == {ShowCursor, Attribute, GotoFar, Up, Erase, Part}
Mixed    == {a \o b : a, b \in {Text, Attribute, Part}}
MCChunks == Tokens \cup Mixed \cup {Text \o Text \o Text, Text \o Text \o Part}
MCBytes  == UNION {ToSet(c) : c \in MCChunks}

\* For the claim of the comment, one call is enough.
MCTest   == {Text \o Attribute, Attribute \o Text, Text \o Part, Erase, Up}
=============================================================================
