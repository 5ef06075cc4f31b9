-------------------------- MODULE CSIMachineProofs --------------------------
(***************************************************************************)
(* The machine of CSIMachine over byte sequences of any length.  Induction  *)
(* over the natural numbers is used in the form of a set that contains 0    *)
(* and, with each number, the next.                                         *)
(***************************************************************************)
EXTENDS CSIMachine, SequenceTheorems, WellFoundedInduction, TLAPS

\* Induction: by the well-foundedness of < there is no least number outside.
LEMMA SetInduction ==
  ASSUME NEW S \in SUBSET Nat, 0 \in S, \A n \in S : n + 1 \in S
  PROVE  S = Nat
<1> DEFINE R == OpToRel(<, Nat)
           T == Nat \ S
<1> SUFFICES ASSUME T # {} PROVE FALSE
  OBVIOUS
<1>1. IsWellFoundedOn(R, Nat)
  BY NatLessThanWellFounded
<1>2. \A x, y \in Nat : y < x => <<y, x>> \in R
  BY DEF OpToRel
<1>3. T \subseteq Nat
  OBVIOUS
<1> HIDE DEF R
<1>4. PICK x \in T : \A y \in T : ~(<<y, x>> \in R)
  BY <1>1, <1>3, WFMin
<1>5. x \in Nat /\ x # 0 /\ x \notin S
  OBVIOUS
<1>6. x - 1 \in Nat /\ x - 1 < x /\ (x - 1) + 1 = x
  BY <1>5
<1>7. x - 1 \in S
  BY <1>2, <1>4, <1>5, <1>6
<1> QED
  BY <1>5, <1>6, <1>7

-----------------------------------------------------------------------------
(* Feed as a recursion.                                                    *)

\* f is the table of the first n turns over s, from p.
Table(f, p, s, n) ==
  f = [i \in 0..n |-> IF i = 0 THEN Stay(p) ELSE Step(f[i - 1], s[i])]

LEMMA TableExists ==
  ASSUME NEW p, NEW s, NEW n \in Nat
  PROVE  \E f : Table(f, p, s, n)
<1> DEFINE S == {m \in Nat : \E f : Table(f, p, s, m)}
<1>1. 0 \in S
  <2> DEFINE f == [i \in 0..0 |-> Stay(p)]
  <2>1. f = [i \in 0..0 |-> IF i = 0 THEN Stay(p) ELSE Step(f[i - 1], s[i])]
    OBVIOUS
  <2> QED
    BY <2>1 DEF Table
<1>2. ASSUME NEW m \in S PROVE m + 1 \in S
  <2>1. PICK f : Table(f, p, s, m)
    OBVIOUS
  <2> DEFINE g == [i \in 0..(m + 1) |-> IF i = m + 1 THEN Step(f[m], s[m + 1])
                                        ELSE f[i]]
  <2>2. m \in Nat
    OBVIOUS
  <2>3. ASSUME NEW i \in 0..(m + 1)
        PROVE  g[i] = IF i = 0 THEN Stay(p) ELSE Step(g[i - 1], s[i])
    <3>1. CASE i = m + 1
      BY <2>2, <3>1
    <3>2. CASE i # m + 1
      <4>1. i \in 0..m /\ g[i] = f[i] /\ (i # 0 => g[i - 1] = f[i - 1])
        BY <2>2, <3>2
      <4>2. f[i] = IF i = 0 THEN Stay(p) ELSE Step(f[i - 1], s[i])
        BY <2>1, <4>1 DEF Table
      <4> QED
        BY <4>1, <4>2
    <3> QED
      BY <3>1, <3>2
  <2>4. Table(g, p, s, m + 1)
    BY <2>3 DEF Table
  <2> QED
    BY <2>2, <2>4
<1> HIDE DEF S
<1>3. S = Nat
  <2>1. S \in SUBSET Nat
    BY DEF S
  <2> QED
    BY <1>1, <1>2, <2>1, SetInduction
<1> QED
  BY <1>3 DEF S

\* Two tables agree as far as their sequences do.
LEMMA TablesAgree ==
  ASSUME NEW p, NEW s, NEW r, NEW m \in Nat, NEW n \in Nat, m <= n,
         \A i \in 1..m : s[i] = r[i],
         NEW f, Table(f, p, s, m), NEW g, Table(g, p, r, n)
  PROVE  f[m] = g[m]
<1> DEFINE S == {i \in Nat : i <= m => f[i] = g[i]}
<1>1. 0 \in S
  BY DEF Table
<1>2. ASSUME NEW i \in S PROVE i + 1 \in S
  <2> SUFFICES ASSUME i + 1 <= m PROVE f[i + 1] = g[i + 1]
    OBVIOUS
  <2>1. /\ i \in Nat /\ f[i] = g[i] /\ i + 1 \in 0..m /\ i + 1 \in 0..n
        /\ i + 1 # 0 /\ (i + 1) - 1 = i /\ i + 1 \in 1..m
    OBVIOUS
  <2> DEFINE k == i + 1
  <2>2. k \in 0..m /\ k \in 0..n /\ k # 0 /\ k - 1 = i /\ k \in 1..m
    BY <2>1
  <2> HIDE DEF k
  <2>3. f[k] = Step(f[i], s[k]) /\ g[k] = Step(g[i], r[k])
    BY <2>2 DEF Table
  <2>4. s[k] = r[k]
    BY <2>2
  <2> QED
    BY <2>1, <2>3, <2>4 DEF k
<1> HIDE DEF S
<1>3. S = Nat
  <2>1. S \in SUBSET Nat
    BY DEF S
  <2> QED
    BY <1>1, <1>2, <2>1, SetInduction
<1> QED
  BY <1>3 DEF S

\* Feed is the last entry of a table.
LEMMA FeedIsTable ==
  ASSUME NEW p, NEW s, Len(s) \in Nat, NEW f, Table(f, p, s, Len(s))
  PROVE  Feed(p, s) = f[Len(s)]
<1> DEFINE g == CHOOSE h : Table(h, p, s, Len(s))
<1>1. Table(g, p, s, Len(s))
  OBVIOUS
<1>2. Feed(p, s) = g[Len(s)]
  BY DEF Feed, Table
<1> HIDE DEF g
<1>3. f[Len(s)] = g[Len(s)]
  BY <1>1, TablesAgree
<1> QED
  BY <1>2, <1>3

\* Nothing fed, and one byte more fed.
LEMMA FeedNothing ==
  ASSUME NEW p
  PROVE  Feed(p, <<>>) = Stay(p)
<1>1. PICK f : Table(f, p, <<>>, 0)
  BY TableExists
<1>2. Len(<<>>) = 0
  OBVIOUS
<1>3. Feed(p, <<>>) = f[0]
  BY <1>1, <1>2, FeedIsTable
<1> QED
  BY <1>1, <1>3 DEF Table

LEMMA FeedAppend ==
  ASSUME NEW p, NEW s \in Seq(Bytes), NEW b \in Bytes
  PROVE  Feed(p, Append(s, b)) = Step(Feed(p, s), b)
<1> DEFINE r == Append(s, b)
           n == Len(s)
<1>1. /\ n \in Nat /\ Len(r) = n + 1 /\ r[n + 1] = b
      /\ \A i \in 1..n : s[i] = r[i]
  BY AppendProperties
<1> HIDE DEF r, n
<1>2. PICK f : Table(f, p, s, n)
  BY <1>1, TableExists
<1>3. n + 1 \in Nat
  BY <1>1
<1>4. PICK g : Table(g, p, r, n + 1)
  BY <1>3, TableExists
<1>5. n <= n + 1
  BY <1>1
<1>6. f[n] = g[n]
  BY <1>1, <1>2, <1>3, <1>4, <1>5, TablesAgree
<1>7. Feed(p, s) = f[n]
  BY <1>1, <1>2, FeedIsTable DEF n
<1>8. Feed(p, r) = g[n + 1]
  BY <1>1, <1>3, <1>4, FeedIsTable
<1>9. g[n + 1] = Step(g[n], r[n + 1])
  <2> DEFINE k == n + 1
  <2>1. k \in 0..k /\ k # 0 /\ k - 1 = n
    BY <1>1
  <2>2. Table(g, p, r, k)
    BY <1>4
  <2> HIDE DEF k
  <2>3. g[k] = Step(g[n], r[k])
    BY <2>1, <2>2 DEF Table
  <2> QED
    BY <2>3 DEF k
<1> QED
  BY <1>1, <1>6, <1>7, <1>8, <1>9 DEF r
\* Induction over sequences, for the set of sequences a fact holds of.
LEMMA SeqInduction ==
  ASSUME NEW B, NEW T \in SUBSET Seq(B), <<>> \in T,
         \A s \in T, b \in B : Append(s, b) \in T
  PROVE  T = Seq(B)
<1> DEFINE N == {n \in Nat : \A s \in Seq(B) : Len(s) = n => s \in T}
<1>1. 0 \in N
  <2>1. \A s \in Seq(B) : Len(s) = 0 => s = <<>>
    OBVIOUS
  <2> QED
    BY <2>1
<1>2. ASSUME NEW n \in N PROVE n + 1 \in N
  <2> SUFFICES ASSUME NEW s \in Seq(B), Len(s) = n + 1 PROVE s \in T
    OBVIOUS
  <2>1. s # <<>>
    OBVIOUS
  <2>2. PICK r \in Seq(B), b \in B : s = Append(r, b)
    BY <2>1, SequenceEmptyOrAppend
  <2>3. Len(r) = n
    <3>1. Len(s) = Len(r) + 1 /\ Len(r) \in Nat
      BY <2>2, AppendProperties
    <3> QED
      BY <3>1
  <2> QED
    BY <2>2, <2>3
<1> HIDE DEF N
<1>3. N = Nat
  <2>1. N \in SUBSET Nat
    BY DEF N
  <2> QED
    BY <1>1, <1>2, <2>1, SetInduction
<1>4. \A s \in Seq(B) : Len(s) \in Nat
  OBVIOUS
<1> QED
  BY <1>3, <1>4 DEF N

-----------------------------------------------------------------------------
(* The handlers keep the fields in shape.                                  *)

\* In the ground state everything is cleared; a parameter that digits are
\* added to exists; an incomplete sequence begins with ESC.
Shaped(p) ==
  /\ p \in Fields
  /\ p.state = "GROUND" => p = Cleared
  /\ p.state = "CSI_PARAM" => p.params # <<>>
  /\ p.state # "GROUND" => p.buffer # <<>> /\ p.buffer[1] = ESC

\* What a handler does with a byte: it goes back to the beginning, with or
\* without a command, or keeps the byte.
Handled(p, b, h) ==
  /\ Shaped(h.parser)
  /\ h = [parser |-> h.parser, commands |-> h.commands]
  /\ h.commands \in Seq(Command)
  /\ h.parser.state # "GROUND" =>
       h.parser.buffer = Append(p.buffer, b) /\ h.commands = <<>>

LEMMA ClearedIsShaped == Shaped(Cleared)
  BY DEF Shaped, Cleared, Fields, States

LEMMA AbandonHandles ==
  ASSUME NEW p, NEW b
  PROVE  Handled(p, b, Abandon)
<1>1. Abandon.parser = Cleared /\ Abandon.commands = <<>>
      /\ Abandon = [parser |-> Abandon.parser, commands |-> Abandon.commands]
  BY DEF Abandon, Stay
<1>2. Cleared.state = "GROUND"
  BY DEF Cleared
<1> QED
  BY <1>1, <1>2, ClearedIsShaped DEF Handled

\* Keeping a byte with new parameters and intermediates.
LEMMA KeepHandles ==
  ASSUME NEW p, Shaped(p), NEW b \in Bytes, NEW s \in States \ {"GROUND"},
         NEW x \in Seq(Ints), NEW y \in Seq(Intermediates),
         s = "CSI_PARAM" => x # <<>>,
         p.state = "GROUND" => b = ESC,
         NEW q, q = [state |-> s, buffer |-> Append(p.buffer, b), params |-> x,
                     intermediate |-> y]
  PROVE  Handled(p, b, Stay(q))
<1>1. p.buffer \in Seq(Bytes)
  BY DEF Shaped, Fields
<1>2. q.buffer = Append(p.buffer, b) /\ q.state = s /\ q.params = x
  OBVIOUS
<1>3. q \in Fields
  BY <1>1, AppendProperties DEF Fields
<1>4. q.buffer # <<>>
  BY <1>1, <1>2, AppendProperties
<1>5. q.buffer[1] = ESC
  <2>1. CASE p.state = "GROUND"
    <3>1. p.buffer = <<>>
      BY <2>1 DEF Shaped, Cleared
    <3> QED
      BY <1>2, <2>1, <3>1
  <2>2. CASE p.state # "GROUND"
    <3>1. p.buffer # <<>> /\ p.buffer[1] = ESC
      BY <2>2 DEF Shaped
    <3>2. 1 \in 1..Len(p.buffer)
      BY <1>1, <3>1
    <3> QED
      BY <1>1, <1>2, <3>1, <3>2, AppendProperties
  <2> QED
    BY <2>1, <2>2
<1>6. Shaped(q)
  BY <1>2, <1>3, <1>4, <1>5 DEF Shaped
<1>7. /\ Stay(q).parser = q /\ Stay(q).commands = <<>>
      /\ Stay(q) = [parser |-> Stay(q).parser, commands |-> Stay(q).commands]
  BY DEF Stay
<1>8. <<>> \in Seq(Command)
  OBVIOUS
<1>9. Stay(q).parser.buffer = Append(p.buffer, b)
  BY <1>2, <1>7
<1>10. Shaped(Stay(q).parser) /\ Stay(q).commands \in Seq(Command)
  BY <1>6, <1>7, <1>8
<1> QED
  BY <1>7, <1>9, <1>10 DEF Handled

\* The command is one, and everything is cleared.
LEMMA CommandTypeType ==
  ASSUME NEW final \in Bytes, NEW private \in BOOLEAN, NEW intermediate
  PROVE  CommandType(final, private, intermediate) \in Types
<1> DEFINE bang == Bang \in Range(intermediate)
<1>1. bang \in BOOLEAN
  OBVIOUS
<1> HIDE DEF bang
<1>2. CommandType(final, private, intermediate) =
        CASE final \in {65, 66, 67, 68, 69, 70, 71, 72, 102} -> "CURSOR"
          [] final \in {74, 75}  -> "ERASE"
          [] final = 109         -> "SELECT_GRAPHIC"
          [] final = 104         -> IF private THEN "DECSET_PRIVATE" ELSE "DECSET"
          [] final = 108         -> IF private THEN "DECRST_PRIVATE" ELSE "DECRST"
          [] final = 112 /\ bang -> "SOFT_RESET"
          [] final \in {83, 84, 110, 115, 117} -> "OTHER"
          [] OTHER               -> "UNKNOWN"
  BY DEF CommandType, bang
<1> QED
  BY <1>1, <1>2 DEF Types

LEMMA CompleteHandles ==
  ASSUME NEW p, Shaped(p), NEW b \in Bytes, IsFinal(b)
  PROVE  Handled(p, b, CompleteCommand(p, b))
<1> DEFINE h == CompleteCommand(p, b)
           private == Question \in Range(p.intermediate)
           c == [type |-> CommandType(b, private, p.intermediate),
                 params |-> p.params, intermediate |-> p.intermediate,
                 final |-> b, isPrivate |-> private]
<1>1. h = [parser |-> Cleared, commands |-> <<c>>]
  BY DEF CompleteCommand
<1>2. CommandType(b, private, p.intermediate) \in Types
  <2>1. private \in BOOLEAN
    OBVIOUS
  <2> HIDE DEF private
  <2> QED
    BY <2>1, CommandTypeType
<1>3. p.params \in Seq(Ints) /\ p.intermediate \in Seq(Intermediates)
  BY DEF Shaped, Fields
<1>4. private \in BOOLEAN
  OBVIOUS
<1>5. c \in Command
  <2> DEFINE type == CommandType(b, private, p.intermediate)
  <2>1. type \in Types /\ c.type = type
        /\ c.type = CommandType(c.final, c.isPrivate, c.intermediate)
    BY <1>2
  <2> HIDE DEF private, type
  <2> QED
    BY <1>3, <1>4, <2>1 DEF Command, type
<1> HIDE DEF c
<1>6. <<c>> \in Seq(Command)
  BY <1>5
<1>7. h.parser = Cleared /\ h.commands = <<c>>
      /\ h = [parser |-> h.parser, commands |-> h.commands]
  BY <1>1
<1> HIDE DEF h
<1>8. Cleared.state = "GROUND"
  BY DEF Cleared
<1> QED
  BY <1>6, <1>7, <1>8, ClearedIsShaped DEF Handled, h
\* Arithmetic of int stays in its range.
LEMMA Int32Type ==
  ASSUME NEW n \in Int
  PROVE  Int32(n) \in Ints
<1> DEFINE h == IntHalf
           m == (n + h) % (2 * h)
<1>1. h \in Nat /\ h > 9 /\ n + h \in Int /\ 2 * h \in Nat /\ 2 * h > 0
  BY MachineAssumption
<1>2. m \in 0..(2 * h - 1)
  BY <1>1
<1> HIDE DEF m
<1>3. m - h \in (-h)..(h - 1)
  BY <1>1, <1>2
<1> QED
  BY <1>3 DEF Int32, Ints, m

\* A digit is a small number.
LEMMA DigitType ==
  ASSUME NEW b, IsDigit(b)
  PROVE  b - 48 \in 0..9 /\ b - 48 \in Ints /\ 0 \in Ints
  BY MachineAssumption DEF IsDigit, Ints

LEMMA ZeroType == 0 \in Ints
  BY MachineAssumption DEF Ints

\* Fields as a record.
LEMMA CollectRecord ==
  ASSUME NEW p, NEW b, NEW s, NEW u, NEW v, NEW x, NEW y,
         p = [state |-> u, buffer |-> v, params |-> x, intermediate |-> y]
  PROVE  Collect(p, b, s) = [state |-> s, buffer |-> Append(v, b), params |-> x,
                             intermediate |-> y]
<1> DEFINE w == Append(v, b)
<1>1. p.buffer = v
  OBVIOUS
<1> HIDE DEF w
<1>2. [p EXCEPT !.state = s, !.buffer = w] =
        [state |-> s, buffer |-> w, params |-> x, intermediate |-> y]
  <2> DEFINE q == [p EXCEPT !.state = s]
  <2>1. q = [state |-> s, buffer |-> v, params |-> x, intermediate |-> y]
    OBVIOUS
  <2>2. [p EXCEPT !.state = s, !.buffer = w] = [q EXCEPT !.buffer = w]
    OBVIOUS
  <2> HIDE DEF q
  <2>3. [q EXCEPT !.buffer = w] =
          [state |-> s, buffer |-> w, params |-> x, intermediate |-> y]
    BY <2>1
  <2> QED
    BY <2>2, <2>3
<1>3. [p EXCEPT !.state = s, !.buffer = Append(@, b)] =
        [p EXCEPT !.state = s, !.buffer = w]
  BY <1>1 DEF w
<1> QED
  BY <1>2, <1>3 DEF Collect, w

\* What Collect and the changes of the other fields make of the fields.
LEMMA CollectFields ==
  ASSUME NEW p, Shaped(p), NEW b, NEW s
  PROVE  /\ Collect(p, b, s) =
              [state |-> s, buffer |-> Append(p.buffer, b),
               params |-> p.params, intermediate |-> p.intermediate]
         /\ p.params \in Seq(Ints) /\ p.intermediate \in Seq(Intermediates)
         /\ p.state \in States
<1>1. /\ p.params \in Seq(Ints) /\ p.intermediate \in Seq(Intermediates)
      /\ p.state \in States
      /\ p = [state |-> p.state, buffer |-> p.buffer, params |-> p.params,
              intermediate |-> p.intermediate]
  BY DEF Shaped, Fields
<1>2. Collect(p, b, s) = [state |-> s, buffer |-> Append(p.buffer, b),
                          params |-> p.params, intermediate |-> p.intermediate]
  BY <1>1, CollectRecord
<1> QED
  BY <1>1, <1>2

LEMMA IntermediateHandles ==
  ASSUME NEW p, Shaped(p), p.state # "GROUND", NEW b \in Bytes,
         IsIntermediate(b)
  PROVE  Handled(p, b, Intermediate(p, b))
<1> DEFINE y == Append(p.intermediate, b)
           q == [state |-> "CSI_INTERMEDIATE", buffer |-> Append(p.buffer, b),
                 params |-> p.params, intermediate |-> y]
<1>1. p.params \in Seq(Ints) /\ p.intermediate \in Seq(Intermediates)
  BY CollectFields
<1>2. b \in Intermediates
  BY DEF Intermediates
<1>3. y \in Seq(Intermediates)
  BY <1>1, <1>2, AppendProperties
<1>4. Intermediate(p, b) = Stay(q)
  <2> DEFINE r == Collect(p, b, "CSI_INTERMEDIATE")
             v == Append(p.buffer, b)
  <2>1. r = [state |-> "CSI_INTERMEDIATE", buffer |-> v,
             params |-> p.params, intermediate |-> p.intermediate]
    BY CollectFields
  <2> HIDE DEF r, y, v
  <2>2. r.intermediate = p.intermediate /\ [r EXCEPT !.intermediate = y] =
          [state |-> "CSI_INTERMEDIATE", buffer |-> v, params |-> p.params,
           intermediate |-> y]
    BY <2>1
  <2>3. [r EXCEPT !.intermediate = Append(@, b)] = q
    BY <2>2 DEF v, y
  <2> QED
    BY <2>3 DEF Intermediate, r
<1>5. "CSI_INTERMEDIATE" \in States \ {"GROUND"}
  BY DEF States
<1> HIDE DEF y
<1>6. Handled(p, b, Stay(q))
  BY <1>1, <1>3, <1>5, KeepHandles
<1> QED
  BY <1>4, <1>6

\* A digit or a semicolon that opens a parameter.
LEMMA OpenHandles ==
  ASSUME NEW p, Shaped(p), p.state # "GROUND", NEW b \in Bytes, NEW v \in Ints
  PROVE  Handled(p, b, Stay([Collect(p, b, "CSI_PARAM")
                              EXCEPT !.params = Append(@, v)]))
<1> DEFINE x == Append(p.params, v)
           q == [state |-> "CSI_PARAM", buffer |-> Append(p.buffer, b),
                 params |-> x, intermediate |-> p.intermediate]
<1>1. p.params \in Seq(Ints) /\ p.intermediate \in Seq(Intermediates)
  BY CollectFields
<1>2. x \in Seq(Ints) /\ x # <<>>
  BY <1>1, AppendProperties
<1>3. [Collect(p, b, "CSI_PARAM") EXCEPT !.params = Append(@, v)] = q
  <2> DEFINE r == Collect(p, b, "CSI_PARAM")
             w == Append(p.buffer, b)
  <2>1. r = [state |-> "CSI_PARAM", buffer |-> w,
             params |-> p.params, intermediate |-> p.intermediate]
    BY CollectFields
  <2> HIDE DEF r, x, w
  <2>2. r.params = p.params /\ [r EXCEPT !.params = x] =
        [state |-> "CSI_PARAM", buffer |-> w, params |-> x,
         intermediate |-> p.intermediate]
    BY <2>1
  <2>3. [r EXCEPT !.params = Append(@, v)] = q
    BY <2>2 DEF w, x
  <2> QED
    BY <2>3 DEF r
<1>4. "CSI_PARAM" \in States \ {"GROUND"}
  BY DEF States
<1> HIDE DEF x
<1>5. Handled(p, b, Stay(q))
  BY <1>1, <1>2, <1>4, KeepHandles
<1> QED
  BY <1>3, <1>5

LEMMA GroundHandles ==
  ASSUME NEW p, Shaped(p), p.state = "GROUND", NEW b \in Bytes
  PROVE  Handled(p, b, HandleGround(p, b))
<1>1. CASE b = ESC
  <2>1. "ESCAPE" \in States \ {"GROUND"}
    BY DEF States
  <2> DEFINE q == Collect(p, b, "ESCAPE")
  <2>2. q = [state |-> "ESCAPE", buffer |-> Append(p.buffer, b),
             params |-> p.params, intermediate |-> p.intermediate]
    BY CollectFields
  <2> HIDE DEF q
  <2>3. Handled(p, b, Stay(q))
    BY <1>1, <2>1, <2>2, CollectFields, KeepHandles
  <2> QED
    BY <1>1, <2>3 DEF HandleGround, q
<1>2. CASE b # ESC
  <2>1. HandleGround(p, b) = Abandon
    BY <1>2 DEF HandleGround, Abandon, Shaped
  <2> QED
    BY <2>1, AbandonHandles
<1> QED
  BY <1>1, <1>2

LEMMA EscapeHandles ==
  ASSUME NEW p, Shaped(p), p.state = "ESCAPE", NEW b \in Bytes
  PROVE  Handled(p, b, HandleEscape(p, b))
<1>1. CASE b = CSI
  <2>1. "CSI_ENTRY" \in States \ {"GROUND"}
    BY DEF States
  <2> DEFINE q == Collect(p, b, "CSI_ENTRY")
  <2>2. q = [state |-> "CSI_ENTRY", buffer |-> Append(p.buffer, b),
             params |-> p.params, intermediate |-> p.intermediate]
    BY CollectFields
  <2> HIDE DEF q
  <2>3. Handled(p, b, Stay(q))
    BY <1>1, <2>1, <2>2, CollectFields, KeepHandles
  <2> QED
    BY <1>1, <2>3 DEF HandleEscape, q
<1>2. CASE b # CSI
  BY <1>2, AbandonHandles DEF HandleEscape
<1> QED
  BY <1>1, <1>2

\* The classes of bytes do not overlap.
LEMMA ByteClasses ==
  ASSUME NEW b
  PROVE  /\ ~(IsDigit(b) /\ b = Semicolon) /\ ~(IsDigit(b) /\ IsIntermediate(b))
         /\ ~(IsDigit(b) /\ IsFinal(b)) /\ ~(b = Semicolon /\ IsIntermediate(b))
         /\ ~(b = Semicolon /\ IsFinal(b)) /\ ~(IsIntermediate(b) /\ IsFinal(b))
  BY DEF IsDigit, IsIntermediate, IsFinal, Semicolon

LEMMA EntryHandles ==
  ASSUME NEW p, Shaped(p), p.state = "CSI_ENTRY", NEW b \in Bytes
  PROVE  Handled(p, b, HandleCSIEntry(p, b))
<1> USE ByteClasses
<1>1. CASE IsDigit(b)
  BY <1>1, DigitType, OpenHandles DEF HandleCSIEntry
<1>2. CASE b = Semicolon
  BY <1>2, ZeroType, OpenHandles DEF HandleCSIEntry
<1>3. CASE IsIntermediate(b)
  BY <1>3, IntermediateHandles DEF HandleCSIEntry
<1>4. CASE IsFinal(b)
  BY <1>4, CompleteHandles DEF HandleCSIEntry
<1>5. CASE ~(IsDigit(b) \/ b = Semicolon \/ IsIntermediate(b) \/ IsFinal(b))
  BY <1>5, AbandonHandles DEF HandleCSIEntry
<1> QED
  BY <1>1, <1>2, <1>3, <1>4, <1>5

LEMMA ParamHandles ==
  ASSUME NEW p, Shaped(p), p.state = "CSI_PARAM", NEW b \in Bytes
  PROVE  Handled(p, b, HandleCSIParam(p, b))
<1> USE ByteClasses
<1>1. CASE IsDigit(b)
  <2> DEFINE n == Len(p.params)
             v == Int32(p.params[n] * 10 + (b - 48))
             x == [p.params EXCEPT ![n] = v]
             q == [state |-> "CSI_PARAM", buffer |-> Append(p.buffer, b),
                   params |-> x, intermediate |-> p.intermediate]
  <2>1. /\ p.params \in Seq(Ints) /\ p.intermediate \in Seq(Intermediates)
        /\ p.params # <<>>
    BY CollectFields DEF Shaped
  <2>2. n \in 1..Len(p.params)
    BY <2>1
  <2>3. p.params[n] \in Int
    <3>1. p.params[n] \in Ints
      BY <2>1, <2>2, ElementOfSeq
    <3> QED
      BY <3>1, MachineAssumption DEF Ints
  <2>4. v \in Ints
    <3>1. b - 48 \in Int
      BY <1>1, DigitType
    <3>2. p.params[n] * 10 + (b - 48) \in Int
      BY <2>3, <3>1
    <3> QED
      BY <3>2, Int32Type
  <2>5. [Collect(p, b, "CSI_PARAM") EXCEPT
           !.params[Len(p.params)] = Int32(@ * 10 + (b - 48))] = q
    <3> DEFINE r == Collect(p, b, "CSI_PARAM")
               w == Append(p.buffer, b)
    <3>1. r = [state |-> "CSI_PARAM", buffer |-> w,
               params |-> p.params, intermediate |-> p.intermediate]
      BY CollectFields
    <3> HIDE DEF r, x, w
    <3>2. r.params = p.params /\ [r EXCEPT !.params = x] =
          [state |-> "CSI_PARAM", buffer |-> w, params |-> x,
           intermediate |-> p.intermediate]
      BY <3>1
    <3>3. [r EXCEPT !.params[n] = Int32(@ * 10 + (b - 48))] = q
      BY <3>2 DEF w, x
    <3> QED
      BY <3>3 DEF r
  <2>6. HandleCSIParam(p, b) = Stay(q)
    BY <1>1, <2>5 DEF HandleCSIParam
  <2> HIDE DEF v
  <2>7. x \in Seq(Ints) /\ Len(x) = Len(p.params)
    BY <2>1, <2>2, <2>4, ExceptSeq
  <2>8. x # <<>>
    BY <2>1, <2>7
  <2>9. "CSI_PARAM" \in States \ {"GROUND"}
    BY DEF States
  <2> HIDE DEF x
  <2>10. Handled(p, b, Stay(q))
    BY <2>1, <2>7, <2>8, <2>9, KeepHandles
  <2> QED
    BY <2>6, <2>10
<1>2. CASE b = Semicolon
  BY <1>2, ZeroType, OpenHandles DEF HandleCSIParam
<1>3. CASE IsIntermediate(b)
  BY <1>3, IntermediateHandles DEF HandleCSIParam
<1>4. CASE IsFinal(b)
  BY <1>4, CompleteHandles DEF HandleCSIParam
<1>5. CASE ~(IsDigit(b) \/ b = Semicolon \/ IsIntermediate(b) \/ IsFinal(b))
  BY <1>5, AbandonHandles DEF HandleCSIParam
<1> QED
  BY <1>1, <1>2, <1>3, <1>4, <1>5

LEMMA HandleHandles ==
  ASSUME NEW p, Shaped(p), NEW b \in Bytes
  PROVE  Handled(p, b, Handle(p, b))
<1>1. p.state \in States
  BY CollectFields
<1>2. CASE p.state = "GROUND"
  BY <1>2, GroundHandles DEF Handle
<1>3. CASE p.state = "ESCAPE"
  BY <1>3, EscapeHandles DEF Handle
<1>4. CASE p.state = "CSI_ENTRY"
  BY <1>4, EntryHandles DEF Handle
<1>5. CASE p.state = "CSI_PARAM"
  BY <1>5, ParamHandles DEF Handle
<1>6. CASE p.state = "CSI_INTERMEDIATE"
  <2>1. Handle(p, b) = HandleCSIIntermediate(p, b)
    BY <1>6 DEF Handle
  <2>2. CASE IsIntermediate(b)
    BY <1>6, <2>1, <2>2, ByteClasses, IntermediateHandles
       DEF HandleCSIIntermediate
  <2>3. CASE IsFinal(b)
    BY <2>1, <2>3, ByteClasses, CompleteHandles DEF HandleCSIIntermediate
  <2>4. CASE ~(IsIntermediate(b) \/ IsFinal(b))
    BY <2>1, <2>4, AbandonHandles DEF HandleCSIIntermediate
  <2> QED
    BY <2>2, <2>3, <2>4
<1> QED
  BY <1>1, <1>2, <1>3, <1>4, <1>5, <1>6 DEF States
-----------------------------------------------------------------------------
(* Whole byte sequences.                                                   *)

\* The result of feeding is a parser in shape and the commands so far.
Result(r) ==
  /\ r = [parser |-> r.parser, commands |-> r.commands]
  /\ Shaped(r.parser)
  /\ r.commands \in Seq(Command)

LEMMA StepResult ==
  ASSUME NEW r, Result(r), NEW b \in Bytes
  PROVE  Result(Step(r, b))
<1> DEFINE h == Handle(r.parser, b)
<1>1. Handled(r.parser, b, h)
  BY HandleHandles DEF Result
<1>2. Step(r, b) = [parser |-> h.parser, commands |-> r.commands \o h.commands]
  BY DEF Step
<1> HIDE DEF h
<1>3. r.commands \o h.commands \in Seq(Command)
  BY <1>1, ConcatProperties DEF Handled, Result
<1> QED
  BY <1>1, <1>2, <1>3 DEF Handled, Result

LEMMA StayResult ==
  ASSUME NEW p, Shaped(p)
  PROVE  Result(Stay(p)) /\ Stay(p).parser = p /\ Stay(p).commands = <<>>
<1>1. Stay(p) = [parser |-> p, commands |-> <<>>]
  BY DEF Stay
<1>2. <<>> \in Seq(Command)
  OBVIOUS
<1> QED
  BY <1>1, <1>2 DEF Result

LEMMA FeedResult ==
  ASSUME NEW p, Shaped(p), NEW bytes \in Seq(Bytes)
  PROVE  Result(Feed(p, bytes))
<1> DEFINE T == {s \in Seq(Bytes) : Result(Feed(p, s))}
<1>1. <<>> \in T
  BY FeedNothing, StayResult
<1>2. ASSUME NEW s \in T, NEW b \in Bytes PROVE Append(s, b) \in T
  <2>1. s \in Seq(Bytes) /\ Append(s, b) \in Seq(Bytes)
    BY AppendProperties
  <2>2. Feed(p, Append(s, b)) = Step(Feed(p, s), b)
    BY <2>1, FeedAppend
  <2>3. Result(Feed(p, s))
    OBVIOUS
  <2> QED
    BY <2>1, <2>2, <2>3, StepResult
<1> HIDE DEF T
<1>3. T = Seq(Bytes)
  <2>1. T \in SUBSET Seq(Bytes)
    BY DEF T
  <2> QED
    BY <1>1, <1>2, <2>1, SeqInduction
<1> QED
  BY <1>3 DEF T

\* The bytes the parser has kept bring a cleared parser to where it is, and
\* complete no command on the way.
Refeeds(p) == Feed(Cleared, p.buffer) = Stay(p)

LEMMA StepRefeeds ==
  ASSUME NEW p, Shaped(p), Refeeds(p), NEW b \in Bytes
  PROVE  Refeeds(Handle(p, b).parser)
<1> DEFINE h == Handle(p, b)
<1>1. Handled(p, b, h)
  BY HandleHandles
<1>2. p.buffer \in Seq(Bytes)
  BY DEF Shaped, Fields
<1>3. Feed(Cleared, Append(p.buffer, b)) = Step(Stay(p), b)
  BY <1>2, FeedAppend DEF Refeeds
<1>4. Step(Stay(p), b) = [parser |-> h.parser, commands |-> <<>> \o h.commands]
  BY StayResult DEF Step
<1> HIDE DEF h
<1>5. CASE h.parser.state = "GROUND"
  <2>1. h.parser = Cleared /\ Cleared.buffer = <<>>
    BY <1>1, <1>5 DEF Handled, Shaped, Cleared
  <2> QED
    BY <2>1, FeedNothing DEF Refeeds, h
<1>6. CASE h.parser.state # "GROUND"
  <2>1. h.parser.buffer = Append(p.buffer, b) /\ h.commands = <<>>
    BY <1>1, <1>6 DEF Handled
  <2>2. <<>> \o h.commands = <<>>
    BY <2>1
  <2>3. Step(Stay(p), b) = Stay(h.parser)
    BY <1>4, <2>2 DEF Stay
  <2> QED
    BY <1>3, <2>1, <2>3 DEF Refeeds, h
<1> QED
  BY <1>5, <1>6

\* Whatever was fed, the bytes the parser has kept can be fed again instead.
LEMMA FeedRefeeds ==
  ASSUME NEW bytes \in Seq(Bytes)
  PROVE  Refeeds(Feed(Cleared, bytes).parser)
<1> DEFINE T == {s \in Seq(Bytes) : Refeeds(Feed(Cleared, s).parser)}
<1>1. <<>> \in T
  <2>1. Feed(Cleared, <<>>).parser = Cleared
    BY FeedNothing, StayResult, ClearedIsShaped
  <2>2. Cleared.buffer = <<>>
    BY DEF Cleared
  <2> QED
    BY <2>1, <2>2, FeedNothing DEF Refeeds
<1>2. ASSUME NEW s \in T, NEW b \in Bytes PROVE Append(s, b) \in T
  <2> DEFINE r == Feed(Cleared, s)
  <2>1. s \in Seq(Bytes) /\ Append(s, b) \in Seq(Bytes) /\ Refeeds(r.parser)
    BY AppendProperties
  <2>2. Feed(Cleared, Append(s, b)) = Step(r, b)
    BY <2>1, FeedAppend
  <2>3. Shaped(r.parser)
    BY <2>1, FeedResult, ClearedIsShaped DEF Result
  <2> HIDE DEF r
  <2>4. Step(r, b).parser = Handle(r.parser, b).parser
    BY DEF Step
  <2> QED
    BY <2>1, <2>2, <2>3, <2>4, StepRefeeds
<1> HIDE DEF T
<1>3. T = Seq(Bytes)
  <2>1. T \in SUBSET Seq(Bytes)
    BY DEF T
  <2> QED
    BY <1>1, <1>2, <2>1, SeqInduction
<1> QED
  BY <1>3 DEF T
=============================================================================
