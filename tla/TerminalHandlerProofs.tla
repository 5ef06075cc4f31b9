------------------------ MODULE TerminalHandlerProofs ------------------------
(***************************************************************************)
(* TerminalHandler for any data, any width of int and any number of calls: *)
(* type correctness, the gate, the order of the output and the fate of the *)
(* text in front of a sequence.                                            *)
(***************************************************************************)
EXTENDS TerminalHandler, CSIMachineProofs

-----------------------------------------------------------------------------
(* Sequences of items.                                                     *)

LEMMA PrefixOfAppend ==
  ASSUME NEW s \in Seq(Item), NEW x \in Item
  PROVE  IsPrefix(s, s) /\ IsPrefix(s, Append(s, x))
<1>1. /\ Append(s, x) \in Seq(Item) /\ Len(Append(s, x)) = Len(s) + 1
      /\ \A i \in 1..Len(s) : Append(s, x)[i] = s[i]
      /\ Len(s) \in Nat
  BY AppendProperties
<1>2. SubSeq(s, 1, Len(s)) = SubSeq(Append(s, x), 1, Len(s))
  BY <1>1
<1> QED
  BY <1>1, <1>2 DEF IsPrefix

LEMMA AppendConcat ==
  ASSUME NEW S, NEW s \in Seq(S), NEW r \in Seq(S), NEW x \in S
  PROVE  s \o Append(r, x) = Append(s \o r, x)
<1>1. <<x>> \in Seq(S) /\ s \o r \in Seq(S)
  BY ConcatProperties
<1>2. Append(r, x) = r \o <<x>> /\ Append(s \o r, x) = (s \o r) \o <<x>>
  BY <1>1, AppendIsConcat
<1> QED
  BY <1>1, <1>2, ConcatAssociative

\* An item whose text is behind all other text.
LEMMA AppendInOrder ==
  ASSUME NEW s \in Seq(Item), InOrder(s), NEW x \in Item, Increasing(x.at),
         \A p \in TextOf(s), q \in ToSet(x.at) : p < q
  PROVE  /\ InOrder(Append(s, x))
         /\ TextOf(Append(s, x)) = TextOf(s) \cup ToSet(x.at)
<1> DEFINE r == Append(s, x)
           n == Len(s) + 1
<1>1. /\ DOMAIN r = 1..n /\ DOMAIN s = 1..Len(s) /\ Len(s) \in Nat
      /\ \A i \in DOMAIN s : r[i] = s[i]
      /\ r[n] = x
  BY AppendProperties
<1>2. /\ \A i \in DOMAIN r : i \in DOMAIN s \/ i = n
      /\ \A i \in DOMAIN s : i \in DOMAIN r /\ i < n
      /\ n \in DOMAIN r
  BY <1>1
<1> HIDE DEF r, n
<1>3. ASSUME NEW i \in DOMAIN r PROVE Increasing(r[i].at)
  BY <1>1, <1>2 DEF InOrder
<1>4. ASSUME NEW i \in DOMAIN r, NEW j \in DOMAIN r, i < j,
             NEW p \in ToSet(r[i].at), NEW q \in ToSet(r[j].at)
      PROVE  p < q
  <2>1. i \in DOMAIN s
    BY <1>1, <1>2, <1>4
  <2>2. CASE j \in DOMAIN s
    BY <1>1, <1>4, <2>1, <2>2 DEF InOrder
  <2>3. CASE j = n
    <3>1. p \in TextOf(s) /\ q \in ToSet(x.at)
      BY <1>1, <1>4, <2>1, <2>3 DEF TextOf
    <3> QED
      BY <3>1
  <2> QED
    BY <1>2, <2>2, <2>3
<1>5. InOrder(r)
  BY <1>3, <1>4 DEF InOrder
<1>6. TextOf(r) = TextOf(s) \cup ToSet(x.at)
  BY <1>1, <1>2 DEF TextOf
<1> QED
  BY <1>5, <1>6 DEF r

LEMMA TextOfType ==
  ASSUME NEW s \in Seq(Item)
  PROVE  TextOf(s) \subseteq Nat
<1> SUFFICES ASSUME NEW p \in TextOf(s) PROVE p \in Nat
  OBVIOUS
<1>1. PICK i \in DOMAIN s : p \in ToSet(s[i].at)
  BY DEF TextOf
<1>2. s[i] \in Item
  BY <1>1, ElementOfSeq
<1> DEFINE q == s[i].at
<1>3. q \in Seq(Nat) /\ p \in ToSet(q)
  BY <1>1, <1>2 DEF Item
<1> HIDE DEF q
<1> QED
  BY <1>3 DEF ToSet

LEMMA NoText ==
  /\ ToSet(<<>>) = {} /\ Increasing(<<>>)
  BY DEF ToSet, Increasing

-----------------------------------------------------------------------------
(* The terminal between the steps.                                         *)

\* The conditions of GateFollowsMode on a terminal.
Gated(t) ==
  /\ t.gate # (Sync \in t.enabled) => t.silent
  /\ ~t.gate => t.buffer = <<>>

\* The buffer refuses an item only after a limit was lowered to its size:
\* a write that reaches the limit empties it.
Bounded(t) ==
  /\ t.least <= t.limit
  /\ t.shrunk \/ t.size < t.limit

Sound(t) ==
  /\ t \in Terminal
  /\ t.pendingText = <<>>
  /\ Gated(t)
  /\ Bounded(t)
  /\ InOrder(Out(t))

\* The text that came out, or whose fate is known.
Accounted(t) == TextOf(Out(t)) \cup t.discarded \cup t.lost

\* Text of n bytes, with its header, exceeds some limit, or a limit was lowered.
Excuse(t, n) == t.shrunk \/ n + Header > t.least

\* A call that writes no text.
Quiet(t, u) ==
  /\ Sound(u)
  /\ IsPrefix(Out(t), Out(u))
  /\ TextOf(Out(u)) = TextOf(Out(t))
  /\ u.discarded = t.discarded
  /\ u.lost = t.lost
  /\ t.shrunk => u.shrunk
  /\ u.least <= t.least

\* The fields that a write leaves alone.
Same(t, u) ==
  /\ u.gate = t.gate /\ u.enabled = t.enabled /\ u.saved = t.saved
  /\ u.silent = t.silent /\ u.signals = t.signals
  /\ u.discarded = t.discarded /\ u.pendingText = t.pendingText
  /\ u.limit = t.limit /\ u.least = t.least /\ u.shrunk = t.shrunk

\* The fields that also a change of modes leaves alone.
Rest(t, u) ==
  /\ u.discarded = t.discarded /\ u.pendingText = t.pendingText
  /\ u.lost = t.lost /\ u.limit = t.limit /\ u.least = t.least
  /\ u.shrunk = t.shrunk

LEMMA OutType ==
  ASSUME NEW t \in Terminal
  PROVE  /\ t.rendered \in Seq(Item) /\ t.buffer \in Seq(Item)
         /\ Out(t) \in Seq(Item)
<1>1. t.rendered \in Seq(Item) /\ t.buffer \in Seq(Item)
  BY DEF Terminal
<1> QED
  BY <1>1, ConcatProperties DEF Out

LEMMA FieldTypes ==
  ASSUME NEW t \in Terminal
  PROVE  /\ t.gate \in BOOLEAN /\ t.size \in Nat /\ t.limit \in Nat
         /\ t.least \in Nat /\ t.shrunk \in BOOLEAN /\ t.dropped \in BOOLEAN
         /\ t.lost \in SUBSET Nat /\ t.discarded \in SUBSET Nat
  BY DEF Terminal

LEMMA FlushFacts ==
  ASSUME NEW t \in Terminal
  PROVE  LET u == FlushBuffer(t)
         IN  /\ u \in Terminal /\ u.buffer = <<>> /\ Out(u) = Out(t)
             /\ Same(t, u) /\ u.lost = t.lost
             /\ Bounded(t) => Bounded(u)
<1> DEFINE o == t.rendered \o t.buffer
           u == [t EXCEPT !.rendered = o, !.buffer = <<>>, !.size = 0]
<1>1. o \in Seq(Item) /\ <<>> \in Seq(Item)
  BY OutType DEF Out
<1>2. FlushBuffer(t) = u /\ o = Out(t)
  BY DEF FlushBuffer, Out, Terminal
<1> HIDE DEF o
<1>3. u.rendered = o /\ u.buffer = <<>> /\ u.size = 0 /\ u \in Terminal
  BY <1>1 DEF Terminal
<1>4. Same(t, u) /\ u.lost = t.lost
  BY DEF Same, Terminal
<1> HIDE DEF u
<1>5. Out(u) = o
  <2>1. o \o <<>> = o
    BY <1>1, ConcatEmptySeq
  <2> QED
    BY <1>3, <2>1 DEF Out
<1>6. Bounded(t) => Bounded(u)
  BY <1>3, <1>4, FieldTypes DEF Bounded, Same
<1> QED
  BY <1>2, <1>3, <1>4, <1>5, <1>6

\* left(n) keeps the first bytes, and all of them when there are no more.
LEMMA LeftFacts ==
  ASSUME NEW s \in Seq(Nat), NEW n \in Nat
  PROVE  /\ Left(s, n) \in Seq(Nat)
         /\ ToSet(Left(s, n)) \subseteq ToSet(s)
         /\ Increasing(s) => Increasing(Left(s, n))
         /\ Len(s) <= n => Left(s, n) = s
         /\ s = <<>> => Left(s, n) = <<>>
<1> DEFINE k == IF n < Len(s) THEN n ELSE Len(s)
           r == SubSeq(s, 1, k)
<1>1. /\ k \in 0..Len(s) /\ Len(s) \in Nat /\ (Len(s) <= n => k = Len(s))
      /\ \A i \in 1..k : i \in 1..Len(s)
  <2> DEFINE m == Len(s)
  <2>1. m \in Nat /\ k = IF n < m THEN n ELSE m
    OBVIOUS
  <2> HIDE DEF m, k
  <2>2. k \in 0..m /\ (m <= n => k = m)
    BY <2>1
  <2>3. \A i \in 1..k : i \in 1..m
    BY <2>1, <2>2
  <2> QED
    BY <2>1, <2>2, <2>3 DEF m
<1>2. Left(s, n) = r
  BY DEF Left
<1>3. DOMAIN s = 1..Len(s) /\ \A i \in 1..Len(s) : s[i] \in Nat
  OBVIOUS
<1> HIDE DEF k
<1>4. /\ r \in Seq(Nat) /\ Len(r) = k
      /\ DOMAIN r = 1..k /\ \A i \in 1..k : r[i] = s[i]
  <2>1. 1 \in Int /\ k \in Int /\ \A i \in 1..k : s[i] \in Nat
    <3>1. k \in Int
      BY <1>1
    <3>2. \A i \in 1..k : s[i] \in Nat
      <4> TAKE i \in 1..k
      <4>1. i \in 1..Len(s)
        BY <1>1
      <4> QED
        BY <1>3, <4>1
    <3> QED
      BY <3>1, <3>2
  <2>2. /\ r \in Seq(Nat) /\ Len(r) = IF 1 <= k THEN k - 1 + 1 ELSE 0
        /\ \A i \in 1..(k - 1 + 1) : r[i] = s[1 + i - 1]
    BY <2>1, SubSeqProperties
  <2> HIDE DEF r
  <2>3. Len(r) = k /\ DOMAIN r = 1..Len(r)
    BY <1>1, <2>2
  <2>4. \A i \in 1..k : r[i] = s[i]
    BY <1>1, <2>2
  <2> QED
    BY <2>2, <2>3, <2>4
<1>5. Len(s) <= n => r = s
  BY <1>1
<1>6. s = <<>> => r = <<>>
  BY <1>1, <1>4
<1> HIDE DEF r
<1>7. \A i \in DOMAIN r : i \in DOMAIN s /\ r[i] = s[i]
  <2> TAKE i \in DOMAIN r
  <2>1. i \in 1..k
    BY <1>4
  <2> QED
    BY <1>1, <1>3, <1>4, <2>1
<1>8. ToSet(r) \subseteq ToSet(s)
  BY <1>7 DEF ToSet
<1>9. Increasing(s) => Increasing(r)
  BY <1>7 DEF Increasing
<1> QED
  BY <1>2, <1>4, <1>5, <1>6, <1>8, <1>9

\* What the buffer keeps of an item with len bytes of data.
Kept(t, item, len, kept) ==
  /\ kept \in Item
  /\ ToSet(kept.at) \subseteq ToSet(item.at)
  /\ Increasing(item.at) => Increasing(kept.at)
  /\ kept.at = item.at \/ (len + Header > t.least /\ item.at # <<>>)

LEMMA AppendItemFacts ==
  ASSUME NEW t \in Terminal, t.least <= t.limit, NEW item \in Item,
         NEW len \in Nat, item.at = <<>> \/ len = Len(item.at)
  PROVE  LET u == AppendItem(t, item, len)
         IN  /\ u \in Terminal /\ Same(t, u) /\ u.rendered = t.rendered
             /\ t.size >= t.limit =>
                  /\ u.buffer = t.buffer /\ u.size = t.size
                  /\ u.lost = t.lost \cup ToSet(item.at)
             /\ t.size < t.limit =>
                  \E kept : /\ Kept(t, item, len, kept)
                            /\ u.buffer = Append(t.buffer, kept)
                            /\ u.lost = t.lost \cup
                                 (ToSet(item.at) \ ToSet(kept.at))
<1> DEFINE room == IF Header + len > t.limit THEN t.limit \div 2 ELSE len
           at   == item.at
           part == Left(at, room)
           kept == [item EXCEPT !.at = part]
           more == IF room < len THEN room ELSE len
           size == t.size + Header + more
           all  == t.lost \cup ToSet(at)
           rest == t.lost \cup (ToSet(at) \ ToSet(part))
           b    == Append(t.buffer, kept)
           no   == [t EXCEPT !.lost = all, !.dropped = TRUE]
           yes  == [t EXCEPT !.buffer = b, !.size = size, !.lost = rest]
           u    == AppendItem(t, item, len)
<1>1. Header \in Nat /\ t.limit \in Nat /\ t.least \in Nat /\ t.size \in Nat
  BY HandlerAssumption, FieldTypes
<1>2. room \in Nat /\ (Header + len <= t.limit => room = len)
  BY <1>1
<1>3. at \in Seq(Nat)
  BY DEF Item
<1>4. /\ part \in Seq(Nat) /\ ToSet(part) \subseteq ToSet(at)
      /\ Increasing(at) => Increasing(part)
      /\ Len(at) <= room => part = at
      /\ at = <<>> => part = <<>>
  BY <1>2, <1>3, LeftFacts
<1>5. ToSet(at) \subseteq Nat
  <2> HIDE DEF at
  <2> QED
    BY <1>3 DEF ToSet
<1>6. t.lost \in SUBSET Nat /\ t.buffer \in Seq(Item)
  BY FieldTypes, OutType
<1>7. size \in Nat
  BY <1>1, <1>2
<1>8. u = IF t.size >= t.limit THEN no ELSE yes
  BY DEF AppendItem, Terminal, Item
<1>9. part = at \/ (len + Header > t.least /\ at # <<>>)
  <2>1. CASE Header + len <= t.limit
    BY <1>2, <1>4, <2>1
  <2>2. CASE ~(Header + len <= t.limit)
    BY <1>1, <1>4, <2>2
  <2> QED
    BY <2>1, <2>2
<1> HIDE DEF room, part, size, all, rest
<1>10. kept \in Item /\ kept.at = part
  BY <1>4 DEF Item
<1> HIDE DEF kept
<1>11. Kept(t, item, len, kept)
  BY <1>4, <1>9, <1>10 DEF Kept
<1>12. b \in Seq(Item)
  BY <1>6, <1>10, AppendProperties
<1>13. all \in SUBSET Nat /\ rest \in SUBSET Nat
  BY <1>5, <1>6 DEF all, rest
<1> HIDE DEF b
<1>14. /\ no \in Terminal /\ Same(t, no) /\ no.rendered = t.rendered
       /\ no.buffer = t.buffer /\ no.size = t.size /\ no.lost = all
  BY <1>13 DEF Terminal, Same
<1>15. /\ yes \in Terminal /\ Same(t, yes) /\ yes.rendered = t.rendered
       /\ yes.buffer = b /\ yes.lost = rest
  BY <1>7, <1>12, <1>13 DEF Terminal, Same
<1> HIDE DEF no, yes, u
<1>16. CASE t.size >= t.limit
  <2>1. u = no /\ ~(t.size < t.limit)
    BY <1>1, <1>8, <1>16
  <2> QED
    BY <1>14, <1>16, <2>1 DEF all, u
<1>17. CASE ~(t.size >= t.limit)
  <2>1. u = yes
    BY <1>8, <1>17
  <2>2. rest = t.lost \cup (ToSet(item.at) \ ToSet(kept.at))
    BY <1>10 DEF rest
  <2>3. u.buffer = Append(t.buffer, kept)
    BY <1>15, <2>1 DEF b
  <2> QED
    BY <1>11, <1>15, <1>17, <2>1, <2>2, <2>3 DEF u
<1> QED
  BY <1>16, <1>17

\* SynchronizedBuffer::write refuses the item, or puts what it keeps of it
\* behind all the others.
LEMMA WriteFacts ==
  ASSUME NEW t \in Terminal, ~t.gate => t.buffer = <<>>, Bounded(t),
         NEW item \in Item, NEW len \in Nat, NEW late \in BOOLEAN,
         item.at = <<>> \/ len = Len(item.at)
  PROVE  LET u == Write(t, item, len, late)
         IN  /\ u \in Terminal /\ Same(t, u) /\ Bounded(u)
             /\ ~u.gate => u.buffer = <<>>
             /\ \/ /\ t.shrunk /\ Out(u) = Out(t)
                   /\ u.lost = t.lost \cup ToSet(item.at)
                \/ \E kept : /\ Kept(t, item, len, kept)
                             /\ Out(u) = Append(Out(t), kept)
                             /\ u.lost = t.lost \cup
                                  (ToSet(item.at) \ ToSet(kept.at))
<1> DEFINE r == Append(t.rendered, item)
           direct == [t EXCEPT !.rendered = r]
           a == AppendItem(t, item, len)
           u == Write(t, item, len, late)
<1>1. /\ t.gate \in BOOLEAN /\ t.size \in Nat /\ t.limit \in Nat
      /\ t.least <= t.limit /\ (t.shrunk \/ t.size < t.limit)
  BY FieldTypes DEF Bounded
<1>2. r \in Seq(Item) /\ <<>> \in Seq(Item)
  BY OutType, AppendProperties
<1> SUFFICES /\ u \in Terminal /\ Same(t, u) /\ Bounded(u)
             /\ ~u.gate => u.buffer = <<>>
             /\ \/ /\ t.shrunk /\ Out(u) = Out(t)
                   /\ u.lost = t.lost \cup ToSet(item.at)
                \/ \E kept : /\ Kept(t, item, len, kept)
                             /\ Out(u) = Append(Out(t), kept)
                             /\ u.lost = t.lost \cup
                                  (ToSet(item.at) \ ToSet(kept.at))
  OBVIOUS
<1>3. CASE ~t.gate
  <2>1. u = direct
    BY <1>3 DEF Write, Terminal
  <2>2. t.rendered \o <<>> = t.rendered /\ r \o <<>> = r
    BY <1>2, OutType, ConcatEmptySeq
  <2>3. Out(t) = t.rendered
    BY <1>3, <2>2 DEF Out
  <2>4. r = Append(Out(t), item)
    BY <2>3
  <2> HIDE DEF r, u
  <2>5. /\ direct \in Terminal /\ direct.rendered = r
        /\ direct.buffer = t.buffer /\ direct.lost = t.lost
        /\ direct.size = t.size
    BY <1>2 DEF Terminal
  <2>6. Same(t, direct)
    BY DEF Same, Terminal
  <2> HIDE DEF direct
  <2>7. Out(u) = Append(Out(t), item)
    BY <1>3, <2>1, <2>2, <2>4, <2>5 DEF Out
  <2>8. Bounded(u) /\ (~u.gate => u.buffer = <<>>)
    BY <1>3, <2>1, <2>5, <2>6 DEF Bounded, Same
  <2>9. Kept(t, item, len, item)
    BY DEF Kept
  <2>10. u.lost = t.lost \cup (ToSet(item.at) \ ToSet(item.at))
    BY <2>1, <2>5
  <2> QED
    BY <2>1, <2>5, <2>6, <2>7, <2>8, <2>9, <2>10
<1>4. CASE t.gate
  <2>1. u = IF t.size < t.limit /\ (a.size >= a.limit \/ late)
            THEN FlushBuffer(a) ELSE a
    BY <1>4 DEF Write
  <2>2. /\ a \in Terminal /\ Same(t, a) /\ a.rendered = t.rendered
        /\ t.size >= t.limit =>
             /\ a.buffer = t.buffer /\ a.size = t.size
             /\ a.lost = t.lost \cup ToSet(item.at)
        /\ t.size < t.limit =>
             \E kept : /\ Kept(t, item, len, kept)
                       /\ a.buffer = Append(t.buffer, kept)
                       /\ a.lost = t.lost \cup
                            (ToSet(item.at) \ ToSet(kept.at))
    BY <1>1, AppendItemFacts
  <2> HIDE DEF a, u
  <2>3. a.gate /\ a.least <= a.limit /\ a.limit = t.limit
    BY <1>1, <1>4, <2>2 DEF Same
  <2>4. CASE t.size >= t.limit
    <3>1. u = a /\ t.shrunk
      BY <1>1, <2>1, <2>4
    <3>2. Out(a) = Out(t)
      BY <2>2, <2>4 DEF Out
    <3>3. Bounded(a)
      BY <1>1, <2>2, <3>1 DEF Bounded, Same
    <3> QED
      BY <2>2, <2>3, <2>4, <3>1, <3>2, <3>3
  <2>5. CASE t.size < t.limit
    <3>1. PICK kept : /\ Kept(t, item, len, kept)
                      /\ a.buffer = Append(t.buffer, kept)
                      /\ a.lost = t.lost \cup
                           (ToSet(item.at) \ ToSet(kept.at))
      BY <2>2, <2>5
    <3>2. Out(a) = Append(Out(t), kept)
      <4> DEFINE x == t.rendered
                 y == t.buffer
      <4>1. x \in Seq(Item) /\ y \in Seq(Item) /\ kept \in Item
        BY <3>1, OutType DEF Kept
      <4>2. Out(a) = x \o Append(y, kept) /\ Out(t) = x \o y
        BY <2>2, <3>1 DEF Out
      <4> HIDE DEF x, y
      <4>3. x \o Append(y, kept) = Append(x \o y, kept)
        BY <4>1, AppendConcat
      <4> QED
        BY <4>2, <4>3
    <3>3. CASE a.size >= a.limit \/ late
      <4> DEFINE f == FlushBuffer(a)
      <4>1. u = f
        BY <2>1, <2>5, <3>3
      <4>2. /\ f \in Terminal /\ f.buffer = <<>> /\ Out(f) = Out(a)
            /\ Same(a, f) /\ f.lost = a.lost
        BY <2>2, FlushFacts
      <4>3. f.size = 0
        BY <2>2 DEF FlushBuffer, Terminal
      <4> HIDE DEF f
      <4>4. Bounded(f)
        BY <1>1, <2>3, <2>5, <4>2, <4>3 DEF Bounded, Same
      <4>5. Same(t, f)
        BY <2>2, <4>2 DEF Same
      <4> QED
        BY <3>1, <3>2, <4>1, <4>2, <4>4, <4>5
    <3>4. CASE ~(a.size >= a.limit \/ late)
      <4>1. u = a
        BY <2>1, <3>4
      <4>2. a.size < a.limit
        BY <2>2, <3>4, FieldTypes
      <4>3. Bounded(a)
        BY <2>3, <4>2 DEF Bounded
      <4> QED
        BY <2>2, <2>3, <3>1, <3>2, <4>1, <4>3
    <3> QED
      BY <3>3, <3>4
  <2> QED
    BY <1>1, <2>4, <2>5
<1> QED
  BY <1>1, <1>3, <1>4

\* Nothing is pending between two steps, so there is nothing to flush.
LEMMA NothingPending ==
  ASSUME NEW t, Sound(t), NEW late
  PROVE  FlushPendingText(t, late) = t
  BY DEF FlushPendingText, Sound

LEMMA SoundOut ==
  ASSUME NEW t, Sound(t)
  PROVE  /\ t \in Terminal /\ Out(t) \in Seq(Item) /\ InOrder(Out(t))
         /\ ~t.gate => t.buffer = <<>>
         /\ IsPrefix(Out(t), Out(t)) /\ t.least <= t.least
<1>1. t \in Terminal /\ InOrder(Out(t)) /\ (~t.gate => t.buffer = <<>>)
  BY DEF Sound, Gated
<1>2. Out(t) \in Seq(Item) /\ t.least <= t.least
  BY <1>1, OutType, FieldTypes
<1>3. IsPrefix(Out(t), Out(t))
  BY <1>2 DEF IsPrefix
<1> QED
  BY <1>1, <1>2, <1>3

\* Gated only looks at four fields, and an item changes none but the buffer.
LEMMA GatedSame ==
  ASSUME NEW t, NEW u, Gated(t), u.gate = t.gate, u.enabled = t.enabled,
         u.silent = t.silent, ~u.gate => u.buffer = <<>>
  PROVE  Gated(u)
  BY DEF Gated

\* handleSGR, handleCursorMove and handleErase.
LEMMA ObeyFacts ==
  ASSUME NEW t, Sound(t), NEW item \in Item, NEW len \in Nat,
         NEW late \in BOOLEAN, item.at = <<>>
  PROVE  Quiet(t, Obey(t, item, len, late))
<1> DEFINE w == Write(t, item, len, late)
           s == Append(w.signals, item)
           u == [w EXCEPT !.signals = s]
<1>1. Obey(t, item, len, late) = u
  <2>1. FlushPendingText(t, late) = t
    BY NothingPending
  <2> QED
    BY <2>1 DEF Obey
<1>2. /\ Bounded(t) /\ Gated(t) /\ t.pendingText = <<>> /\ t \in Terminal
      /\ ~t.gate => t.buffer = <<>>
  BY DEF Sound, Gated
<1>3. /\ w \in Terminal /\ Same(t, w) /\ Bounded(w)
      /\ ~w.gate => w.buffer = <<>>
      /\ \/ /\ t.shrunk /\ Out(w) = Out(t)
            /\ w.lost = t.lost \cup ToSet(item.at)
         \/ \E kept : /\ Kept(t, item, len, kept)
                      /\ Out(w) = Append(Out(t), kept)
                      /\ w.lost = t.lost \cup
                           (ToSet(item.at) \ ToSet(kept.at))
  BY <1>2, WriteFacts
<1> HIDE DEF w
<1>4. s \in Seq(Item)
  <2>1. w.signals \in Seq(Item)
    BY <1>3 DEF Terminal
  <2> QED
    BY <2>1, AppendProperties
<1> HIDE DEF s
<1>5. /\ u \in Terminal /\ u.gate = w.gate /\ u.enabled = w.enabled
      /\ u.silent = w.silent /\ u.discarded = w.discarded
      /\ u.pendingText = w.pendingText /\ u.rendered = w.rendered
      /\ u.buffer = w.buffer /\ u.size = w.size /\ u.limit = w.limit
      /\ u.least = w.least /\ u.shrunk = w.shrunk /\ u.lost = w.lost
  BY <1>3, <1>4 DEF Terminal
<1> HIDE DEF u
<1>6. /\ InOrder(Out(u)) /\ TextOf(Out(u)) = TextOf(Out(t))
      /\ IsPrefix(Out(t), Out(u)) /\ u.lost = t.lost
  <2>1. Out(u) = Out(w)
    BY <1>5 DEF Out
  <2>2. CASE Out(w) = Out(t) /\ w.lost = t.lost \cup ToSet(item.at)
    BY <1>5, <2>1, <2>2, SoundOut, NoText
  <2>3. CASE \E kept : /\ Kept(t, item, len, kept)
                       /\ Out(w) = Append(Out(t), kept)
                       /\ w.lost = t.lost \cup
                            (ToSet(item.at) \ ToSet(kept.at))
    <3>1. PICK kept : /\ Kept(t, item, len, kept)
                      /\ Out(w) = Append(Out(t), kept)
                      /\ w.lost = t.lost \cup
                           (ToSet(item.at) \ ToSet(kept.at))
      BY <2>3
    <3>2. kept \in Item /\ kept.at = <<>>
      BY <3>1 DEF Kept
    <3> QED
      BY <1>5, <2>1, <3>1, <3>2, SoundOut, AppendInOrder, NoText,
         PrefixOfAppend
  <2> QED
    BY <1>3, <2>2, <2>3
<1>7. Gated(u)
  BY <1>2, <1>3, <1>5, GatedSame DEF Same
<1>8. Sound(u)
  BY <1>2, <1>3, <1>5, <1>6, <1>7 DEF Sound, Bounded, Same
<1> QED
  BY <1>1, <1>3, <1>5, <1>6, <1>8, SoundOut DEF Quiet, Same

\* setMode, resetMode and the slot of modeChanged.
LEMMA ChangeModeFacts ==
  ASSUME NEW t, Sound(t), NEW m \in Modes, NEW on \in BOOLEAN
  PROVE  LET u == ChangeMode(t, m, on)
         IN  /\ Quiet(t, u)
             /\ m = Sync => (Sync \in u.enabled <=> on)
<1> DEFINE e == IF on THEN t.enabled \cup {m} ELSE t.enabled \ {m}
           q == IF m = Sync THEN FALSE ELSE t.silent
           v == [t EXCEPT !.enabled = e, !.silent = q]
           u == ChangeMode(t, m, on)
<1>1. /\ t \in Terminal /\ t.enabled \in SUBSET Modes /\ t.silent \in BOOLEAN
      /\ t.gate \in BOOLEAN
  BY SoundOut DEF Terminal
<1>2. CASE (m \in t.enabled) = on
  <2>1. u = t
    BY <1>2 DEF ChangeMode
  <2>2. Quiet(t, t)
    BY SoundOut DEF Quiet
  <2> QED
    BY <1>2, <2>1, <2>2
<1>3. CASE (m \in t.enabled) # on
  <2> SUFFICES Quiet(t, u) /\ (m = Sync => (Sync \in u.enabled <=> on))
    OBVIOUS
  <2>1. u = OnModeChanged(v, m, on)
    BY <1>1, <1>3 DEF ChangeMode, Terminal
  <2>2. /\ e \in SUBSET Modes /\ q \in BOOLEAN
        /\ m = Sync => (Sync \in e <=> on) /\ q = FALSE
        /\ m # Sync => (Sync \in e <=> Sync \in t.enabled) /\ q = t.silent
    BY <1>1
  <2> HIDE DEF e, q, u
  <2>3. /\ v \in Terminal /\ v.enabled = e /\ v.silent = q
        /\ v.gate = t.gate /\ v.rendered = t.rendered /\ v.buffer = t.buffer
        /\ v.size = t.size /\ Rest(t, v)
    BY <1>1, <2>2 DEF Terminal, Rest
  <2> HIDE DEF v
  <2>4. Out(v) = Out(t)
    BY <2>3 DEF Out
  <2>5. t.pendingText = <<>> /\ Gated(t) /\ Bounded(t)
    BY DEF Sound
  <2>6. ASSUME u \in Terminal, Out(u) = Out(t), u.enabled = e, Rest(t, u),
               Gated(u), Bounded(u)
        PROVE  Quiet(t, u) /\ (m = Sync => (Sync \in u.enabled <=> on))
    <3>1. Sound(u)
      BY <2>5, <2>6, SoundOut DEF Sound, Rest
    <3> QED
      BY <2>2, <2>6, <3>1, SoundOut DEF Quiet, Rest
  <2>11. Bounded(v)
    BY <2>3, <2>5 DEF Bounded, Rest
  <2>7. CASE m # Sync
    <3>1. u = v
      BY <2>1, <2>7 DEF OnModeChanged
    <3>2. Gated(v)
      BY <2>2, <2>3, <2>5, <2>7 DEF Gated
    <3> QED
      BY <2>3, <2>4, <2>6, <2>11, <3>1, <3>2
  <2>8. CASE m = Sync /\ t.gate = on
    <3>1. u = v
      BY <2>1, <2>3, <2>8 DEF OnModeChanged
    <3>2. Gated(v)
      BY <1>1, <2>2, <2>3, <2>5, <2>8 DEF Gated
    <3> QED
      BY <2>3, <2>4, <2>6, <2>11, <3>1, <3>2
  <2>9. CASE m = Sync /\ t.gate # on /\ on
    <3> DEFINE z == [v EXCEPT !.gate = TRUE]
    <3>1. u = z
      BY <2>1, <2>3, <2>9 DEF OnModeChanged
    <3>2. /\ z \in Terminal /\ z.gate = TRUE /\ z.enabled = v.enabled
          /\ z.silent = v.silent /\ z.rendered = v.rendered
          /\ z.buffer = v.buffer /\ z.size = v.size /\ Rest(v, z)
      BY <2>3 DEF Terminal, Rest
    <3> HIDE DEF z
    <3>3. Out(z) = Out(v) /\ Bounded(z) /\ Rest(t, z)
      BY <2>3, <2>11, <3>2 DEF Out, Bounded, Rest
    <3>4. Gated(z)
      BY <2>2, <2>3, <2>9, <3>2 DEF Gated
    <3> QED
      BY <2>3, <2>4, <2>6, <3>1, <3>2, <3>3, <3>4
  <2>10. CASE m = Sync /\ t.gate # on /\ ~on
    <3> DEFINE z == [v EXCEPT !.gate = FALSE]
               f == FlushBuffer(z)
    <3>1. u = f
      BY <2>1, <2>3, <2>10 DEF OnModeChanged
    <3>2. /\ z \in Terminal /\ z.gate = FALSE /\ z.enabled = v.enabled
          /\ z.silent = v.silent /\ z.rendered = v.rendered
          /\ z.buffer = v.buffer /\ z.size = v.size /\ Rest(v, z)
      BY <2>3 DEF Terminal, Rest
    <3> HIDE DEF z
    <3>3. Out(z) = Out(v) /\ Bounded(z) /\ Rest(t, z)
      BY <2>3, <2>11, <3>2 DEF Out, Bounded, Rest
    <3>4. /\ f \in Terminal /\ f.buffer = <<>> /\ Out(f) = Out(z)
          /\ f.gate = z.gate /\ f.enabled = z.enabled
          /\ f.silent = z.silent /\ Rest(t, f) /\ Bounded(f)
      BY <3>2, <3>3, FlushFacts DEF Same, Rest
    <3> HIDE DEF f
    <3>5. f.gate = FALSE /\ Sync \notin f.enabled /\ f.buffer = <<>>
      BY <2>2, <2>3, <2>10, <3>2, <3>4
    <3>6. Gated(f)
      <4>1. (Sync \in f.enabled) = FALSE
        BY <3>5
      <4>2. f.gate = (Sync \in f.enabled)
        BY <3>5, <4>1
      <4> QED
        BY <3>5, <4>2 DEF Gated
    <3> QED
      BY <2>3, <2>4, <2>6, <3>1, <3>2, <3>3, <3>4, <3>6
  <2> QED
    BY <1>1, <2>7, <2>8, <2>9, <2>10
<1> QED
  BY <1>1, <1>2, <1>3

\* The modes that handleDECSET and handleDECRST know of.
LEMMA ModeOfType ==
  ASSUME NEW c \in Command
  PROVE  ModeOf(c) \in Modes \cup {NoMode}
<1> DEFINE p == Head(c.params)
           private == c.isPrivate
<1>1. private \in BOOLEAN
  BY DEF Command
<1>2. ModeOf(c) = CASE p = 25   -> "SHOW_CURSOR"
                    [] p = 1047 -> "ALTERNATE_SCREEN"
                    [] p = 1049 -> "ALTERNATE_SCREEN_NO_CLEAR"
                    [] p = 2004 -> "BRACKETED_PASTE"
                    [] p = 2026 /\ private -> Sync
                    [] OTHER    -> NoMode
  BY DEF ModeOf
<1> HIDE DEF p, private
<1> QED
  BY <1>1, <1>2 DEF Modes, Sync, NoMode

\* The final bytes of the cursor commands are those that handleCursorMove
\* tells apart.
LEMMA CursorFinals ==
  ASSUME NEW c \in Command, c.type = "CURSOR"
  PROVE  c.final \in {65, 66, 67, 68, 69, 70, 71, 72, 102}
<1> DEFINE f == c.final
           private == c.isPrivate
           bang == Bang \in Range(c.intermediate)
<1>1. private \in BOOLEAN /\ bang \in BOOLEAN
  BY DEF Command
<1>2. "CURSOR" =
        CASE f \in {65, 66, 67, 68, 69, 70, 71, 72, 102} -> "CURSOR"
          [] f \in {74, 75}  -> "ERASE"
          [] f = 109         -> "SELECT_GRAPHIC"
          [] f = 104         -> IF private THEN "DECSET_PRIVATE" ELSE "DECSET"
          [] f = 108         -> IF private THEN "DECRST_PRIVATE" ELSE "DECRST"
          [] f = 112 /\ bang -> "SOFT_RESET"
          [] f \in {83, 84, 110, 115, 117} -> "OTHER"
          [] OTHER           -> "UNKNOWN"
  <2>1. c.type = CommandType(c.final, c.isPrivate, c.intermediate)
    BY DEF Command
  <2> QED
    BY <2>1 DEF CommandType
<1> HIDE DEF f, private, bang
<1>3. f \in {65, 66, 67, 68, 69, 70, 71, 72, 102}
  BY <1>1, <1>2
<1> QED
  BY <1>3 DEF f

LEMMA CursorTargetType ==
  ASSUME NEW c \in Command, c.type = "CURSOR"
  PROVE  CursorTarget(c)[1] \in Int /\ CursorTarget(c)[2] \in Int
<1> DEFINE n   == IF c.params = <<>> THEN 1 ELSE Head(c.params)
           col == IF Len(c.params) > 1 THEN c.params[2] ELSE 1
           f   == c.final
           row0 == IF n > 0 THEN n - 1 ELSE 0
           col0 == IF col > 0 THEN col - 1 ELSE 0
           up   == Int32(-n)
           left == Int32(n - 1)
<1>1. n \in Int /\ col \in Int
  <2> DEFINE q == c.params
  <2>1. q \in Seq(Ints)
    BY DEF Command
  <2>2. Ints \subseteq Int
    BY MachineAssumption DEF Ints
  <2> HIDE DEF q
  <2>3. q # <<>> => Head(q) \in Ints
    BY <2>1
  <2>4. Len(q) > 1 => q[2] \in Ints
    <3> HAVE Len(q) > 1
    <3>1. 2 \in DOMAIN q
      BY <2>1
    <3> QED
      BY <2>1, <3>1
  <2>5. /\ n = IF q = <<>> THEN 1 ELSE Head(q)
        /\ col = IF Len(q) > 1 THEN q[2] ELSE 1
    BY DEF q
  <2> HIDE DEF n, col
  <2>6. n \in Int
    BY <2>2, <2>3, <2>5
  <2>7. col \in Int
    <3>1. CASE Len(q) > 1
      <4>1. q[2] \in Ints /\ col = q[2]
        BY <2>4, <2>5, <3>1
      <4> QED
        BY <2>2, <4>1
    <3>2. CASE ~(Len(q) > 1)
      BY <2>5, <3>2
    <3> QED
      BY <3>1, <3>2
  <2> QED
    BY <2>6, <2>7
<1>2. CursorTarget(c) =
        CASE f \in {65, 70}  -> <<up, 0>>
          [] f \in {66, 69}  -> <<n, 0>>
          [] f = 67          -> <<0, n>>
          [] f = 68          -> <<0, up>>
          [] f = 71          -> <<0, left>>
          [] f \in {72, 102} -> <<row0, col0>>
  BY DEF CursorTarget
<1> HIDE DEF n, col
<1>3. up \in Int /\ left \in Int
  <2>1. -n \in Int /\ n - 1 \in Int
    BY <1>1
  <2>2. Ints \subseteq Int
    BY MachineAssumption DEF Ints
  <2> QED
    BY <2>1, <2>2, Int32Type
<1>4. row0 \in Int /\ col0 \in Int
  BY <1>1
<1>5. f \in {65, 66, 67, 68, 69, 70, 71, 72, 102}
  BY CursorFinals
<1> HIDE DEF f, up, left, row0, col0
<1>6. CASE f \in {65, 70}
  BY <1>2, <1>3, <1>6 DEF f
<1>7. CASE f \in {66, 69}
  BY <1>1, <1>2, <1>7 DEF f
<1>8. CASE f \in {67, 68, 71}
  BY <1>1, <1>2, <1>3, <1>8 DEF f
<1>9. CASE f \in {72, 102}
  <2>1. CursorTarget(c) = <<row0, col0>>
    BY <1>2, <1>9
  <2> QED
    BY <1>4, <2>1
<1> QED
  BY <1>5, <1>6, <1>7, <1>8, <1>9

LEMMA ItemType ==
  ASSUME NEW k \in Kinds, NEW rc, rc[1] \in Int, rc[2] \in Int
  PROVE  /\ CommandItem(k, rc) \in Item /\ CommandItem(k, rc).at = <<>>
         /\ CommandItem(k, rc).kind = k
         /\ CommandItem(k, rc).row = rc[1] /\ CommandItem(k, rc).col = rc[2]
  BY DEF CommandItem, Item

\* A command writes no text and takes nothing back.
LEMMA ProcessCommandFacts ==
  ASSUME NEW t, Sound(t), NEW c \in Command,
         NEW len \in DataLengths(c), NEW late \in BOOLEAN
  PROVE  Quiet(t, ProcessCommand(t, c, len, late))
<1> DEFINE mode  == ModeOf(c)
           sets  == c.type \in {"DECSET", "DECSET_PRIVATE"}
           modal == c.type \in {"DECSET", "DECSET_PRIVATE", "DECRST",
                                "DECRST_PRIVATE"}
           u == ProcessCommand(t, c, len, late)
           goto  == CommandItem("cursor", CursorTarget(c))
           erase == CommandItem("erase", <<EraseMode(c), 0>>)
           sgr   == CommandItem("attribute", <<0, 0>>)
<1>1. Quiet(t, t) /\ len \in Nat
  <2>1. len \in Nat
    <3> DEFINE k == Len(c.params)
    <3>1. k \in Nat
      BY DEF Command
    <3>2. len \in (2 * k)..(12 * k) \/ len = 0
      BY DEF DataLengths
    <3> HIDE DEF k
    <3> QED
      BY <3>1, <3>2
  <2> QED
    BY <2>1, SoundOut DEF Quiet
<1>2. CASE modal
  <2>1. u = IF c.params = <<>> \/ mode = NoMode THEN t
            ELSE ChangeMode(t, mode, sets)
    BY <1>2 DEF ProcessCommand
  <2>2. mode \in Modes \/ mode = NoMode
    BY ModeOfType
  <2>3. sets \in BOOLEAN
    OBVIOUS
  <2> HIDE DEF mode, sets
  <2>4. CASE u = t
    BY <1>1, <2>4
  <2>5. CASE mode \in Modes /\ u = ChangeMode(t, mode, sets)
    BY <2>3, <2>5, ChangeModeFacts
  <2> QED
    BY <2>1, <2>2, <2>4, <2>5
<1>3. CASE c.type = "CURSOR"
  <2>1. u = Obey(t, goto, len, late)
    BY <1>3 DEF ProcessCommand
  <2>2. "cursor" \in Kinds
    BY DEF Kinds
  <2> HIDE DEF goto
  <2>3. goto \in Item /\ goto.at = <<>>
    BY <1>3, <2>2, ItemType, CursorTargetType DEF goto
  <2> QED
    BY <1>1, <2>1, <2>3, ObeyFacts
<1>4. CASE c.type = "ERASE"
  <2>1. u = Obey(t, erase, len, late)
    BY <1>4 DEF ProcessCommand
  <2> DEFINE e == EraseMode(c)
             rc == <<e, 0>>
  <2>2. e \in Int
    <3> DEFINE q == c.params
    <3>1. q \in Seq(Ints) /\ Ints \subseteq Int
      BY MachineAssumption DEF Command, Ints
    <3>2. e = IF q = <<>> THEN 0 ELSE Head(q)
      BY DEF EraseMode
    <3> HIDE DEF q, e
    <3> QED
      BY <3>1, <3>2
  <2>3. erase = CommandItem("erase", rc)
    OBVIOUS
  <2>4. rc[1] \in Int /\ rc[2] \in Int
    BY <2>2
  <2>5. "erase" \in Kinds
    BY DEF Kinds
  <2> HIDE DEF rc, erase
  <2>6. erase \in Item /\ erase.at = <<>>
    BY <2>3, <2>4, <2>5, ItemType
  <2> QED
    BY <1>1, <2>1, <2>6, ObeyFacts
<1>5. CASE c.type = "SELECT_GRAPHIC"
  <2>1. u = Obey(t, sgr, len, late)
    BY <1>5 DEF ProcessCommand
  <2> DEFINE rc == <<0, 0>>
  <2>2. sgr = CommandItem("attribute", rc) /\ rc[1] \in Int /\ rc[2] \in Int
    OBVIOUS
  <2>3. "attribute" \in Kinds
    BY DEF Kinds
  <2> HIDE DEF rc, sgr
  <2>4. sgr \in Item /\ sgr.at = <<>>
    BY <2>2, <2>3, ItemType
  <2> QED
    BY <1>1, <2>1, <2>4, ObeyFacts
<1>6. CASE ~modal /\ c.type \notin {"CURSOR", "ERASE", "SELECT_GRAPHIC"}
  <2>1. u = t
    BY <1>6 DEF ProcessCommand
  <2> QED
    BY <1>1, <2>1
<1> QED
  BY <1>2, <1>3, <1>4, <1>5, <1>6

\* Text that is behind all text so far is written and leaves nothing pending;
\* what is lost of it has its excuse.
LEMMA ShowTextFacts ==
  ASSUME NEW t, Sound(t), NEW late \in BOOLEAN, base \in Nat,
         NEW from \in Nat, NEW to \in Nat, 1 <= from, from <= to,
         \A x \in TextOf(Out(t)) : x < base + from
  PROVE  LET u == ShowText(t, from, to, late)
         IN  /\ Sound(u)
             /\ IsPrefix(Out(t), Out(u))
             /\ TextOf(Out(u)) \subseteq
                  TextOf(Out(t)) \cup (base + from)..(base + to)
             /\ Accounted(t) \cup (base + from)..(base + to)
                  \subseteq Accounted(u)
             /\ u.lost = t.lost \/ Excuse(t, to - from + 1)
             /\ u.shrunk = t.shrunk /\ u.least = t.least
<1> DEFINE n    == to - from + 1
           at   == [i \in 1..n |-> base + from + i - 1]
           v    == [t EXCEPT !.pendingText = at]
           item == TextItem(at)
           w    == Write(v, item, n, late)
           u    == [w EXCEPT !.pendingText = <<>>]
           span == (base + from)..(base + to)
<1>1. n \in Nat /\ n >= 1
  OBVIOUS
<1>2. /\ at \in Seq(Nat) /\ at # <<>> /\ Increasing(at) /\ Len(at) = n
      /\ ToSet(at) = span
      /\ <<>> \o at = at
  <2>1. \A i \in 1..n : base + from + i - 1 \in Nat
    BY <1>1
  <2>2. at \in [1..n -> Nat]
    BY <2>1
  <2>3. at \in Seq(Nat) /\ Len(at) = n
    BY <1>1, <2>2
  <2>4. 1 \in DOMAIN at
    BY <1>1
  <2>5. at # <<>>
    BY <2>4
  <2>6. Increasing(at)
    BY <1>1 DEF Increasing
  <2>7. ToSet(at) \subseteq (base + from)..(base + to)
    BY <1>1 DEF ToSet
  <2>8. ASSUME NEW x \in (base + from)..(base + to) PROVE x \in ToSet(at)
    <3> DEFINE i == x - base - from + 1
    <3>1. i \in 1..n /\ base + from + i - 1 = x
      BY <1>1, <2>8
    <3>2. i \in DOMAIN at /\ at[i] = x
      BY <3>1
    <3> QED
      BY <3>2 DEF ToSet
  <2> HIDE DEF at
  <2>9. <<>> \o at = at
    BY <2>3, ConcatEmptySeq
  <2> QED
    BY <2>3, <2>5, <2>6, <2>7, <2>8, <2>9
<1>3. t \in Terminal /\ t.pendingText = <<>> /\ Gated(t) /\ Bounded(t)
  BY DEF Sound
<1>4. ShowText(t, from, to, late) = FlushPendingText(v, late)
  BY <1>2, <1>3 DEF ShowText, Terminal
<1>5. n = to - from + 1
  OBVIOUS
<1> HIDE DEF n, at
<1>6. /\ v \in Terminal /\ v.pendingText = at
      /\ v.gate = t.gate /\ v.enabled = t.enabled /\ v.silent = t.silent
      /\ v.discarded = t.discarded /\ v.rendered = t.rendered
      /\ v.buffer = t.buffer /\ v.size = t.size /\ v.limit = t.limit
      /\ v.least = t.least /\ v.shrunk = t.shrunk /\ v.lost = t.lost
  BY <1>2, <1>3 DEF Terminal
<1>7. FlushPendingText(v, late) = u
  BY <1>2, <1>6 DEF FlushPendingText
<1>8. item \in Item /\ item.at = at
  BY <1>2 DEF TextItem, Item, Kinds
<1> HIDE DEF v, item
<1>9. Out(v) = Out(t) /\ (~v.gate => v.buffer = <<>>) /\ Bounded(v)
  BY <1>3, <1>6, SoundOut DEF Out, Bounded
<1>10. /\ w \in Terminal /\ Same(v, w) /\ Bounded(w)
       /\ ~w.gate => w.buffer = <<>>
       /\ \/ /\ v.shrunk /\ Out(w) = Out(v)
             /\ w.lost = v.lost \cup ToSet(item.at)
          \/ \E kept : /\ Kept(v, item, n, kept)
                       /\ Out(w) = Append(Out(v), kept)
                       /\ w.lost = v.lost \cup
                            (ToSet(item.at) \ ToSet(kept.at))
  BY <1>1, <1>2, <1>6, <1>8, <1>9, WriteFacts
<1> HIDE DEF w
<1>11. /\ u \in Terminal /\ u.pendingText = <<>>
       /\ u.gate = w.gate /\ u.enabled = w.enabled /\ u.silent = w.silent
       /\ u.discarded = w.discarded /\ u.rendered = w.rendered
       /\ u.buffer = w.buffer /\ u.size = w.size /\ u.limit = w.limit
       /\ u.least = w.least /\ u.shrunk = w.shrunk /\ u.lost = w.lost
  <2>1. <<>> \in Seq(Nat)
    OBVIOUS
  <2> QED
    BY <1>10, <2>1 DEF Terminal
<1> HIDE DEF u, span
<1>12. Gated(u)
  BY <1>3, <1>6, <1>10, <1>11, GatedSame DEF Same
<1>13. /\ Bounded(u) /\ u.shrunk = t.shrunk /\ u.least = t.least
       /\ u.discarded = t.discarded /\ Out(u) = Out(w)
  BY <1>6, <1>10, <1>11 DEF Bounded, Same, Out
<1> SUFFICES /\ InOrder(Out(u))
             /\ IsPrefix(Out(t), Out(u))
             /\ TextOf(Out(u)) \subseteq TextOf(Out(t)) \cup span
             /\ TextOf(Out(t)) \cup t.lost \cup span
                  \subseteq TextOf(Out(u)) \cup u.lost
             /\ u.lost = t.lost \/ Excuse(t, n)
  <2>1. Sound(u)
    BY <1>11, <1>12, <1>13 DEF Sound
  <2> QED
    BY <1>4, <1>5, <1>7, <1>13, <2>1 DEF Accounted, span
<1>14. CASE v.shrunk /\ Out(w) = Out(v) /\ w.lost = v.lost \cup ToSet(item.at)
  <2>1. Excuse(t, n)
    BY <1>6, <1>14 DEF Excuse
  <2> QED
    BY <1>2, <1>6, <1>8, <1>9, <1>11, <1>13, <1>14, <2>1, SoundOut
<1>15. CASE \E kept : /\ Kept(v, item, n, kept)
                      /\ Out(w) = Append(Out(v), kept)
                      /\ w.lost = v.lost \cup
                           (ToSet(item.at) \ ToSet(kept.at))
  <2>1. PICK kept : /\ Kept(v, item, n, kept)
                    /\ Out(w) = Append(Out(v), kept)
                    /\ w.lost = v.lost \cup
                         (ToSet(item.at) \ ToSet(kept.at))
    BY <1>15
  <2>2. /\ kept \in Item /\ ToSet(kept.at) \subseteq span
        /\ Increasing(kept.at)
        /\ kept.at = at \/ n + Header > t.least
    BY <1>2, <1>6, <1>8, <2>1 DEF Kept
  <2>3. Out(u) = Append(Out(t), kept)
        /\ u.lost = t.lost \cup (span \ ToSet(kept.at))
    BY <1>2, <1>6, <1>8, <1>9, <1>11, <1>13, <2>1
  <2>4. \A p \in TextOf(Out(t)), q \in ToSet(kept.at) : p < q
    <3> TAKE p \in TextOf(Out(t)), q \in ToSet(kept.at)
    <3>1. p < base + from /\ q \in (base + from)..(base + to)
      BY <2>2 DEF span
    <3>2. p \in Nat
      BY SoundOut, TextOfType
    <3> QED
      BY <3>1, <3>2
  <2>5. /\ InOrder(Out(u))
        /\ TextOf(Out(u)) = TextOf(Out(t)) \cup ToSet(kept.at)
    BY <2>2, <2>3, <2>4, SoundOut, AppendInOrder
  <2>6. IsPrefix(Out(t), Out(u))
    BY <2>2, <2>3, SoundOut, PrefixOfAppend
  <2>7. u.lost = t.lost \/ Excuse(t, n)
    BY <1>2, <2>2, <2>3 DEF Excuse
  <2> QED
    BY <2>2, <2>3, <2>5, <2>6, <2>7
<1> QED
  BY <1>10, <1>14, <1>15

-----------------------------------------------------------------------------
(* What the parser leaves of its data.                                     *)

\* s is the end of r.
EndOf(s, r) == \E k \in 1..(Len(r) + 1) : s = SubSeq(r, k, Len(r))

LEMMA EndOfEnd ==
  ASSUME NEW r \in Seq(Bytes), NEW s, EndOf(s, r),
         NEW j \in 1..(Len(s) + 1)
  PROVE  /\ s \in Seq(Bytes)
         /\ SubSeq(s, j, Len(s)) \in Seq(Bytes)
         /\ EndOf(SubSeq(s, j, Len(s)), r)
         /\ s # <<>> /\ j <= Len(s) => \E i \in 1..Len(r) :
              SubSeq(s, j, Len(s)) = SubSeq(r, i, Len(r))
<1>1. PICK k \in 1..(Len(r) + 1) : s = SubSeq(r, k, Len(r))
  BY DEF EndOf
<1>2. /\ Len(r) \in Nat /\ k \in Int /\ Len(r) \in Int
      /\ \A i \in k..Len(r) : r[i] \in Bytes
  BY ElementOfSeq
<1>3. /\ s \in Seq(Bytes) /\ Len(s) = Len(r) - k + 1
      /\ \A i \in 1..Len(s) : s[i] = r[k + i - 1]
  <2>1. /\ s \in Seq(Bytes)
        /\ Len(s) = IF k <= Len(r) THEN Len(r) - k + 1 ELSE 0
        /\ \A i \in 1..(Len(r) - k + 1) : s[i] = r[k + i - 1]
    BY <1>1, <1>2, SubSeqProperties
  <2> QED
    BY <1>2, <2>1
<1> DEFINE i == k + j - 1
           e == SubSeq(s, j, Len(s))
           f == SubSeq(r, i, Len(r))
<1>4. /\ i \in 1..(Len(r) + 1) /\ i \in Int
      /\ j <= Len(s) => i \in 1..Len(r)
      /\ Len(r) - i + 1 = Len(s) - j + 1
  BY <1>2, <1>3
<1>5. /\ e \in Seq(Bytes)
      /\ Len(e) = IF j <= Len(s) THEN Len(s) - j + 1 ELSE 0
      /\ \A x \in 1..(Len(s) - j + 1) : e[x] = s[j + x - 1]
  <2>1. \A x \in j..Len(s) : s[x] \in Bytes
    BY <1>2, <1>3
  <2> QED
    BY <1>2, <1>3, <2>1, SubSeqProperties
<1>6. /\ f \in Seq(Bytes)
      /\ Len(f) = IF i <= Len(r) THEN Len(r) - i + 1 ELSE 0
      /\ \A x \in 1..(Len(r) - i + 1) : f[x] = r[i + x - 1]
  <2>1. \A x \in i..Len(r) : r[x] \in Bytes
    BY <1>2, <1>4
  <2> QED
    BY <1>2, <1>4, <2>1, SubSeqProperties
<1> HIDE DEF e, f
<1>7. e = f
  <2>1. Len(e) = Len(f)
    BY <1>2, <1>3, <1>4, <1>5, <1>6
  <2>2. ASSUME NEW x \in 1..Len(e) PROVE e[x] = f[x]
    <3>1. /\ x \in 1..(Len(s) - j + 1) /\ x \in 1..(Len(r) - i + 1)
          /\ j + x - 1 \in 1..Len(s) /\ k + (j + x - 1) - 1 = i + x - 1
      BY <1>2, <1>3, <1>4, <1>5, <2>2
    <3> QED
      BY <1>3, <1>5, <1>6, <3>1
  <2> QED
    BY <1>5, <1>6, <2>1, <2>2, SeqEqual
<1> QED
  BY <1>3, <1>4, <1>5, <1>7 DEF EndOf, e, f

\* To feed r gives no command and leaves r in the buffer.
Refed(r) ==
  Feed(Cleared, r).commands = <<>> /\ Feed(Cleared, r).parser.buffer = r

\* The buffer of the parser is the end of what it was fed; when it holds
\* anything it begins with ESC; and to feed it again changes nothing.
LEMMA FeedLeaves ==
  ASSUME NEW s \in Seq(Bytes)
  PROVE  LET b == Feed(Cleared, s).parser.buffer
         IN  /\ b \in Seq(Bytes) /\ EndOf(b, s)
             /\ b # <<>> => b[1] = ESC
             /\ Refed(b)
             /\ Feed(Cleared, s).commands \in Seq(Command)
<1> DEFINE T == {r \in Seq(Bytes) : EndOf(Feed(Cleared, r).parser.buffer, r)}
<1>1. ASSUME NEW r \in Seq(Bytes) PROVE EndOf(<<>>, r)
  <2>1. Len(r) + 1 \in 1..(Len(r) + 1) /\ SubSeq(r, Len(r) + 1, Len(r)) = <<>>
    OBVIOUS
  <2> QED
    BY <2>1 DEF EndOf
<1>2. Cleared.buffer = <<>> /\ Cleared.state = "GROUND"
  BY DEF Cleared
<1>3. <<>> \in T
  <2>1. Feed(Cleared, <<>>).parser = Cleared
    BY FeedNothing, StayResult, ClearedIsShaped
  <2>2. <<>> \in Seq(Bytes)
    OBVIOUS
  <2> QED
    BY <1>1, <1>2, <2>1, <2>2
<1>4. ASSUME NEW r \in T, NEW b \in Bytes PROVE Append(r, b) \in T
  <2> DEFINE f == Feed(Cleared, r)
             h == Handle(f.parser, b)
             a == Append(r, b)
  <2>1. r \in Seq(Bytes) /\ EndOf(f.parser.buffer, r)
    OBVIOUS
  <2>2. /\ a \in Seq(Bytes) /\ Len(a) = Len(r) + 1 /\ Len(r) \in Nat
        /\ \A i \in 1..Len(r) : a[i] = r[i]
        /\ a[Len(r) + 1] = b
    BY <2>1, AppendProperties
  <2>3. Feed(Cleared, a).parser = h.parser
    <3>1. Feed(Cleared, a) = Step(f, b)
      BY <2>1, FeedAppend
    <3> HIDE DEF f
    <3> QED
      BY <3>1 DEF Step
  <2>4. Shaped(f.parser)
    BY <2>1, FeedResult, ClearedIsShaped DEF Result
  <2> HIDE DEF f
  <2>5. Handled(f.parser, b, h)
    BY <2>4, HandleHandles
  <2> HIDE DEF h
  <2>6. CASE h.parser.state = "GROUND"
    <3>1. h.parser.buffer = <<>>
      BY <1>2, <2>5, <2>6 DEF Handled, Shaped
    <3> QED
      BY <1>1, <2>2, <2>3, <3>1
  <2>7. CASE h.parser.state # "GROUND"
    <3>1. h.parser.buffer = Append(f.parser.buffer, b)
      BY <2>5, <2>7 DEF Handled
    <3>2. PICK k \in 1..(Len(r) + 1) :
            f.parser.buffer = SubSeq(r, k, Len(r))
      BY <2>1 DEF EndOf
    <3> HIDE DEF a
    <3>3. Append(SubSeq(r, k, Len(r)), b) = SubSeq(a, k, Len(a))
      <4> DEFINE x == SubSeq(r, k, Len(r))
                 y == SubSeq(a, k, Len(a))
                 z == Append(x, b)
      <4>1. /\ x \in Seq(Bytes) /\ Len(x) = Len(r) - k + 1
            /\ \A i \in 1..Len(x) : x[i] = r[k + i - 1]
        <5>1. \A i \in k..Len(r) : r[i] \in Bytes
          BY <2>1, <2>2
        <5>2. /\ x \in Seq(Bytes)
              /\ Len(x) = IF k <= Len(r) THEN Len(r) - k + 1 ELSE 0
              /\ \A i \in 1..(Len(r) - k + 1) : x[i] = r[k + i - 1]
          BY <2>2, <5>1, SubSeqProperties
        <5> QED
          BY <2>2, <5>2
      <4>2. /\ y \in Seq(Bytes) /\ Len(y) = Len(a) - k + 1
            /\ \A i \in 1..Len(y) : y[i] = a[k + i - 1]
        <5>1. \A i \in k..Len(a) : a[i] \in Bytes
          BY <2>2
        <5>2. /\ y \in Seq(Bytes)
              /\ Len(y) = IF k <= Len(a) THEN Len(a) - k + 1 ELSE 0
              /\ \A i \in 1..(Len(a) - k + 1) : y[i] = a[k + i - 1]
          BY <2>2, <5>1, SubSeqProperties
        <5> QED
          BY <2>2, <5>2
      <4> HIDE DEF x, y
      <4>3. /\ z \in Seq(Bytes) /\ Len(z) = Len(x) + 1
            /\ \A i \in 1..Len(x) : z[i] = x[i]
            /\ z[Len(x) + 1] = b
        BY <4>1, AppendProperties
      <4> HIDE DEF z
      <4>4. Len(z) = Len(y) /\ Len(x) \in Nat /\ k \in Nat
        BY <2>2, <4>1, <4>2, <4>3
      <4>5. ASSUME NEW i \in 1..Len(z) PROVE z[i] = y[i]
        <5>1. CASE i \in 1..Len(x)
          <6>1. k + i - 1 \in 1..Len(r) /\ i \in 1..Len(y)
            BY <2>2, <4>1, <4>3, <4>4, <5>1
          <6>2. z[i] = r[k + i - 1] /\ y[i] = a[k + i - 1]
            BY <4>1, <4>2, <4>3, <5>1, <6>1
          <6> QED
            BY <2>2, <6>1, <6>2
        <5>2. CASE i = Len(x) + 1
          <6>1. k + i - 1 = Len(r) + 1 /\ i \in 1..Len(y)
            BY <2>2, <4>1, <4>3, <4>4, <5>2
          <6> QED
            BY <2>2, <4>2, <4>3, <5>2, <6>1
        <5> QED
          BY <4>3, <4>4, <5>1, <5>2
      <4>6. z = y
        BY <4>2, <4>3, <4>4, <4>5, SeqEqual
      <4> QED
        BY <4>6 DEF x, y, z
    <3>4. k \in 1..(Len(a) + 1)
      BY <2>2
    <3> QED
      BY <2>2, <2>3, <3>1, <3>2, <3>3, <3>4 DEF EndOf, a
  <2> QED
    BY <2>6, <2>7
<1> HIDE DEF T
<1>5. T = Seq(Bytes)
  <2>1. T \in SUBSET Seq(Bytes)
    BY DEF T
  <2> QED
    BY <1>3, <1>4, <2>1, SeqInduction
<1> DEFINE g == Feed(Cleared, s)
<1>6. EndOf(g.parser.buffer, s)
  BY <1>5 DEF T
<1>7. Result(g)
  BY FeedResult, ClearedIsShaped
<1> HIDE DEF g
<1>8. g.parser.buffer \in Seq(Bytes)
  BY <1>7 DEF Result, Shaped, Fields
<1>9. g.parser.buffer # <<>> => g.parser.buffer[1] = ESC
  BY <1>2, <1>7 DEF Result, Shaped
<1>10. Refed(g.parser.buffer)
  <2>1. Refeeds(g.parser)
    BY FeedRefeeds DEF g
  <2> QED
    BY <2>1 DEF Refeeds, Refed, Stay
<1> QED
  BY <1>6, <1>7, <1>8, <1>9, <1>10 DEF Result, g

\* FirstOf is the least of the indices.
LEMMA FirstOfFacts ==
  ASSUME NEW S \in SUBSET Nat, S # {}
  PROVE  FirstOf(S) \in S /\ \A j \in S : FirstOf(S) <= j
<1> DEFINE R == OpToRel(<, Nat)
<1>1. IsWellFoundedOn(R, Nat)
  BY NatLessThanWellFounded
<1>2. \A x, y \in Nat : y < x => <<y, x>> \in R
  BY DEF OpToRel
<1>3. S \subseteq Nat
  OBVIOUS
<1> HIDE DEF R
<1>4. PICK x \in S : \A y \in S : ~(<<y, x>> \in R)
  BY <1>1, <1>3, WFMin
<1>5. ASSUME NEW y \in S PROVE x <= y
  <2>1. x \in Nat /\ y \in Nat
    BY <1>3
  <2>2. ~(y < x)
    BY <1>2, <1>4, <2>1
  <2> QED
    BY <2>1, <2>2
<1> QED
  BY <1>5 DEF FirstOf

-----------------------------------------------------------------------------
(* The inductive invariant.                                                *)

Shown == TextOf(Output)

\* No call is in progress: all text is from earlier calls, and the fate of the
\* text in front of their first ESC is known.
Idle ==
  /\ pc = "idle"
  /\ data = <<>>
  /\ \A x \in Shown : x <= base
  /\ due \subseteq Accounted(term)

\* The first turn of the loop is ahead: nothing of data was shown.
FirstTurn ==
  /\ pc = "loop"
  /\ data \in Chunks
  /\ remaining = data
  /\ \A x \in Shown : x <= base
  /\ due \subseteq Accounted(term) \cup (base + 1)..(base + TextLength(data))
  /\ TextLength(data) <= longest

\* Later, what remains begins with ESC, so no byte in front of one is left,
\* and another turn with it changes nothing.
LaterTurn ==
  /\ pc \in {"loop", "commands"}
  /\ data \in Chunks
  /\ remaining # <<>> => remaining[1] = ESC
  /\ Refed(remaining)
  /\ pc = "loop" => remaining # <<>>
  /\ \A x \in Shown : x <= base + Len(data)
  /\ due \subseteq Accounted(term)

HandlerInv ==
  /\ TypeOK
  /\ todo \in Seq(Command)
  /\ Sound(term)
  /\ term.lost # {} => Excuse(term, longest)
  /\ EndOf(remaining, data)
  /\ Idle \/ FirstTurn \/ LaterTurn

\* What a step gives.
Good ==
  /\ HandlerInv'
  /\ ClearBuffer \/ IsPrefix(Output, Output')

LEMMA EmptyEnd == EndOf(<<>>, <<>>)
<1>1. 1 \in 1..(Len(<<>>) + 1) /\ SubSeq(<<>>, 1, Len(<<>>)) = <<>>
  OBVIOUS
<1> QED
  BY <1>1 DEF EndOf

LEMMA InitInv == Init => HandlerInv
<1> SUFFICES ASSUME Init PROVE HandlerInv
  OBVIOUS
<1>1. <<>> \in Seq(Item) /\ <<>> \in Seq(Nat) /\ <<>> \in Seq(Bytes)
      /\ <<>> \in Seq(Command)
  OBVIOUS
<1>2. /\ term.enabled = {AutoWrap} /\ term.saved = {} /\ term.gate = FALSE
      /\ term.silent = FALSE /\ term.buffer = <<>> /\ term.rendered = <<>>
      /\ term.signals = <<>> /\ term.discarded = {} /\ term.lost = {}
      /\ term.pendingText = <<>> /\ term.size = 0
      /\ term.limit = DefaultLimit /\ term.least = DefaultLimit
  BY DEF Init
<1>3. term \in Terminal
  BY <1>1, HandlerAssumption DEF Init, Terminal, Modes
<1>4. Out(term) = <<>>
  BY <1>2 DEF Out
<1>5. InOrder(Out(term)) /\ TextOf(Out(term)) = {}
  BY <1>4 DEF InOrder, TextOf
<1>6. Gated(term)
  <2>1. Sync # AutoWrap
    BY DEF Sync, AutoWrap
  <2>2. Sync \notin term.enabled
    BY <1>2, <2>1
  <2>3. (Sync \in term.enabled) = FALSE
    BY <2>2
  <2>4. term.gate = (Sync \in term.enabled)
    BY <1>2, <2>3
  <2> QED
    BY <1>2, <2>4 DEF Gated
<1>7. Sound(term)
  <2>1. Bounded(term)
    BY <1>2, HandlerAssumption DEF Bounded
  <2> QED
    BY <1>2, <1>3, <1>5, <1>6, <2>1 DEF Sound
<1>8. TypeOK
  BY <1>1, <1>3, HandlerAssumption DEF Init, TypeOK
<1>9. Idle
  BY <1>5 DEF Init, Idle, Shown, Output
<1>10. EndOf(remaining, data)
  BY EmptyEnd DEF Init
<1>11. todo \in Seq(Command)
  BY <1>1 DEF Init
<1> QED
  BY <1>2, <1>7, <1>8, <1>9, <1>10, <1>11 DEF HandlerInv

\* The text in front of the first ESC is a part of the data.
LEMMA TextLengthType ==
  ASSUME NEW s \in Seq(Bytes)
  PROVE  TextLength(s) \in 0..Len(s)
<1> DEFINE S == EscapesIn(s)
           f == FirstOf(S)
<1>1. Len(s) \in Nat /\ DOMAIN s = 1..Len(s) /\ S \subseteq DOMAIN s
  BY DEF EscapesIn
<1>2. S \in SUBSET Nat
  BY <1>1
<1> HIDE DEF S
<1>3. CASE S = {}
  BY <1>1, <1>3 DEF TextLength, S
<1>4. CASE S # {}
  <2>1. f \in S
    BY <1>2, <1>4, FirstOfFacts
  <2>2. f \in 1..Len(s)
    BY <1>1, <2>1
  <2>3. TextLength(s) = f - 1
    BY <1>4 DEF TextLength, S
  <2> HIDE DEF f
  <2> QED
    BY <1>1, <2>2, <2>3
<1> QED
  BY <1>3, <1>4

LEMMA ProcessInputInv ==
  ASSUME HandlerInv, NEW chunk \in Chunks, ProcessInput(chunk)
  PROVE  Good
<1> DEFINE n == TextLength(chunk)
<1>1. /\ pc = "idle" /\ calls < MaxCalls /\ data' = chunk /\ remaining' = chunk
      /\ pc' = "loop" /\ due' = due \cup (base + 1)..(base + n)
      /\ longest' = IF n > longest THEN n ELSE longest
      /\ calls' = calls + 1
      /\ term' = term /\ todo' = todo /\ base' = base
  BY DEF ProcessInput
<1>2. Idle /\ TypeOK /\ term \in Terminal
  BY <1>1 DEF HandlerInv, FirstTurn, LaterTurn, Sound
<1>3. chunk \in Seq(Bytes)
  BY HandlerAssumption
<1>4. n \in Nat
  BY <1>3, TextLengthType
<1>5. /\ base \in Nat /\ MaxCalls \in Nat /\ calls \in 0..MaxCalls
      /\ longest \in Nat /\ term.least \in Nat /\ Header \in Nat
  BY <1>2, HandlerAssumption, FieldTypes DEF TypeOK
<1> HIDE DEF n
<1>6. /\ (base + 1)..(base + n) \subseteq Nat /\ longest' \in Nat
      /\ n <= longest' /\ longest <= longest'
  BY <1>1, <1>4, <1>5
<1>7. calls' \in 0..MaxCalls
  BY <1>1, <1>5
<1>8. TypeOK'
  BY <1>1, <1>2, <1>3, <1>6, <1>7 DEF TypeOK
<1>9. EndOf(chunk, chunk)
  <2>1. 1 \in 1..(Len(chunk) + 1) /\ SubSeq(chunk, 1, Len(chunk)) = chunk
    BY <1>3
  <2> QED
    BY <2>1 DEF EndOf
<1>10. FirstTurn'
  BY <1>1, <1>2, <1>6 DEF Idle, FirstTurn, Shown, Output, Accounted, n
<1>11. IsPrefix(Output, Output')
  BY <1>1, SoundOut DEF Output, HandlerInv
<1>12. term'.lost # {} => Excuse(term', longest')
  <2>1. Excuse(term, longest) => Excuse(term, longest')
    BY <1>5, <1>6 DEF Excuse
  <2> QED
    BY <1>1, <2>1 DEF HandlerInv
<1> QED
  BY <1>1, <1>8, <1>9, <1>10, <1>11, <1>12 DEF Good, HandlerInv

\* Steps that write no text and leave processInput where it is.
LEMMA QuietInv ==
  ASSUME HandlerInv, Quiet(term, term'), todo' \in Seq(Command),
         UNCHANGED <<data, remaining, pc, base, histVars>>
  PROVE  Good
<1>1. /\ data' = data /\ remaining' = remaining /\ pc' = pc /\ base' = base
      /\ due' = due /\ longest' = longest /\ calls' = calls
  BY DEF histVars
<1>2. /\ Sound(term') /\ Shown' = Shown /\ Accounted(term') = Accounted(term)
      /\ IsPrefix(Output, Output')
  BY DEF Quiet, Shown, Output, Accounted
<1>3. TypeOK'
  BY <1>1, <1>2 DEF HandlerInv, TypeOK, Sound
<1>4. (Idle \/ FirstTurn \/ LaterTurn)'
  BY <1>1, <1>2 DEF HandlerInv, Idle, FirstTurn, LaterTurn
<1>5. term'.lost # {} => Excuse(term', longest')
  <2>1. term \in Terminal /\ term' \in Terminal /\ longest \in Nat
    BY <1>2 DEF HandlerInv, TypeOK, Sound
  <2>2. term.least \in Nat /\ term'.least \in Nat /\ Header \in Nat
    BY <2>1, FieldTypes, HandlerAssumption
  <2>3. /\ term'.lost = term.lost /\ (term.shrunk => term'.shrunk)
        /\ term'.least <= term.least
    BY DEF Quiet
  <2>4. Excuse(term, longest) => Excuse(term', longest)
    BY <2>1, <2>2, <2>3 DEF Excuse
  <2> QED
    BY <1>1, <2>3, <2>4 DEF HandlerInv
<1> QED
  BY <1>1, <1>2, <1>3, <1>4, <1>5 DEF Good, HandlerInv

LEMMA NextCommandInv ==
  ASSUME HandlerInv, NEW late \in BOOLEAN, NextCommand(late)
  PROVE  Good
<1>1. /\ todo # <<>> /\ todo' = Tail(todo)
      /\ UNCHANGED <<data, remaining, pc, base, histVars>>
  BY DEF NextCommand
<1>2. PICK len \in DataLengths(Head(todo)) :
        term' = ProcessCommand(term, Head(todo), len, late)
  BY DEF NextCommand
<1>3. todo \in Seq(Command) /\ Sound(term)
  BY DEF HandlerInv
<1>4. Head(todo) \in Command /\ Tail(todo) \in Seq(Command)
  BY <1>1, <1>3, HeadTailProperties
<1> QED
  BY <1>1, <1>2, <1>3, <1>4, ProcessCommandFacts, QuietInv

LEMMA EndTurnInv ==
  ASSUME HandlerInv, EndTurn
  PROVE  Good
<1>1. /\ pc = "commands" /\ term' = term /\ todo' = todo /\ due' = due
      /\ longest' = longest /\ calls' = calls
  BY DEF EndTurn, histVars
<1>2. /\ LaterTurn /\ TypeOK /\ Sound(term)
      /\ term'.lost # {} => Excuse(term', longest')
  BY <1>1 DEF HandlerInv, Idle, FirstTurn
<1>3. Shown' = Shown /\ IsPrefix(Output, Output')
  BY <1>1, <1>2, SoundOut DEF Shown, Output
<1>4. CASE Return
  <2>1. /\ pc' = "idle" /\ data' = <<>> /\ remaining' = <<>>
        /\ base' = base + Len(data)
    BY <1>4 DEF Return
  <2>2. base' \in Nat /\ <<>> \in Seq(Bytes)
    BY <1>2, <2>1 DEF TypeOK
  <2>3. TypeOK'
    BY <1>1, <1>2, <2>1, <2>2 DEF TypeOK
  <2>4. Idle'
    BY <1>1, <1>2, <1>3, <2>1 DEF Idle, LaterTurn
  <2> QED
    BY <1>1, <1>2, <1>3, <2>1, <2>3, <2>4, EmptyEnd DEF Good, HandlerInv
<1>5. CASE /\ ~IsFinished(remaining) /\ pc' = "loop"
           /\ UNCHANGED <<data, remaining, base>>
  <2>1. /\ remaining # <<>> /\ data' = data /\ remaining' = remaining
        /\ base' = base
    BY <1>5 DEF IsFinished
  <2>2. TypeOK'
    BY <1>1, <1>2, <1>5, <2>1 DEF TypeOK
  <2>3. LaterTurn'
    BY <1>1, <1>2, <1>3, <1>5, <2>1 DEF LaterTurn
  <2> QED
    BY <1>1, <1>2, <1>3, <2>1, <2>2, <2>3 DEF Good, HandlerInv
<1> QED
  BY <1>4, <1>5 DEF EndTurn

LEMMA DataFacts ==
  ASSUME HandlerInv, pc # "idle"
  PROVE  /\ data \in Chunks /\ data \in Seq(Bytes) /\ data # <<>>
         /\ Len(data) \in Nat /\ Len(data) >= 1 /\ DOMAIN data = 1..Len(data)
<1>1. data \in Chunks
  BY DEF HandlerInv, Idle, FirstTurn, LaterTurn
<1>2. data \in Seq(Bytes) /\ data # <<>>
  BY <1>1, HandlerAssumption
<1> QED
  BY <1>1, <1>2

LEMMA ExcuseGrows ==
  ASSUME HandlerInv, NEW u, u.shrunk = term.shrunk, u.least = term.least,
         NEW n \in Nat, n <= longest,
         u.lost = term.lost \/ Excuse(term, n)
  PROVE  u.lost # {} => Excuse(u, longest)
<1>1. longest \in Nat /\ Header \in Nat /\ term.least \in Nat
  BY HandlerAssumption, FieldTypes DEF HandlerInv, TypeOK
<1>2. Excuse(term, n) => Excuse(term, longest)
  BY <1>1 DEF Excuse
<1>3. Excuse(term, longest) => Excuse(u, longest)
  BY DEF Excuse
<1> QED
  BY <1>2, <1>3 DEF HandlerInv

\* Without an ESC it is the first turn.
LEMMA TextTurnInv ==
  ASSUME HandlerInv, NEW late \in BOOLEAN, TextTurn(late)
  PROVE  Good
<1>1. /\ pc = "loop" /\ EscapesIn(remaining) = {}
      /\ term' = ShowText(term, Len(data) - Len(remaining) + 1, Len(data), late)
      /\ pc' = "idle" /\ data' = <<>> /\ remaining' = <<>>
      /\ base' = base + Len(data)
      /\ todo' = todo /\ due' = due /\ longest' = longest /\ calls' = calls
  BY DEF TextTurn, Return, histVars
<1>2. TypeOK /\ Sound(term)
  BY DEF HandlerInv
<1>3. FirstTurn
  <2>1. ASSUME LaterTurn PROVE FALSE
    <3>1. remaining # <<>> /\ remaining[1] = ESC /\ remaining \in Seq(Bytes)
      BY <1>1, <1>2, <2>1 DEF LaterTurn, TypeOK
    <3>2. 1 \in DOMAIN remaining
      BY <3>1
    <3> QED
      BY <1>1, <3>1, <3>2 DEF EscapesIn
  <2> QED
    BY <1>1, <2>1 DEF HandlerInv, Idle
<1>4. /\ data \in Seq(Bytes) /\ Len(data) \in Nat /\ Len(data) >= 1
      /\ DOMAIN data = 1..Len(data) /\ base \in Nat /\ pc # "idle"
  BY <1>1, <1>2, DataFacts DEF TypeOK
<1>5. remaining = data /\ Len(data) - Len(remaining) + 1 = 1
  BY <1>3, <1>4 DEF FirstTurn
<1>6. \A x \in TextOf(Out(term)) : x < base + 1
  <2> TAKE x \in TextOf(Out(term))
  <2>1. x <= base
    BY <1>3 DEF FirstTurn, Shown, Output
  <2>2. x \in Nat
    BY <1>2, TextOfType, SoundOut
  <2> QED
    BY <1>4, <2>1, <2>2
<1>7. /\ Sound(term') /\ IsPrefix(Out(term), Out(term'))
      /\ TextOf(Out(term')) \subseteq
           TextOf(Out(term)) \cup (base + 1)..(base + Len(data))
      /\ Accounted(term) \cup (base + 1)..(base + Len(data))
           \subseteq Accounted(term')
      /\ term'.lost = term.lost \/ Excuse(term, Len(data) - 1 + 1)
      /\ term'.shrunk = term.shrunk /\ term'.least = term.least
  <2>1. term' = ShowText(term, 1, Len(data), late)
    BY <1>1, <1>5
  <2> QED
    BY <1>2, <1>4, <1>6, <2>1, ShowTextFacts
<1>8. Shown' \subseteq Shown \cup (base + 1)..(base + Len(data))
      /\ IsPrefix(Output, Output')
  BY <1>7 DEF Shown, Output
<1>9. base' \in Nat /\ <<>> \in Seq(Bytes)
  BY <1>1, <1>4
<1>10. TypeOK'
  BY <1>1, <1>2, <1>7, <1>9 DEF TypeOK, Sound
<1>11. \A x \in Shown' : x <= base'
  <2> TAKE x \in Shown'
  <2>1. CASE x \in Shown
    <3>1. x <= base /\ x \in Nat
      BY <1>2, <1>3, <2>1, TextOfType, SoundOut DEF FirstTurn, Shown, Output
    <3> QED
      BY <1>1, <1>4, <3>1
  <2>2. CASE x \in (base + 1)..(base + Len(data))
    BY <1>1, <1>4, <2>2
  <2> QED
    BY <1>8, <2>1, <2>2
<1>12. TextLength(data) = Len(data)
  BY <1>1, <1>5 DEF TextLength
<1>13. due' \subseteq Accounted(term')
  BY <1>1, <1>3, <1>7, <1>12 DEF FirstTurn
<1>14. Idle'
  BY <1>1, <1>11, <1>13 DEF Idle
<1>15. term'.lost # {} => Excuse(term', longest')
  <2>1. Len(data) <= longest /\ Len(data) - 1 + 1 = Len(data)
    BY <1>3, <1>4, <1>12 DEF FirstTurn
  <2>2. longest' = longest
    BY <1>1
  <2> QED
    BY <1>4, <1>7, <2>1, <2>2, ExcuseGrows DEF HandlerInv
<1> QED
  BY <1>1, <1>7, <1>8, <1>10, <1>14, <1>15, EmptyEnd DEF Good, HandlerInv

\* The text in front of the first ESC of the first turn is shown; later the
\* first ESC is the first byte, and nothing is.
LEMMA TextBeforeFacts ==
  ASSUME HandlerInv, pc = "loop", NEW late \in BOOLEAN,
         NEW esc \in 1..Len(remaining), remaining[esc] = ESC,
         \A j \in EscapesIn(remaining) : esc <= j
  PROVE  LET u == TextBefore(Len(data) - Len(remaining), esc, late)
         IN  /\ Sound(u) /\ IsPrefix(Out(term), Out(u))
             /\ \A x \in TextOf(Out(u)) : x <= base + Len(data)
             /\ due \subseteq Accounted(u)
             /\ u.lost # {} => Excuse(u, longest)
<1> DEFINE u == TextBefore(Len(data) - Len(remaining), esc, late)
<1>1. /\ TypeOK /\ Sound(term) /\ base \in Nat /\ remaining \in Seq(Bytes)
      /\ esc \in Nat /\ IsPrefix(Out(term), Out(term))
      /\ TextOf(Out(term)) \subseteq Nat
  BY SoundOut, TextOfType DEF HandlerInv, TypeOK
<1>2. /\ data \in Seq(Bytes) /\ Len(data) \in Nat /\ Len(data) >= 1
      /\ DOMAIN data = 1..Len(data)
  BY DataFacts
<1> SUFFICES /\ Sound(u) /\ IsPrefix(Out(term), Out(u))
             /\ \A x \in TextOf(Out(u)) : x <= base + Len(data)
             /\ due \subseteq Accounted(u)
             /\ u.lost # {} => Excuse(u, longest)
  OBVIOUS
<1>3. CASE LaterTurn
  <2>1. 1 \in EscapesIn(remaining)
    BY <1>1, <1>3 DEF LaterTurn, EscapesIn
  <2>2. ~(esc > 1)
    BY <1>1, <2>1
  <2>3. u = term
    BY <2>2 DEF TextBefore
  <2> QED
    BY <1>1, <1>3, <2>3 DEF LaterTurn, Shown, Output, HandlerInv
<1>4. CASE FirstTurn
  <2>1. /\ remaining = data /\ Len(data) - Len(remaining) = 0
        /\ \A x \in TextOf(Out(term)) : x <= base
        /\ due \subseteq Accounted(term)
                           \cup (base + 1)..(base + TextLength(data))
        /\ TextLength(data) <= longest
    BY <1>2, <1>4 DEF FirstTurn, Shown, Output
  <2>2. TextLength(data) = esc - 1
    <3> DEFINE S == EscapesIn(data)
    <3>1. esc \in S /\ S \in SUBSET Nat /\ \A j \in S : esc <= j
      BY <1>1, <1>2, <2>1 DEF EscapesIn
    <3>2. FirstOf(S) \in S /\ FirstOf(S) <= esc
      BY <3>1, FirstOfFacts
    <3>3. esc <= FirstOf(S) /\ FirstOf(S) \in Nat
      BY <3>1, <3>2
    <3>4. FirstOf(S) = esc
      BY <1>1, <3>2, <3>3
    <3> QED
      BY <3>1, <3>4 DEF TextLength
  <2>3. CASE esc > 1
    <3> DEFINE to == esc - 1
    <3>1. to \in Nat /\ 1 <= to /\ to <= Len(data)
      BY <1>1, <1>2, <2>1, <2>3
    <3>2. u = ShowText(term, 1, to, late)
      <4>1. 0 + 1 = 1 /\ 0 + esc - 1 = esc - 1
        BY <1>1
      <4> QED
        BY <2>1, <2>3, <4>1 DEF TextBefore
    <3> HIDE DEF to, u
    <3>3. \A x \in TextOf(Out(term)) : x < base + 1
      BY <1>1, <2>1
    <3>4. /\ Sound(u) /\ IsPrefix(Out(term), Out(u))
          /\ TextOf(Out(u)) \subseteq
               TextOf(Out(term)) \cup (base + 1)..(base + to)
          /\ Accounted(term) \cup (base + 1)..(base + to) \subseteq Accounted(u)
          /\ u.lost = term.lost \/ Excuse(term, to - 1 + 1)
          /\ u.shrunk = term.shrunk /\ u.least = term.least
      BY <1>1, <3>1, <3>2, <3>3, ShowTextFacts
    <3>5. \A x \in TextOf(Out(u)) : x <= base + Len(data)
      <4> TAKE x \in TextOf(Out(u))
      <4>1. CASE x \in TextOf(Out(term))
        <5>1. x \in Nat /\ x <= base
          BY <1>1, <2>1, <4>1
        <5> QED
          BY <1>1, <1>2, <5>1
      <4>2. CASE x \in (base + 1)..(base + to)
        BY <1>1, <1>2, <3>1, <4>2
      <4> QED
        BY <3>4, <4>1, <4>2
    <3>6. due \subseteq Accounted(u)
      BY <2>1, <2>2, <3>4 DEF to
    <3>7. to <= longest /\ to - 1 + 1 = to
      BY <2>1, <2>2, <3>1 DEF to
    <3>8. u.lost # {} => Excuse(u, longest)
      BY <3>1, <3>4, <3>7, ExcuseGrows
    <3> QED
      BY <3>4, <3>5, <3>6, <3>8
  <2>4. CASE ~(esc > 1)
    <3>1. u = term
      BY <2>4 DEF TextBefore
    <3>2. (base + 1)..(base + TextLength(data)) = {}
      BY <1>1, <2>2, <2>4
    <3>3. due \subseteq Accounted(term)
      BY <2>1, <3>2
    <3>4. \A x \in TextOf(Out(term)) : x <= base + Len(data)
      BY <1>1, <1>2, <2>1
    <3> QED
      BY <1>1, <3>1, <3>3, <3>4 DEF HandlerInv
  <2> QED
    BY <2>3, <2>4
<1> QED
  BY <1>3, <1>4 DEF HandlerInv, Idle

LEMMA EscapeTurnInv ==
  ASSUME HandlerInv, NEW late \in BOOLEAN, EscapeTurn(late)
  PROVE  Good
<1> DEFINE esc   == FirstOf(EscapesIn(remaining))
           piece == SubSeq(remaining, esc, Len(remaining))
           parsed == Parsed[piece]
<1>1. /\ pc = "loop" /\ EscapesIn(remaining) # {}
      /\ term' = TextBefore(Len(data) - Len(remaining), esc, late)
      /\ todo' = parsed.commands \o parsed.commands
      /\ remaining' = parsed.parser.buffer
      /\ pc' = "commands" /\ data' = data /\ base' = base
      /\ due' = due /\ longest' = longest /\ calls' = calls
  BY DEF EscapeTurn, histVars
<1>2. /\ TypeOK /\ remaining \in Seq(Bytes) /\ EndOf(remaining, data)
      /\ base \in Nat
  BY DEF HandlerInv, TypeOK
<1>3. data \in Chunks /\ data \in Seq(Bytes) /\ Len(data) \in Nat
  BY <1>1, DataFacts
<1>4. /\ esc \in 1..Len(remaining) /\ remaining[esc] = ESC
      /\ \A j \in EscapesIn(remaining) : esc <= j
  <2>1. EscapesIn(remaining) \in SUBSET Nat
    BY <1>2 DEF EscapesIn
  <2>2. esc \in EscapesIn(remaining)
        /\ \A j \in EscapesIn(remaining) : esc <= j
    BY <1>1, <2>1, FirstOfFacts
  <2> HIDE DEF esc
  <2> QED
    BY <1>2, <2>2 DEF EscapesIn
<1> HIDE DEF esc
<1>5. /\ Sound(term') /\ IsPrefix(Out(term), Out(term'))
      /\ \A x \in TextOf(Out(term')) : x <= base + Len(data)
      /\ due \subseteq Accounted(term')
      /\ term'.lost # {} => Excuse(term', longest)
  BY <1>1, <1>4, TextBeforeFacts
<1>6. /\ piece \in Seq(Bytes) /\ EndOf(piece, data)
      /\ \E i \in 1..Len(data) : piece = SubSeq(data, i, Len(data))
  <2>1. esc \in 1..(Len(remaining) + 1) /\ esc <= Len(remaining)
        /\ remaining # <<>>
    BY <1>2, <1>4
  <2> QED
    BY <1>2, <1>3, <2>1, EndOfEnd
<1> HIDE DEF piece
<1>7. parsed = Feed(Cleared, piece)
  <2>1. piece \in Pieces
    <3>1. Len(data) \in 0..Len(data)
      BY <1>3
    <3> QED
      BY <1>3, <1>6, <3>1 DEF Pieces
  <2> QED
    BY <2>1 DEF Parsed
<1>8. /\ parsed.parser.buffer \in Seq(Bytes)
      /\ EndOf(parsed.parser.buffer, piece)
      /\ parsed.parser.buffer # <<>> => parsed.parser.buffer[1] = ESC
      /\ Refed(parsed.parser.buffer)
      /\ parsed.commands \in Seq(Command)
  BY <1>6, <1>7, FeedLeaves
<1> HIDE DEF parsed
<1>9. todo' \in Seq(Command)
  BY <1>1, <1>8, ConcatProperties
<1>10. EndOf(remaining', data')
  <2>1. PICK j \in 1..(Len(piece) + 1) :
          remaining' = SubSeq(piece, j, Len(piece))
    BY <1>1, <1>8 DEF EndOf
  <2> QED
    BY <1>1, <1>3, <1>6, <2>1, EndOfEnd
<1>11. TypeOK'
  BY <1>1, <1>2, <1>3, <1>5, <1>8 DEF TypeOK, Sound
<1>12. LaterTurn'
  BY <1>1, <1>3, <1>5, <1>8 DEF LaterTurn, Shown, Output
<1> QED
  BY <1>1, <1>5, <1>9, <1>10, <1>11, <1>12 DEF Good, HandlerInv, Output

\* A change of modes leaves the output alone.
LEMMA SameOutput ==
  ASSUME NEW t, NEW u \in Terminal, NEW v, Quiet(t, v), Gated(u),
         u.rendered = v.rendered, u.buffer = v.buffer, u.size = v.size,
         Rest(v, u)
  PROVE  Quiet(t, u)
<1>1. Out(u) = Out(v)
  BY DEF Out
<1> QED
  BY <1>1 DEF Quiet, Sound, Bounded, Rest

LEMMA ForceFlushInv ==
  ASSUME HandlerInv, ForceFlush
  PROVE  Good
<1> DEFINE u == FlushBuffer(term)
<1>1. Sound(term) /\ todo' \in Seq(Command)
      /\ UNCHANGED <<data, remaining, pc, base, histVars>>
  BY DEF HandlerInv, ForceFlush, Owner
<1>2. term' = u
  BY <1>1, NothingPending DEF ForceFlush
<1>3. /\ u \in Terminal /\ u.buffer = <<>> /\ Out(u) = Out(term)
      /\ Same(term, u) /\ u.lost = term.lost
      /\ Bounded(term) => Bounded(u)
  BY <1>1, SoundOut, FlushFacts
<1> HIDE DEF u
<1>4. Gated(u)
  <2>1. Gated(term)
    BY <1>1 DEF Sound
  <2> QED
    BY <1>3, <2>1, GatedSame DEF Same
<1>5. Quiet(term, u)
  BY <1>1, <1>3, <1>4, SoundOut DEF Quiet, Sound, Same
<1> QED
  BY <1>1, <1>2, <1>5, QuietInv

LEMMA ManagerChangeModeInv ==
  ASSUME HandlerInv, NEW on \in BOOLEAN, ManagerChangeMode(on)
  PROVE  Good
<1>1. Sound(term) /\ todo' \in Seq(Command)
      /\ UNCHANGED <<data, remaining, pc, base, histVars>>
      /\ term' = ChangeMode(term, Sync, on)
  BY DEF HandlerInv, ManagerChangeMode, Owner
<1>2. Sync \in Modes
  BY DEF Modes
<1>3. Quiet(term, term')
  BY <1>1, <1>2, ChangeModeFacts
<1> QED
  BY <1>1, <1>3, QuietInv

LEMMA ManagerSaveModesInv ==
  ASSUME HandlerInv, ManagerSaveModes
  PROVE  Good
<1> DEFINE u == [term EXCEPT !.saved = term.enabled]
<1>1. Sound(term) /\ todo' \in Seq(Command) /\ term' = u
      /\ UNCHANGED <<data, remaining, pc, base, histVars>>
  BY DEF HandlerInv, ManagerSaveModes, Owner
<1>2. Quiet(term, term) /\ term \in Terminal /\ Gated(term)
  BY <1>1, SoundOut DEF Quiet, Sound
<1>3. /\ u \in Terminal /\ u.gate = term.gate /\ u.enabled = term.enabled
      /\ u.silent = term.silent /\ u.rendered = term.rendered
      /\ u.buffer = term.buffer /\ u.size = term.size /\ Rest(term, u)
  BY <1>2 DEF Terminal, Rest
<1> HIDE DEF u
<1>4. Gated(u)
  BY <1>2, <1>3 DEF Gated
<1>5. Quiet(term, u)
  BY <1>2, <1>3, <1>4, SameOutput
<1> QED
  BY <1>1, <1>5, QuietInv

\* restoreModes goes through the slot of modeChanged for the one mode that the
\* handler listens to.
LEMMA ManagerRestoreModesInv ==
  ASSUME HandlerInv, ManagerRestoreModes
  PROVE  Good
<1> DEFINE on == Sync \in term.saved
           v  == ChangeMode(term, Sync, on)
           u  == [v EXCEPT !.enabled = term.saved]
<1>1. Sound(term) /\ todo' \in Seq(Command) /\ term' = u
      /\ UNCHANGED <<data, remaining, pc, base, histVars>>
  BY DEF HandlerInv, ManagerRestoreModes, Owner
<1>2. Sync \in Modes /\ on \in BOOLEAN
  BY DEF Modes
<1>3. on <=> Sync \in term.saved
  OBVIOUS
<1>4. term.saved \in SUBSET Modes
  BY <1>1, SoundOut DEF Terminal
<1> HIDE DEF on
<1>5. Quiet(term, v) /\ (Sync \in v.enabled <=> on)
  BY <1>1, <1>2, ChangeModeFacts
<1> HIDE DEF v
<1>6. v \in Terminal /\ Gated(v)
  BY <1>5 DEF Quiet, Sound
<1>7. /\ u \in Terminal /\ u.gate = v.gate /\ u.enabled = term.saved
      /\ u.silent = v.silent /\ u.rendered = v.rendered
      /\ u.buffer = v.buffer /\ u.size = v.size /\ Rest(v, u)
  BY <1>4, <1>6 DEF Terminal, Rest
<1> HIDE DEF u
<1>8. Gated(u)
  <2>1. (Sync \in u.enabled) = (Sync \in v.enabled)
    BY <1>3, <1>5, <1>7
  <2> QED
    BY <1>6, <1>7, <2>1 DEF Gated
<1>9. Quiet(term, u)
  BY <1>5, <1>7, <1>8, SameOutput
<1> QED
  BY <1>1, <1>9, QuietInv

\* resetAllModes tells nobody, which is why silent is in GateFollowsMode.
LEMMA ManagerResetAllModesInv ==
  ASSUME HandlerInv, ManagerResetAllModes
  PROVE  Good
<1> DEFINE q == term.silent \/ Sync \in term.enabled
           u == [term EXCEPT !.enabled = {AutoWrap}, !.silent = q]
<1>1. Sound(term) /\ todo' \in Seq(Command)
      /\ UNCHANGED <<data, remaining, pc, base, histVars>>
  BY DEF HandlerInv, ManagerResetAllModes, Owner
<1>2. Quiet(term, term) /\ term \in Terminal /\ Gated(term)
  BY <1>1, SoundOut DEF Quiet, Sound
<1>3. term' = u
  BY <1>2 DEF ManagerResetAllModes, Terminal
<1>4. q \in BOOLEAN /\ {AutoWrap} \in SUBSET Modes /\ Sync # AutoWrap
      /\ (Sync \in term.enabled => q) /\ (term.silent => q)
  BY DEF Modes, Sync, AutoWrap
<1>5. term.gate \in BOOLEAN
  BY <1>2 DEF Terminal
<1> HIDE DEF q
<1>6. /\ u \in Terminal /\ u.gate = term.gate /\ u.enabled = {AutoWrap}
      /\ u.silent = q /\ u.rendered = term.rendered
      /\ u.buffer = term.buffer /\ u.size = term.size /\ Rest(term, u)
  BY <1>2, <1>4 DEF Terminal, Rest
<1> HIDE DEF u
<1>7. Gated(u)
  <2>1. Sync \notin u.enabled
    BY <1>4, <1>6
  <2>2. term.gate => q
    BY <1>2, <1>4 DEF Gated
  <2> QED
    BY <1>2, <1>5, <1>6, <2>1, <2>2 DEF Gated
<1>8. Quiet(term, u)
  BY <1>2, <1>6, <1>7, SameOutput
<1> QED
  BY <1>1, <1>3, <1>8, QuietInv

\* clearBuffer throws away what waits; what is left is still in order.
LEMMA ClearBufferInv ==
  ASSUME HandlerInv, ClearBuffer
  PROVE  Good
<1> DEFINE d == term.discarded \cup TextOf(term.buffer)
           g == term.dropped \/ term.buffer # <<>>
           u == [term EXCEPT !.discarded = d, !.dropped = g,
                             !.pendingText = <<>>, !.buffer = <<>>,
                             !.size = 0]
           r == term.rendered
           b == term.buffer
<1>1. /\ pc = "idle" /\ data' = data /\ remaining' = remaining /\ todo' = todo
      /\ pc' = pc /\ base' = base /\ due' = due /\ longest' = longest
      /\ calls' = calls
  BY DEF ClearBuffer, Owner, histVars
<1>2. Sound(term) /\ TypeOK /\ Idle /\ term \in Terminal
  BY <1>1 DEF HandlerInv, FirstTurn, LaterTurn, Sound
<1>3. term' = u
  BY <1>2 DEF ClearBuffer, Terminal
<1>4. /\ r \in Seq(Item) /\ b \in Seq(Item) /\ Out(term) = r \o b
      /\ term.discarded \subseteq Nat
  BY <1>2, OutType DEF Out, Terminal
<1>5. g \in BOOLEAN /\ d \subseteq Nat /\ <<>> \in Seq(Nat) /\ <<>> \in Seq(Item)
  BY <1>2, <1>4, TextOfType, FieldTypes
<1>6. d = term.discarded \cup TextOf(b)
  OBVIOUS
<1> HIDE DEF d, g
<1>7. /\ u \in Terminal /\ u.gate = term.gate /\ u.enabled = term.enabled
      /\ u.silent = term.silent /\ u.rendered = r
      /\ u.buffer = <<>> /\ u.size = 0 /\ u.limit = term.limit
      /\ u.discarded = d /\ u.pendingText = <<>> /\ u.lost = term.lost
      /\ u.least = term.least /\ u.shrunk = term.shrunk
  BY <1>2, <1>5 DEF Terminal
<1> HIDE DEF u, r, b
<1>8. Out(u) = r
  <2>1. r \o <<>> = r
    BY <1>4, ConcatEmptySeq
  <2> QED
    BY <1>7, <2>1 DEF Out
<1>9. /\ InOrder(r) /\ TextOf(r \o b) = TextOf(r) \cup TextOf(b)
  <2> DEFINE o == r \o b
             n == Len(r)
             k == Len(b)
  <2>1. /\ n \in Nat /\ k \in Nat /\ DOMAIN r = 1..n /\ DOMAIN b = 1..k
        /\ DOMAIN o = 1..(n + k)
        /\ \A i \in 1..n : o[i] = r[i]
        /\ \A i \in 1..k : o[n + i] = b[i]
    BY <1>4, ConcatProperties
  <2>2. InOrder(o)
    BY <1>2, <1>4 DEF Sound
  <2> HIDE DEF o, n, k
  <2>3. \A i \in DOMAIN r : i \in DOMAIN o /\ o[i] = r[i]
    BY <2>1
  <2>4. InOrder(r)
    BY <2>2, <2>3 DEF InOrder
  <2>5. ASSUME NEW i \in DOMAIN o
        PROVE  \/ i \in DOMAIN r /\ o[i] = r[i]
               \/ \E j \in DOMAIN b : o[i] = b[j]
    <3>1. CASE i \in 1..n
      BY <2>1, <3>1
    <3>2. CASE i \notin 1..n
      <4>1. i - n \in 1..k /\ n + (i - n) = i
        BY <2>1, <3>2
      <4> QED
        BY <2>1, <4>1
    <3> QED
      BY <3>1, <3>2
  <2>6. ASSUME NEW j \in DOMAIN b PROVE \E i \in DOMAIN o : o[i] = b[j]
    <3>1. n + j \in DOMAIN o /\ o[n + j] = b[j]
      BY <2>1
    <3> QED
      BY <3>1
  <2>7. TextOf(o) = TextOf(r) \cup TextOf(b)
    <3>1. ASSUME NEW x \in TextOf(o) PROVE x \in TextOf(r) \cup TextOf(b)
      BY <2>5 DEF TextOf
    <3>2. ASSUME NEW x \in TextOf(r) PROVE x \in TextOf(o)
      BY <2>3 DEF TextOf
    <3>3. ASSUME NEW x \in TextOf(b) PROVE x \in TextOf(o)
      BY <2>6 DEF TextOf
    <3> QED
      BY <3>1, <3>2, <3>3
  <2> QED
    BY <2>4, <2>7 DEF o
<1>10. Gated(u)
  <2>1. Gated(term)
    BY <1>2 DEF Sound
  <2> QED
    BY <1>7, <2>1, GatedSame
<1>11. Sound(u)
  <2>1. Bounded(u)
    BY <1>2, <1>7, FieldTypes DEF Sound, Bounded
  <2> QED
    BY <1>2, <1>7, <1>8, <1>9, <1>10, <2>1 DEF Sound
<1>12. Shown' \subseteq Shown /\ Accounted(term) \subseteq Accounted(term')
  BY <1>3, <1>4, <1>6, <1>7, <1>8, <1>9 DEF Shown, Output, Accounted
<1>13. Idle'
  BY <1>1, <1>2, <1>12 DEF Idle
<1>14. TypeOK'
  BY <1>1, <1>2, <1>3, <1>7 DEF TypeOK
<1>15. term'.lost # {} => Excuse(term', longest')
  BY <1>1, <1>3, <1>7 DEF HandlerInv, Excuse
<1> QED
  BY <1>1, <1>3, <1>11, <1>13, <1>14, <1>15 DEF Good, HandlerInv

\* setMaxBufferSize: a limit that is not above the size counts as shrunk.
LEMMA SetMaxBufferSizeInv ==
  ASSUME HandlerInv, NEW n \in Limits, SetMaxBufferSize(n)
  PROVE  Good
<1> DEFINE least  == IF n < term.least THEN n ELSE term.least
           shrunk == term.shrunk \/ n <= term.size
           u == [term EXCEPT !.limit = n, !.least = least, !.shrunk = shrunk]
<1>1. Sound(term) /\ todo' \in Seq(Command)
      /\ UNCHANGED <<data, remaining, pc, base, histVars>>
  BY DEF HandlerInv, SetMaxBufferSize, Owner
<1>2. /\ term \in Terminal /\ Gated(term) /\ term.pendingText = <<>>
      /\ InOrder(Out(term))
  BY <1>1 DEF Sound
<1>3. term' = u
  BY <1>2 DEF SetMaxBufferSize, Terminal
<1>4. /\ n \in Nat /\ term.least \in Nat /\ term.size \in Nat
      /\ term.shrunk \in BOOLEAN
  BY <1>2, HandlerAssumption, FieldTypes
<1>5. /\ least \in Nat /\ least <= n /\ least <= term.least
      /\ shrunk \in BOOLEAN /\ (term.shrunk => shrunk)
      /\ shrunk \/ term.size < n
  BY <1>4
<1> HIDE DEF least, shrunk
<1>6. /\ u \in Terminal /\ u.gate = term.gate /\ u.enabled = term.enabled
      /\ u.silent = term.silent /\ u.rendered = term.rendered
      /\ u.buffer = term.buffer /\ u.size = term.size /\ u.limit = n
      /\ u.least = least /\ u.shrunk = shrunk /\ u.lost = term.lost
      /\ u.discarded = term.discarded /\ u.pendingText = term.pendingText
  BY <1>2, <1>4, <1>5 DEF Terminal
<1> HIDE DEF u
<1>7. Out(u) = Out(term) /\ Bounded(u) /\ Gated(u)
  BY <1>2, <1>5, <1>6 DEF Out, Bounded, Gated
<1>8. Quiet(term, u)
  BY <1>1, <1>2, <1>5, <1>6, <1>7, SoundOut DEF Quiet, Sound
<1> QED
  BY <1>1, <1>3, <1>8, QuietInv

-----------------------------------------------------------------------------
(* The theorems.                                                           *)

LEMMA StutterInv ==
  ASSUME HandlerInv, UNCHANGED vars
  PROVE  HandlerInv'
  BY DEF HandlerInv, TypeOK, Idle, FirstTurn, LaterTurn, Shown, Output,
         Sound, Gated, Bounded, Out, EndOf, Accounted, Excuse, vars, histVars

LEMMA NextInv ==
  ASSUME HandlerInv, Next
  PROVE  Good
<1>1. ASSUME NEW chunk \in Chunks, ProcessInput(chunk) PROVE Good
  BY <1>1, ProcessInputInv
<1>2. ASSUME NEW late \in BOOLEAN,
             TextTurn(late) \/ EscapeTurn(late) \/ NextCommand(late)
      PROVE  Good
  BY <1>2, TextTurnInv, EscapeTurnInv, NextCommandInv
<1>3. ASSUME NEW on \in BOOLEAN, ManagerChangeMode(on) PROVE Good
  BY <1>3, ManagerChangeModeInv
<1>4. CASE EndTurn
  BY <1>4, EndTurnInv
<1>5. CASE ForceFlush
  BY <1>5, ForceFlushInv
<1>6. CASE ClearBuffer
  BY <1>6, ClearBufferInv
<1>7. CASE ManagerSaveModes
  BY <1>7, ManagerSaveModesInv
<1>8. CASE ManagerRestoreModes
  BY <1>8, ManagerRestoreModesInv
<1>9. CASE ManagerResetAllModes
  BY <1>9, ManagerResetAllModesInv
<1>10. ASSUME NEW n \in Limits, SetMaxBufferSize(n) PROVE Good
  BY <1>10, SetMaxBufferSizeInv
<1> QED
  BY <1>1, <1>2, <1>3, <1>4, <1>5, <1>6, <1>7, <1>8, <1>9, <1>10
     DEF Next, Continue

LEMMA Invariance == Spec => []HandlerInv
<1>1. HandlerInv /\ [Next]_vars => HandlerInv'
  BY NextInv, StutterInv DEF Good
<1> QED
  BY <1>1, InitInv, PTL DEF Spec

\* The state of TerminalHandler keeps its types for any data: every mode a
\* command names is one that TerminalMode knows, every item is complete.
THEOREM TypeCorrect == Spec => []TypeOK
<1>1. HandlerInv => TypeOK
  BY DEF HandlerInv
<1> QED
  BY <1>1, Invariance, PTL

\* The gate of the buffer follows SYNCHRONIZED_OUTPUT unless resetAllModes
\* changed it in silence, and an open gate holds nothing back.
THEOREM GateIsFollowed == Spec => []GateFollowsMode
<1>1. HandlerInv => GateFollowsMode
  BY DEF HandlerInv, Sound, Gated, GateFollowsMode
<1> QED
  BY <1>1, Invariance, PTL

\* Text comes out once and in order, and the text in front of the first ESC
\* of every finished call is rendered, buffered or cleared, however the data
\* is cut into calls and sequences; the buffer loses text only if it exceeds a
\* limit there was, or after a limit was lowered to what it held.
THEOREM PlainTextComesOut == Spec => []PlainTextAppears
<1>1. HandlerInv => PlainTextAppears
  BY DEF HandlerInv, Sound, Idle, FirstTurn, LaterTurn, Accounted, Excuse,
         Output, PlainTextAppears
<1> QED
  BY <1>1, Invariance, PTL

\* Whatever the data, another turn of processInput's loop meets an incomplete
\* sequence at its end, gets no command out of it and leaves it as it is.
THEOREM LaterTurnsAreIdle == Spec => []LaterTurnsDoNothing
<1>1. ASSUME HandlerInv PROVE LaterTurnsDoNothing
  <2> SUFFICES ASSUME pc = "loop", remaining # data
               PROVE  /\ remaining # <<>>
                      /\ remaining[1] = ESC
                      /\ remaining = SubSeq(data,
                           Len(data) - Len(remaining) + 1, Len(data))
                      /\ Parsed[remaining].commands = <<>>
                      /\ Parsed[remaining].parser.buffer = remaining
    BY DEF LaterTurnsDoNothing
  <2>1. /\ data \in Chunks /\ remaining # <<>> /\ remaining[1] = ESC
        /\ Refed(remaining) /\ EndOf(remaining, data)
    BY <1>1 DEF HandlerInv, Idle, FirstTurn, LaterTurn
  <2>2. data \in Seq(Bytes)
    BY <2>1, HandlerAssumption
  <2>3. PICK k \in 1..(Len(data) + 1) : remaining = SubSeq(data, k, Len(data))
    BY <2>1 DEF EndOf
  <2>4. k <= Len(data) /\ Len(remaining) = Len(data) - k + 1
    <3>1. Len(data) \in Nat /\ k \in Int
      BY <2>2
    <3>2. Len(remaining) = IF k <= Len(data) THEN Len(data) - k + 1 ELSE 0
      <4>1. \A i \in k..Len(data) : data[i] \in Bytes
        BY <2>2
      <4> QED
        BY <2>3, <3>1, <4>1, SubSeqProperties
    <3>3. k <= Len(data)
      BY <2>1, <2>2, <2>3, <3>1
    <3> QED
      BY <3>2, <3>3
  <2>5. Len(data) - Len(remaining) + 1 = k /\ k \in 1..Len(data)
    BY <2>2, <2>4
  <2>6. Parsed[remaining] = Feed(Cleared, remaining)
    <3>1. Len(data) \in 0..Len(data)
      BY <2>2
    <3>2. remaining \in Pieces
      BY <2>1, <2>3, <2>5, <3>1 DEF Pieces
    <3> QED
      BY <3>2 DEF Parsed
  <2> QED
    BY <2>1, <2>3, <2>5, <2>6 DEF Refed
<1> QED
  BY <1>1, Invariance, PTL

\* No call but clearBuffer takes output back or lets an item overtake another.
THEOREM OutputGrows == Spec => OutputOnlyGrows
<1>1. HandlerInv /\ [Next]_vars => [ClearBuffer \/ IsPrefix(Output, Output')]_vars
  BY NextInv DEF Good
<1> QED
  BY <1>1, Invariance, PTL DEF Spec, OutputOnlyGrows
=============================================================================
