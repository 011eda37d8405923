--------------------------- MODULE LineEditorProofs ---------------------------
(***************************************************************************)
(* Theorems about LineEditor, for any tables of words, lines of any length *)
(* and any number of them: what the bytes that are written make of the     *)
(* screen, what completion makes of a line, and what the history holds.    *)
(*                                                                         *)
(* Written, Split and Spaced are recursive functions of a length.  Facts   *)
(* about them are proved by induction in the forms of NatInSet and         *)
(* SeqInSet, about sets, since the provers cannot instantiate an induction *)
(* theorem with a predicate.                                               *)
(***************************************************************************)
EXTENDS LineEditor, SequenceTheorems, FiniteSetTheorems, WellFoundedInduction, TLAPS

(***************************************************************************)
(* Induction.                                                               *)
(***************************************************************************)
LEMMA LeastNumber ==
  ASSUME NEW T \in SUBSET Nat, T # {}
  PROVE  \E n \in T : \A m \in T : n <= m
<1>1. IsWellFoundedOn(OpToRel(<, Nat), Nat)
  BY NatLessThanWellFounded
<1>2. PICK n \in T : \A m \in T : ~ (<<m, n>> \in OpToRel(<, Nat))
  BY <1>1, WFMin
<1>3. \A m \in T : ~ (m < n)
  BY <1>2 DEF OpToRel
<1> QED
  BY <1>3

LEMMA NatInSet ==
  ASSUME NEW S, 0 \in S, \A n \in Nat : n \in S => n + 1 \in S
  PROVE  Nat \subseteq S
<1> SUFFICES ASSUME Nat \ S # {} PROVE FALSE
  OBVIOUS
<1>1. PICK n \in Nat \ S : \A m \in Nat \ S : n <= m
  BY LeastNumber
<1>2. n - 1 \in Nat /\ n - 1 \in S
  BY <1>1
<1> QED
  BY <1>2

LEMMA SeqInSet ==
  ASSUME NEW A, NEW S, <<>> \in S,
         \A s \in Seq(A), a \in A : s \in S => Append(s, a) \in S
  PROVE  Seq(A) \subseteq S
<1> DEFINE lengths == {n \in Nat : \A s \in Seq(A) : Len(s) = n => s \in S}
<1>1. 0 \in lengths
  BY EmptySeq
<1>2. ASSUME NEW n \in Nat, n \in lengths PROVE n + 1 \in lengths
  <2> SUFFICES ASSUME NEW t \in Seq(A), Len(t) = n + 1 PROVE t \in S
    OBVIOUS
  <2>1. PICK s \in Seq(A), a \in A : t = Append(s, a)
    BY SequenceEmptyOrAppend, EmptySeq
  <2>2. Len(s) = n
    BY <2>1, AppendProperties, LenProperties
  <2> QED
    BY <1>2, <2>1, <2>2
<1>3. Nat \subseteq lengths
  <2> HIDE DEF lengths
  <2> QED
    BY <1>1, <1>2, NatInSet
<1> QED
  BY <1>3, LenProperties

LEMMA AppendToConcat ==
  ASSUME NEW A, NEW s \in Seq(A), NEW t \in Seq(A), NEW a \in A
  PROVE  s \o Append(t, a) = Append(s \o t, a)
OBVIOUS

-----------------------------------------------------------------------------
(* What a write makes of the screen.                                        *)

\* Every byte changes the screen as Receive says.
LEMMA WrittenBytes ==
  ASSUME NEW scr, NEW bytes, Len(bytes) \in Nat
  PROVE  \E upTo : /\ upTo[0] = scr
                   /\ \A i \in 1 .. Len(bytes) : upTo[i] = Receive(upTo[i - 1], bytes, i)
                   /\ Written(scr, bytes) = upTo[Len(bytes)]
<1> DEFINE step(f, i) == IF i = 0 THEN scr ELSE Receive(f[i - 1], bytes, i)
           isRun(n, f) == f = [i \in 0 .. n |-> step(f, i)]
           ends == {n \in Nat : \E f : isRun(n, f)}
<1>1. 0 \in ends
  <2>1. isRun(0, [i \in 0 .. 0 |-> scr])
    OBVIOUS
  <2> QED
    BY <2>1
<1>2. ASSUME NEW n \in Nat, n \in ends PROVE n + 1 \in ends
  <2>1. PICK f : isRun(n, f)
    BY <1>2
  <2> DEFINE g == [i \in 0 .. n + 1 |-> IF i <= n THEN f[i] ELSE Receive(f[n], bytes, n + 1)]
  <2>2. ASSUME NEW i \in 0 .. n + 1 PROVE g[i] = step(g, i)
    <3>1. CASE i = 0
      BY <2>1, <3>1
    <3>2. CASE i \in 1 .. n
      BY <2>1, <3>2
    <3>3. CASE i = n + 1
      BY <2>1, <3>3
    <3> QED
      BY <3>1, <3>2, <3>3
  <2>3. isRun(n + 1, g)
    BY <2>2
  <2> HIDE DEF isRun
  <2> QED
    BY <2>3
<1>3. Len(bytes) \in ends
  <2> HIDE DEF ends
  <2> QED
    BY <1>1, <1>2, NatInSet
<1> DEFINE run == CHOOSE f : isRun(Len(bytes), f)
<1>4. isRun(Len(bytes), run)
  BY <1>3
<1>5. Written(scr, bytes) = run[Len(bytes)]
  BY DEF Written
<1>6. run[0] = scr /\ \A i \in 1 .. Len(bytes) : run[i] = Receive(run[i - 1], bytes, i)
  <2> HIDE DEF run
  <2> QED
    BY <1>4
<1> QED
  BY <1>5, <1>6

LEMMA NothingWritten == ASSUME NEW scr PROVE Written(scr, <<>>) = scr
BY WrittenBytes

\* Writing one more byte: the run for the shorter sequence is the beginning of
\* the run for the longer one.
LEMMA WrittenAppend ==
  ASSUME NEW S, NEW bytes \in Seq(S), NEW b \in S, NEW scr
  PROVE  Written(scr, Append(bytes, b)) =
           Receive(Written(scr, bytes), Append(bytes, b), Len(bytes) + 1)
<1> DEFINE more == Append(bytes, b)
           n == Len(bytes)
<1>1. /\ n \in Nat /\ Len(more) = n + 1
      /\ \A i \in 1 .. n : more[i] = bytes[i]
  OBVIOUS
<1>2. ASSUME NEW old, NEW i \in 1 .. n PROVE Receive(old, more, i) = Receive(old, bytes, i)
  BY <1>1 DEF Receive, Bare
<1> HIDE DEF more, n
<1>3. PICK f : /\ f[0] = scr
               /\ \A i \in 1 .. n : f[i] = Receive(f[i - 1], bytes, i)
               /\ Written(scr, bytes) = f[n]
  BY <1>1, WrittenBytes DEF n
<1>4. PICK g : /\ g[0] = scr
               /\ \A i \in 1 .. n + 1 : g[i] = Receive(g[i - 1], more, i)
               /\ Written(scr, more) = g[n + 1]
  <2>1. Len(more) \in Nat
    BY <1>1
  <2>2. \E g : /\ g[0] = scr
               /\ \A i \in 1 .. Len(more) : g[i] = Receive(g[i - 1], more, i)
               /\ Written(scr, more) = g[Len(more)]
    BY <2>1, WrittenBytes, Zenon
  <2> QED
    BY <1>1, <2>2, Zenon
<1> DEFINE same == {i \in Nat : i <= n => g[i] = f[i]}
<1>5. 0 \in same
  BY <1>3, <1>4
<1>6. ASSUME NEW i \in Nat, i \in same PROVE i + 1 \in same
  <2> SUFFICES ASSUME i + 1 <= n PROVE g[i + 1] = f[i + 1]
    OBVIOUS
  <2>1. i <= n /\ i + 1 \in 1 .. n /\ i + 1 \in 1 .. n + 1 /\ (i + 1) - 1 = i
    BY <1>1
  <2>2. g[i] = f[i]
    BY <1>6, <2>1
  <2>3. f[i + 1] = Receive(f[i], bytes, i + 1) /\ g[i + 1] = Receive(g[i], more, i + 1)
    BY <1>3, <1>4, <2>1
  <2> QED
    BY <1>2, <2>1, <2>2, <2>3
<1>7. n \in same
  <2> HIDE DEF same
  <2> QED
    BY <1>1, <1>5, <1>6, NatInSet
<1>8. g[n] = f[n] /\ n + 1 \in 1 .. n + 1 /\ (n + 1) - 1 = n
  BY <1>1, <1>7
<1>9. g[n + 1] = Receive(g[n], more, n + 1)
  BY <1>4, <1>8
<1> QED
  BY <1>3, <1>4, <1>8, <1>9 DEF more, n

\* A byte that is no LF, or an LF after a CR, gets to the client as it is.
LEMMA WrittenAsIs ==
  ASSUME NEW S, NEW bytes \in Seq(S), NEW b \in S, NEW scr,
         b # LF \/ (bytes # <<>> /\ bytes[Len(bytes)] = CR)
  PROVE  Written(scr, Append(bytes, b)) = Relay(Written(scr, bytes), b)
<1>1. /\ Append(bytes, b)[Len(bytes) + 1] = b
      /\ bytes # <<>> => Len(bytes) # 0 /\ Append(bytes, b)[Len(bytes)] = bytes[Len(bytes)]
  OBVIOUS
<1>2. ~ Bare(Append(bytes, b), Len(bytes) + 1)
  BY <1>1 DEF Bare
<1> QED
  BY <1>1, <1>2, WrittenAppend DEF Receive

LEMMA BareWritten ==
  ASSUME NEW S, NEW bytes \in Seq(S), LF \in S, NEW scr,
         bytes = <<>> \/ bytes[Len(bytes)] # CR
  PROVE  Written(scr, Append(bytes, LF)) = Relay(Relay(Written(scr, bytes), CR), LF)
<1>1. /\ Append(bytes, LF)[Len(bytes) + 1] = LF
      /\ bytes # <<>> => Len(bytes) # 0 /\ Append(bytes, LF)[Len(bytes)] = bytes[Len(bytes)]
      /\ bytes = <<>> => Len(bytes) = 0
      /\ Len(bytes) \in Nat
  OBVIOUS
<1>2. Bare(Append(bytes, LF), Len(bytes) + 1)
  BY <1>1 DEF Bare
<1> QED
  BY <1>1, <1>2, WrittenAppend DEF Receive

-----------------------------------------------------------------------------
(* The terminal.                                                            *)

\* The client prints, and the cursor is not beyond the end of the row.
Printing(scr) ==
  scr \in [row : Seq(Glyph), col : Nat, iac : {"no"}] /\ scr.col <= Len(scr.row)

\* From old to new the text has been written over the row.
Overwritten(old, text, new) ==
  /\ Printing(new)
  /\ new.col = old.col + Len(text)
  /\ Len(new.row) = IF new.col > Len(old.row) THEN new.col ELSE Len(old.row)
  /\ \A i \in 1 .. Len(new.row) :
       new.row[i] = IF old.col < i /\ i <= new.col THEN text[i - old.col] ELSE old.row[i]

LEMMA GlyphsArePrinted == \A b \in Glyph : b \notin {IAC, BS, CR, LF, BEL}
BY PrintableAssumption DEF Glyph, IAC, BS, CR, LF, BEL

LEMMA SpaceIsGlyph == Space \in Glyph
BY TablesAssumption DEF Glyph

\* One character.
LEMMA GlyphWritten ==
  ASSUME NEW scr, Printing(scr), NEW b \in Glyph
  PROVE  /\ Printing(Relay(scr, b))
         /\ Relay(scr, b).col = scr.col + 1
         /\ Len(Relay(scr, b).row) = IF scr.col + 1 > Len(scr.row) THEN scr.col + 1 ELSE Len(scr.row)
         /\ \A i \in 1 .. Len(Relay(scr, b).row) :
              Relay(scr, b).row[i] = IF i = scr.col + 1 THEN b ELSE scr.row[i]
<1> DEFINE n == IF scr.col + 1 > Len(scr.row) THEN scr.col + 1 ELSE Len(scr.row)
           row == [i \in 1 .. n |-> CASE i = scr.col + 1 -> b
                                      [] i # scr.col + 1 /\ i <= Len(scr.row) -> scr.row[i]
                                      [] OTHER -> Space]
<1>1. /\ scr.row \in Seq(Glyph) /\ Len(scr.row) \in Nat /\ scr.col \in Nat /\ scr.iac = "no"
      /\ scr.col <= Len(scr.row) /\ n \in Nat
      /\ scr = [row |-> scr.row, col |-> scr.col, iac |-> "no"]
  BY DEF Printing
<1>2. Max({Len(scr.row), scr.col + 1}) = n
  BY <1>1 DEF Max
<1>3. Relay(scr, b) = [row |-> row, col |-> scr.col + 1, iac |-> "no"]
  <2>1. Relay(scr, b) = Put(scr, b)
    BY <1>1, GlyphsArePrinted DEF Relay
  <2>2. Put(scr, b) = [scr EXCEPT !.row = row, !.col = @ + 1]
    BY <1>2, GlyphsArePrinted DEF Put
  <2> HIDE DEF row
  <2> QED
    BY <1>1, <2>1, <2>2
<1>4. row \in Seq(Glyph) /\ Len(row) = n
  BY <1>1, SpaceIsGlyph
<1>5. \A i \in 1 .. n : row[i] = IF i = scr.col + 1 THEN b ELSE scr.row[i]
  BY <1>1
<1> HIDE DEF row
<1> QED
  BY <1>1, <1>3, <1>4, <1>5 DEF Printing

Byte == Glyph \cup {IAC, BS, CR, LF, BEL} \cup Negotiation \cup Option

LEMMA BytesAre ==
  /\ Glyph \subseteq Byte /\ {IAC, BS, CR, LF, BEL} \subseteq Byte
  /\ Negotiation \subseteq Byte /\ Option \subseteq Byte
BY DEF Byte

LEMMA OverwrittenByNothing ==
  ASSUME NEW scr, Printing(scr)
  PROVE  Overwritten(scr, <<>>, scr)
<1>1. scr.col \in Nat /\ Len(scr.row) \in Nat /\ scr.col <= Len(scr.row) /\ Len(<<>>) = 0
  BY DEF Printing
<1> QED
  BY <1>1 DEF Overwritten

LEMMA OverwrittenByOneMore ==
  ASSUME NEW old, Printing(old), NEW text \in Seq(Glyph), NEW scr,
         Overwritten(old, text, scr), NEW b \in Glyph
  PROVE  Overwritten(old, Append(text, b), Relay(scr, b))
<1> DEFINE new == Relay(scr, b)
           n == Len(text)
           more == Append(text, b)
<1>1. /\ n \in Nat /\ Len(more) = n + 1 /\ more[n + 1] = b
      /\ \A i \in 1 .. n : more[i] = text[i]
  OBVIOUS
<1>2. Printing(scr)
  BY DEF Overwritten
<1>3. /\ Printing(new) /\ new.col = scr.col + 1
      /\ Len(new.row) = IF new.col > Len(scr.row) THEN new.col ELSE Len(scr.row)
      /\ \A i \in 1 .. Len(new.row) : new.row[i] = IF i = new.col THEN b ELSE scr.row[i]
  BY <1>2, GlyphWritten
<1>4. /\ old.col \in Nat /\ Len(old.row) \in Nat /\ old.col <= Len(old.row)
      /\ scr.col \in Nat /\ Len(scr.row) \in Nat /\ scr.col <= Len(scr.row) /\ Len(new.row) \in Nat
  BY <1>2, <1>3 DEF Printing
<1> HIDE DEF new, n, more
<1>5. /\ scr.col = old.col + n
      /\ Len(scr.row) = IF scr.col > Len(old.row) THEN scr.col ELSE Len(old.row)
      /\ \A i \in 1 .. Len(scr.row) :
           scr.row[i] = IF old.col < i /\ i <= scr.col THEN text[i - old.col] ELSE old.row[i]
  BY DEF Overwritten, n
<1>6. n \in Nat /\ scr.col = old.col + n /\ new.col = scr.col + 1
  BY <1>1, <1>3, <1>5
<1>7. Len(new.row) = IF new.col > Len(scr.row) THEN new.col ELSE Len(scr.row)
  BY <1>3
<1>8. /\ new.col = old.col + (n + 1)
      /\ Len(new.row) = IF new.col > Len(old.row) THEN new.col ELSE Len(old.row)
  <2>1. Len(scr.row) = IF scr.col > Len(old.row) THEN scr.col ELSE Len(old.row)
    BY <1>5
  <2> QED
    BY <1>4, <1>6, <1>7, <2>1
<1>9. ASSUME NEW i \in 1 .. Len(new.row)
      PROVE  new.row[i] = IF old.col < i /\ i <= new.col THEN more[i - old.col] ELSE old.row[i]
  <2>1. CASE i = new.col
    <3>1. old.col < i /\ i - old.col = n + 1
      BY <1>4, <1>6, <2>1
    <3>2. new.row[i] = b
      BY <1>3, <2>1
    <3> QED
      BY <1>1, <2>1, <3>1, <3>2
  <2>2. CASE i # new.col
    <3>1. i \in 1 .. Len(scr.row)
      BY <1>4, <1>6, <1>7, <2>2
    <3>2. new.row[i] = IF old.col < i /\ i <= scr.col THEN text[i - old.col] ELSE old.row[i]
      <4>1. new.row[i] = scr.row[i]
        BY <1>3, <2>2
      <4> QED
        BY <1>5, <3>1, <4>1
    <3>3. old.col < i /\ i <= scr.col <=> old.col < i /\ i <= new.col
      BY <1>4, <1>6, <2>2, <3>1
    <3>4. old.col < i /\ i <= scr.col => i - old.col \in 1 .. n
      BY <1>4, <1>6, <3>1
    <3> QED
      BY <1>1, <3>2, <3>3, <3>4
  <2> QED
    BY <2>1, <2>2
<1> QED
  BY <1>1, <1>3, <1>8, <1>9 DEF Overwritten, new, more

\* A text, after whatever has been written before.
LEMMA TextWritten ==
  ASSUME NEW bytes \in Seq(Byte), NEW text \in Seq(Glyph), NEW scr,
         Printing(Written(scr, bytes))
  PROVE  Overwritten(Written(scr, bytes), text, Written(scr, bytes \o text))
<1> DEFINE old == Written(scr, bytes)
           Goods == {t \in Seq(Glyph) : Overwritten(old, t, Written(scr, bytes \o t))}
<1>1. <<>> \in Goods
  <2>1. bytes \o <<>> = bytes
    BY ConcatEmptySeq
  <2>2. Overwritten(old, <<>>, old)
    BY OverwrittenByNothing
  <2> QED
    BY <2>1, <2>2
<1>2. ASSUME NEW t \in Seq(Glyph), NEW b \in Glyph, t \in Goods PROVE Append(t, b) \in Goods
  <2> DEFINE begun == bytes \o t
  <2>1. t \in Seq(Byte) /\ b \in Byte /\ b # LF
    BY BytesAre, GlyphsArePrinted
  <2>2. begun \in Seq(Byte) /\ bytes \o Append(t, b) = Append(begun, b)
    BY <2>1, AppendToConcat
  <2>3. Overwritten(old, t, Written(scr, begun))
    BY <1>2
  <2> HIDE DEF begun, old
  <2>4. Written(scr, Append(begun, b)) = Relay(Written(scr, begun), b)
    BY <2>1, <2>2, WrittenAsIs
  <2>5. Overwritten(old, Append(t, b), Relay(Written(scr, begun), b))
    BY <2>3, OverwrittenByOneMore DEF old
  <2>6. Append(t, b) \in Seq(Glyph)
    BY AppendProperties
  <2> QED
    BY <2>2, <2>4, <2>5, <2>6
<1>3. Seq(Glyph) \subseteq Goods
  <2> HIDE DEF Goods
  <2> QED
    BY <1>1, <1>2, SeqInSet
<1> QED
  BY <1>3

LEMMA PlainText ==
  ASSUME NEW scr, Printing(scr), NEW text \in Seq(Glyph)
  PROVE  Overwritten(scr, text, Written(scr, text))
<1>1. <<>> \in Seq(Byte) /\ Written(scr, <<>>) = scr /\ <<>> \o text = text
  BY NothingWritten
<1> QED
  BY <1>1, TextWritten

-----------------------------------------------------------------------------
(* What the editor, the commands and the log write.                         *)

\* The cursor is at the beginning of an empty row.
NewRow == [row |-> <<>>, col |-> 0, iac |-> "no"]

LEMMA NewRowPrints == Printing(NewRow) /\ NewRow # Lost
BY DEF NewRow, Printing, Lost

\* Control characters, after whatever has been written before.
LEMMA ReturnIs ==
  ASSUME NEW scr, Printing(scr)
  PROVE  Relay(scr, CR) = [row |-> scr.row, col |-> 0, iac |-> "no"]
BY DEF Relay, Put, Printing, IAC, BS, CR, LF, BEL

LEMMA LineFeedIs ==
  ASSUME NEW scr, Printing(scr), scr.col = 0
  PROVE  Relay(scr, LF) = NewRow
BY DEF Relay, Put, Printing, NewRow, IAC, BS, CR, LF, BEL

LEMMA BackIs ==
  ASSUME NEW scr, Printing(scr)
  PROVE  Relay(scr, BS) = [row |-> scr.row, col |-> IF scr.col > 0 THEN scr.col - 1 ELSE 0, iac |-> "no"]
BY DEF Relay, Put, Printing, IAC, BS, CR, LF, BEL

LEMMA BellIs ==
  ASSUME NEW scr, Printing(scr)
  PROVE  Relay(scr, BEL) = scr
BY DEF Relay, Put, Printing, IAC, BS, CR, LF, BEL

LEMMA ControlsPrint ==
  ASSUME NEW scr, Printing(scr)
  PROVE  /\ Printing(Relay(scr, CR)) /\ Relay(scr, CR).col = 0 /\ Relay(scr, CR).row = scr.row
         /\ Relay(Relay(scr, CR), LF) = NewRow
         /\ Printing(Relay(scr, BS)) /\ Relay(scr, BS).row = scr.row
         /\ Relay(scr, BS).col = IF scr.col > 0 THEN scr.col - 1 ELSE 0
<1>1. scr.row \in Seq(Glyph) /\ Len(scr.row) \in Nat /\ scr.col \in Nat /\ scr.col <= Len(scr.row)
  BY DEF Printing
<1>2. Printing(Relay(scr, CR)) /\ Relay(scr, CR).col = 0 /\ Relay(scr, CR).row = scr.row
  BY <1>1, ReturnIs DEF Printing
<1>3. Relay(Relay(scr, CR), LF) = NewRow
  BY <1>2, LineFeedIs
<1>4. /\ Printing(Relay(scr, BS)) /\ Relay(scr, BS).row = scr.row
      /\ Relay(scr, BS).col = IF scr.col > 0 THEN scr.col - 1 ELSE 0
  BY <1>1, BackIs DEF Printing
<1> QED
  BY <1>2, <1>3, <1>4

LEMMA OneByteWritten ==
  ASSUME NEW scr, NEW b \in Byte, b # LF
  PROVE  Written(scr, <<b>>) = Relay(scr, b)
<1> DEFINE none == <<>>
<1>1. none \in Seq(Byte) /\ <<b>> = Append(none, b)
  OBVIOUS
<1>2. Written(scr, none) = scr
  BY NothingWritten
<1> HIDE DEF none
<1>3. Written(scr, Append(none, b)) = Relay(Written(scr, none), b)
  BY <1>1, WrittenAsIs
<1> QED
  BY <1>1, <1>2, <1>3

\* Enter.
LEMMA LineEndWritten ==
  ASSUME NEW scr, Printing(scr)
  PROVE  Written(scr, <<CR, LF>>) = NewRow
<1> DEFINE return == <<CR>>
<1>1. /\ return \in Seq(Byte) /\ LF \in Byte /\ <<CR, LF>> = Append(return, LF)
      /\ return # <<>> /\ return[Len(return)] = CR
  BY BytesAre
<1>2. Written(scr, return) = Relay(scr, CR)
  BY BytesAre, OneByteWritten DEF CR, LF
<1> HIDE DEF return
<1>3. Written(scr, Append(return, LF)) = Relay(Written(scr, return), LF)
  BY <1>1, WrittenAsIs
<1> QED
  BY <1>1, <1>2, <1>3, ControlsPrint

\* Backspace: the last character and what is behind the cursor are blanked.
LEMMA BackspaceWritten ==
  ASSUME NEW scr, Printing(scr)
  PROVE  LET new == Written(scr, <<BS, Space, BS>>)
         IN  /\ Printing(new)
             /\ new.col = IF scr.col > 0 THEN scr.col - 1 ELSE 0
             /\ Len(new.row) \in {Len(scr.row), new.col + 1}
             /\ \A i \in 1 .. Len(new.row) :
                  new.row[i] = IF i = new.col + 1 THEN Space ELSE scr.row[i]
             /\ \A i \in 1 .. Len(new.row) : i # new.col + 1 => i \in 1 .. Len(scr.row)
<1> DEFINE back == Relay(scr, BS)
           blank == Relay(back, Space)
           new == Relay(blank, BS)
<1>1. /\ BS \in Byte /\ BS # LF /\ Space \in Byte /\ Space # LF /\ Space \in Glyph
  BY BytesAre, SpaceIsGlyph, GlyphsArePrinted DEF BS, LF
<1>2. Written(scr, <<BS>>) = back
  BY <1>1, OneByteWritten
<1>3. Written(scr, <<BS, Space>>) = blank
  <2>1. <<BS>> \in Seq(Byte) /\ <<BS, Space>> = Append(<<BS>>, Space)
    BY <1>1
  <2> QED
    BY <1>1, <1>2, <2>1, WrittenAsIs
<1>4. Written(scr, <<BS, Space, BS>>) = new
  <2>1. <<BS, Space>> \in Seq(Byte) /\ <<BS, Space, BS>> = Append(<<BS, Space>>, BS)
    BY <1>1
  <2> QED
    BY <1>1, <1>3, <2>1, WrittenAsIs
<1>5. /\ Printing(back) /\ back.row = scr.row
      /\ back.col = IF scr.col > 0 THEN scr.col - 1 ELSE 0
  BY ControlsPrint
<1>6. /\ Printing(blank) /\ blank.col = back.col + 1
      /\ Len(blank.row) = IF back.col + 1 > Len(back.row) THEN back.col + 1 ELSE Len(back.row)
      /\ \A i \in 1 .. Len(blank.row) : blank.row[i] = IF i = back.col + 1 THEN Space ELSE back.row[i]
  BY <1>1, <1>5, GlyphWritten
<1>7. back.col \in Nat /\ Len(back.row) \in Nat /\ back.col <= Len(back.row) /\ Len(blank.row) \in Nat
  BY <1>5, <1>6 DEF Printing
<1> HIDE DEF back, blank
<1>8. Printing(new) /\ new.row = blank.row /\ new.col = IF blank.col > 0 THEN blank.col - 1 ELSE 0
  BY <1>6, ControlsPrint
<1> HIDE DEF new
<1>9. new.col = back.col
  BY <1>6, <1>7, <1>8
<1>10. \A i \in 1 .. Len(blank.row) : i # back.col + 1 => i \in 1 .. Len(back.row)
  <2>1. Len(blank.row) = IF back.col + 1 > Len(back.row) THEN back.col + 1 ELSE Len(back.row)
    BY <1>6
  <2> QED
    BY <1>7, <2>1
<1>11. Len(blank.row) \in {Len(back.row), back.col + 1}
  BY <1>6
<1> QED
  BY <1>4, <1>5, <1>6, <1>8, <1>9, <1>10, <1>11

\* One, two or three bytes, after whatever has been written before.
LEMMA ByteAfter ==
  ASSUME NEW bytes \in Seq(Byte), NEW b \in Byte, NEW scr, b # LF
  PROVE  /\ bytes \o <<b>> \in Seq(Byte)
         /\ Written(scr, bytes \o <<b>>) = Relay(Written(scr, bytes), b)
<1>1. bytes \o <<b>> = Append(bytes, b) /\ Append(bytes, b) \in Seq(Byte)
  BY AppendIsConcat
<1> QED
  BY <1>1, WrittenAsIs

LEMMA ThreeAfter ==
  ASSUME NEW bytes \in Seq(Byte), NEW a \in Byte, NEW b \in Byte, NEW c \in Byte, NEW scr,
         LF \notin {a, b, c}
  PROVE  /\ bytes \o <<a, b, c>> \in Seq(Byte)
         /\ Written(scr, bytes \o <<a, b, c>>) = Relay(Relay(Relay(Written(scr, bytes), a), b), c)
<1> DEFINE one == bytes \o <<a>>
           two == one \o <<b>>
<1>1. bytes \o <<a, b, c>> = two \o <<c>>
  <2>1. <<a>> \in Seq(Byte) /\ <<b>> \in Seq(Byte) /\ <<c>> \in Seq(Byte) /\ <<a, b>> \in Seq(Byte)
    OBVIOUS
  <2>2. <<a, b, c>> = Append(<<a, b>>, c) /\ <<a, b>> = Append(<<a>>, b)
    OBVIOUS
  <2>3. Append(<<a, b>>, c) = <<a, b>> \o <<c>>
    BY <2>1, AppendIsConcat
  <2>4. Append(<<a>>, b) = <<a>> \o <<b>>
    BY <2>1, AppendIsConcat
  <2>5. bytes \o (<<a, b>> \o <<c>>) = (bytes \o <<a, b>>) \o <<c>>
    BY <2>1, ConcatAssociative
  <2>6. bytes \o (<<a>> \o <<b>>) = (bytes \o <<a>>) \o <<b>>
    BY <2>1, ConcatAssociative
  <2> QED
    BY <2>2, <2>3, <2>4, <2>5, <2>6, Zenon
<1>2. one \in Seq(Byte) /\ Written(scr, one) = Relay(Written(scr, bytes), a)
  BY ByteAfter
<1> HIDE DEF one
<1>3. two \in Seq(Byte) /\ Written(scr, two) = Relay(Written(scr, one), b)
  BY <1>2, ByteAfter
<1> HIDE DEF two
<1>4. two \o <<c>> \in Seq(Byte) /\ Written(scr, two \o <<c>>) = Relay(Written(scr, two), c)
  BY <1>3, ByteAfter
<1> QED
  BY <1>1, <1>2, <1>3, <1>4, Zenon

\* A command's output, or a log record.
LEMMA OutputAfter ==
  ASSUME NEW bytes \in Seq(Byte), NEW scr, Printing(Written(scr, bytes))
  PROVE  /\ bytes \o OutputLine \in Seq(Byte)
         /\ Written(scr, bytes \o OutputLine) = NewRow
<1> DEFINE text == bytes \o <<"x">>
<1>1. "x" \in Glyph /\ "x" \in Byte /\ "x" # LF /\ "x" # CR /\ LF \in Byte
  BY BytesAre DEF Glyph, LF, CR
<1>2. /\ text \in Seq(Byte) /\ Written(scr, text) = Relay(Written(scr, bytes), "x")
      /\ Printing(Relay(Written(scr, bytes), "x"))
  BY <1>1, ByteAfter, GlyphWritten
<1>3. text[Len(text)] = "x"
  OBVIOUS
<1>4. bytes \o OutputLine = Append(text, LF)
  <2>1. OutputLine = <<"x">> \o <<LF>> /\ <<"x">> \in Seq(Byte) /\ <<LF>> \in Seq(Byte)
    BY <1>1 DEF OutputLine
  <2>2. bytes \o (<<"x">> \o <<LF>>) = text \o <<LF>>
    BY <2>1, ConcatAssociative
  <2> QED
    BY <1>1, <1>2, <2>1, <2>2, AppendIsConcat
<1> HIDE DEF text
<1>5. Written(scr, Append(text, LF)) = Relay(Relay(Written(scr, text), CR), LF)
  BY <1>1, <1>2, <1>3, BareWritten
<1>6. Append(text, LF) \in Seq(Byte)
  BY <1>1, <1>2
<1> QED
  BY <1>2, <1>4, <1>5, <1>6, ControlsPrint

LEMMA OutputWritten ==
  ASSUME NEW scr, Printing(scr)
  PROVE  Written(scr, OutputLine) = NewRow
<1> DEFINE none == <<>>
<1>1. none \in Seq(Byte) /\ none \o OutputLine = OutputLine
  BY DEF OutputLine
<1>2. Written(scr, none) = scr
  BY NothingWritten
<1> HIDE DEF none
<1>3. Written(scr, none \o OutputLine) = NewRow
  BY <1>1, <1>2, OutputAfter
<1> QED
  BY <1>1, <1>3

LEMMA CommandIs ==
  ASSUME NEW row, NEW col, NEW verb \in Negotiation, NEW option
  PROVE  /\ Relay([row |-> row, col |-> col, iac |-> "command"], verb) =
              [row |-> row, col |-> col, iac |-> "option"]
         /\ Relay([row |-> row, col |-> col, iac |-> "option"], option) =
              [row |-> row, col |-> col, iac |-> "no"]
<1> DEFINE command == [row |-> row, col |-> col, iac |-> "command"]
           negotiated == [row |-> row, col |-> col, iac |-> "option"]
<1>1. command.iac = "command" /\ negotiated.iac = "option"
  OBVIOUS
<1>2. [command EXCEPT !.iac = "option"] = negotiated
  OBVIOUS
<1>3. [negotiated EXCEPT !.iac = "no"] = [row |-> row, col |-> col, iac |-> "no"]
  OBVIOUS
<1> HIDE DEF command, negotiated
<1>4. Relay(command, verb) = [command EXCEPT !.iac = "option"]
  <2>1. verb # SB /\ verb # IAC
    BY DEF Negotiation, SB, IAC
  <2> QED
    BY <1>1, <2>1 DEF Relay
<1>5. Relay(negotiated, option) = [negotiated EXCEPT !.iac = "no"]
  BY <1>1 DEF Relay
<1> QED
  BY <1>2, <1>3, <1>4, <1>5 DEF command, negotiated

\* What is negotiated leaves no trace.
LEMMA NegotiationAfter ==
  ASSUME NEW bytes \in Seq(Byte), NEW verb \in Negotiation, NEW option \in Option, NEW scr,
         Printing(Written(scr, bytes))
  PROVE  /\ bytes \o <<IAC, verb, option>> \in Seq(Byte)
         /\ Written(scr, bytes \o <<IAC, verb, option>>) = Written(scr, bytes)
<1> DEFINE old == Written(scr, bytes)
<1>1. IAC \in Byte /\ verb \in Byte /\ option \in Byte /\ LF \notin {IAC, verb, option}
  BY BytesAre DEF IAC, LF, Negotiation, Option, Echo, SGA
<1>2. /\ bytes \o <<IAC, verb, option>> \in Seq(Byte)
      /\ Written(scr, bytes \o <<IAC, verb, option>>) = Relay(Relay(Relay(old, IAC), verb), option)
  BY <1>1, ThreeAfter
<1> HIDE DEF old
<1>3. old = [row |-> old.row, col |-> old.col, iac |-> "no"]
  BY DEF old, Printing
<1>4. Relay(old, IAC) = [row |-> old.row, col |-> old.col, iac |-> "command"]
  BY <1>3 DEF Relay
<1>5. Relay(Relay(old, IAC), verb) = [row |-> old.row, col |-> old.col, iac |-> "option"]
  BY <1>4, CommandIs
<1>6. Relay(Relay(Relay(old, IAC), verb), option) = [row |-> old.row, col |-> old.col, iac |-> "no"]
  BY <1>5, CommandIs
<1> QED
  BY <1>2, <1>3, <1>6 DEF old

LEMMA NegotiationWritten ==
  ASSUME NEW scr, Printing(scr), NEW verb \in Negotiation, NEW option \in Option
  PROVE  Written(scr, <<IAC, verb, option>>) = scr
<1> DEFINE none == <<>>
           answer == <<IAC, verb, option>>
<1>1. none \in Seq(Byte) /\ none \o answer = answer
  OBVIOUS
<1>2. Written(scr, none) = scr
  BY NothingWritten
<1> HIDE DEF none
<1>3. Written(scr, none \o answer) = Written(scr, none)
  BY <1>1, <1>2, NegotiationAfter
<1> QED
  BY <1>1, <1>2, <1>3

-----------------------------------------------------------------------------
(* The prompt and a line.                                                   *)

\* The row holds the prompt, the line and blanks, the cursor behind the line.
Shows(scr, line) ==
  /\ Printing(scr)
  /\ scr.col = Len(Prompt \o line)
  /\ \A i \in 1 .. scr.col : scr.row[i] = (Prompt \o line)[i]
  /\ \A i \in scr.col + 1 .. Len(scr.row) : scr.row[i] = Space

LEMMA PromptIsText ==
  ASSUME NEW line \in Seq(Glyph)
  PROVE  /\ Prompt \in Seq(Glyph) /\ Prompt \o line \in Seq(Glyph)
         /\ Len(Prompt \o line) = Len(Prompt) + Len(line) /\ Len(Prompt) = 2
BY SpaceIsGlyph DEF Prompt, Glyph

LEMMA DrawnOnNewRow ==
  ASSUME NEW line \in Seq(Glyph), NEW new, Overwritten(NewRow, Prompt \o line, new)
  PROVE  Shows(new, line)
<1> DEFINE text == Prompt \o line
<1>1. text \in Seq(Glyph) /\ Len(text) \in Nat
  BY PromptIsText
<1>2. NewRow.col = 0 /\ Len(NewRow.row) = 0
  BY DEF NewRow
<1> HIDE DEF text
<1>3. /\ Printing(new) /\ new.col = Len(text)
      /\ Len(new.row) = IF new.col > 0 THEN new.col ELSE 0
      /\ \A i \in 1 .. Len(new.row) : 0 < i /\ i <= new.col => new.row[i] = text[i - 0]
  BY <1>1, <1>2 DEF Overwritten, text
<1>4. Len(new.row) = new.col
  BY <1>1, <1>3
<1>5. \A i \in 1 .. new.col : new.row[i] = text[i]
  BY <1>1, <1>3, <1>4
<1>6. \A i \in new.col + 1 .. Len(new.row) : new.row[i] = Space
  BY <1>1, <1>3, <1>4
<1> QED
  BY <1>3, <1>5, <1>6 DEF Shows, text

\* The next prompt.
LEMMA PromptWritten == Shows(Written(NewRow, Prompt), <<>>)
<1>1. <<>> \in Seq(Glyph) /\ Prompt \o <<>> = Prompt /\ Prompt \in Seq(Glyph)
  BY SpaceIsGlyph DEF Prompt, Glyph
<1>2. Overwritten(NewRow, Prompt, Written(NewRow, Prompt))
  BY <1>1, NewRowPrints, PlainText
<1> QED
  BY <1>1, <1>2, DrawnOnNewRow

\* Negotiation, welcome and first prompt.
LEMMA GreetingWritten == Shows(Written(NewRow, Greeting), <<>>)
<1> DEFINE g1 == <<IAC, "will", Echo>>
           g2 == g1 \o <<IAC, "will", SGA>>
           g3 == g2 \o <<IAC, "do", SGA>>
           g4 == g3 \o OutputLine
<1>1. Echo \in Option /\ SGA \in Option /\ "will" \in Negotiation /\ "do" \in Negotiation
  BY DEF Option, Negotiation
<1>2. g1 \in Seq(Byte) /\ Written(NewRow, g1) = NewRow
  <2>1. g1 \in Seq(Byte)
    BY <1>1, BytesAre
  <2> QED
    BY <1>1, <2>1, NegotiationWritten, NewRowPrints
<1> HIDE DEF g1
<1>3. g2 \in Seq(Byte) /\ Written(NewRow, g2) = NewRow
  BY <1>1, <1>2, NegotiationAfter, NewRowPrints
<1> HIDE DEF g2
<1>4. g3 \in Seq(Byte) /\ Written(NewRow, g3) = NewRow
  BY <1>1, <1>3, NegotiationAfter, NewRowPrints
<1> HIDE DEF g3
<1>5. g4 \in Seq(Byte) /\ Written(NewRow, g4) = NewRow
  BY <1>4, OutputAfter, NewRowPrints
<1> HIDE DEF g4
<1>6. <<>> \in Seq(Glyph) /\ Prompt \o <<>> = Prompt /\ Prompt \in Seq(Glyph)
  BY SpaceIsGlyph DEF Prompt, Glyph
<1>7. Overwritten(NewRow, Prompt, Written(NewRow, g4 \o Prompt))
  <2>1. Overwritten(Written(NewRow, g4), Prompt, Written(NewRow, g4 \o Prompt))
    BY <1>5, <1>6, TextWritten, NewRowPrints
  <2> QED
    BY <1>5, <2>1
<1>8. Greeting = g4 \o Prompt
  BY DEF Greeting, g4, g3, g2, g1
<1> QED
  BY <1>6, <1>7, <1>8, DrawnOnNewRow

-----------------------------------------------------------------------------
(* Split and Spaced.                                                        *)

LEMMA SplitCharacters ==
  ASSUME NEW line, Len(line) \in Nat
  PROVE  \E upTo : /\ upTo[0] = [fields |-> <<>>, prefix |-> <<>>]
                   /\ \A i \in 1 .. Len(line) : upTo[i] = SplitNext(upTo[i - 1], line[i])
                   /\ Split(line) = upTo[Len(line)]
<1> DEFINE start == [fields |-> <<>>, prefix |-> <<>>]
           step(f, i) == IF i = 0 THEN start ELSE SplitNext(f[i - 1], line[i])
           isRun(n, f) == f = [i \in 0 .. n |-> step(f, i)]
           ends == {n \in Nat : \E f : isRun(n, f)}
<1>1. 0 \in ends
  <2>1. isRun(0, [i \in 0 .. 0 |-> start])
    OBVIOUS
  <2> QED
    BY <2>1
<1>2. ASSUME NEW n \in Nat, n \in ends PROVE n + 1 \in ends
  <2>1. PICK f : isRun(n, f)
    BY <1>2
  <2> DEFINE g == [i \in 0 .. n + 1 |-> IF i <= n THEN f[i] ELSE SplitNext(f[n], line[n + 1])]
  <2>2. ASSUME NEW i \in 0 .. n + 1 PROVE g[i] = step(g, i)
    <3>1. CASE i = 0
      BY <2>1, <3>1
    <3>2. CASE i \in 1 .. n
      BY <2>1, <3>2
    <3>3. CASE i = n + 1
      BY <2>1, <3>3
    <3> QED
      BY <3>1, <3>2, <3>3
  <2>3. isRun(n + 1, g)
    BY <2>2
  <2> HIDE DEF isRun
  <2> QED
    BY <2>3
<1>3. Len(line) \in ends
  <2> HIDE DEF ends
  <2> QED
    BY <1>1, <1>2, NatInSet
<1> DEFINE run == CHOOSE f : isRun(Len(line), f)
<1>4. isRun(Len(line), run)
  BY <1>3
<1>5. Split(line) = run[Len(line)]
  BY DEF Split
<1>6. run[0] = start /\ \A i \in 1 .. Len(line) : run[i] = SplitNext(run[i - 1], line[i])
  <2> HIDE DEF run
  <2> QED
    BY <1>4
<1> QED
  BY <1>5, <1>6

LEMMA SplitNothing == Split(<<>>) = [fields |-> <<>>, prefix |-> <<>>]
BY SplitCharacters, EmptySeq

LEMMA SplitAppend ==
  ASSUME NEW A, NEW line \in Seq(A), NEW c \in A
  PROVE  Split(Append(line, c)) = SplitNext(Split(line), c)
<1> DEFINE more == Append(line, c)
           n == Len(line)
<1>1. /\ n \in Nat /\ Len(more) = n + 1 /\ more[n + 1] = c
      /\ \A i \in 1 .. n : more[i] = line[i]
  OBVIOUS
<1> HIDE DEF more, n
<1>2. PICK f : /\ f[0] = [fields |-> <<>>, prefix |-> <<>>]
               /\ \A i \in 1 .. n : f[i] = SplitNext(f[i - 1], line[i])
               /\ Split(line) = f[n]
  BY <1>1, SplitCharacters DEF n
<1>3. PICK g : /\ g[0] = [fields |-> <<>>, prefix |-> <<>>]
               /\ \A i \in 1 .. n + 1 : g[i] = SplitNext(g[i - 1], more[i])
               /\ Split(more) = g[n + 1]
  <2>1. Len(more) \in Nat
    BY <1>1
  <2>2. \E g : /\ g[0] = [fields |-> <<>>, prefix |-> <<>>]
               /\ \A i \in 1 .. Len(more) : g[i] = SplitNext(g[i - 1], more[i])
               /\ Split(more) = g[Len(more)]
    BY <2>1, SplitCharacters, Zenon
  <2> QED
    BY <1>1, <2>2, Zenon
<1> DEFINE same == {i \in Nat : i <= n => g[i] = f[i]}
<1>4. 0 \in same
  BY <1>2, <1>3
<1>5. ASSUME NEW i \in Nat, i \in same PROVE i + 1 \in same
  <2> SUFFICES ASSUME i + 1 <= n PROVE g[i + 1] = f[i + 1]
    OBVIOUS
  <2>1. i <= n /\ i + 1 \in 1 .. n /\ i + 1 \in 1 .. n + 1 /\ (i + 1) - 1 = i
    BY <1>1
  <2>2. g[i] = f[i] /\ more[i + 1] = line[i + 1]
    BY <1>1, <1>5, <2>1
  <2>3. f[i + 1] = SplitNext(f[i], line[i + 1]) /\ g[i + 1] = SplitNext(g[i], more[i + 1])
    BY <1>2, <1>3, <2>1
  <2> QED
    BY <2>2, <2>3
<1>6. n \in same
  <2> HIDE DEF same
  <2> QED
    BY <1>1, <1>4, <1>5, NatInSet
<1>7. g[n] = f[n] /\ n + 1 \in 1 .. n + 1 /\ (n + 1) - 1 = n
  BY <1>1, <1>6
<1>8. g[n + 1] = SplitNext(g[n], more[n + 1])
  BY <1>3, <1>7
<1> QED
  BY <1>1, <1>2, <1>3, <1>7, <1>8 DEF more

\* A word of the alphabet A, and one that stands between spaces.
WordOf(A) == Seq(A \ {Space})
FieldOf(A) == WordOf(A) \ {<<>>}
WordsOf(A) == [fields : Seq(FieldOf(A)), prefix : WordOf(A)]

LEMMA SplitGivesWords ==
  ASSUME NEW A, NEW line \in Seq(A)
  PROVE  Split(line) \in WordsOf(A)
<1> DEFINE Goods == {l \in Seq(A) : Split(l) \in WordsOf(A)}
<1>1. <<>> \in Goods
  <2>1. <<>> \in Seq(FieldOf(A)) /\ <<>> \in WordOf(A) /\ <<>> \in Seq(A)
    BY EmptySeq DEF WordOf
  <2>2. [fields |-> <<>>, prefix |-> <<>>] \in WordsOf(A)
    BY <2>1 DEF WordsOf
  <2> QED
    BY <2>1, <2>2, SplitNothing
<1>2. ASSUME NEW l \in Seq(A), NEW c \in A, l \in Goods PROVE Append(l, c) \in Goods
  <2> DEFINE words == Split(l)
  <2>1. /\ words.fields \in Seq(FieldOf(A)) /\ words.prefix \in WordOf(A)
        /\ words = [fields |-> words.fields, prefix |-> words.prefix]
    BY <1>2 DEF WordsOf
  <2> HIDE DEF words
  <2>2. ASSUME c # Space PROVE SplitNext(words, c) \in WordsOf(A)
    <3>1. Append(words.prefix, c) \in WordOf(A)
      BY <2>1, <2>2 DEF WordOf
    <3>2. SplitNext(words, c) = [fields |-> words.fields, prefix |-> Append(words.prefix, c)]
      BY <2>1, <2>2 DEF SplitNext
    <3> QED
      BY <2>1, <3>1, <3>2 DEF WordsOf
  <2>3. ASSUME c = Space /\ words.prefix = <<>> PROVE SplitNext(words, c) \in WordsOf(A)
    <3>1. SplitNext(words, c) = words
      BY <2>3 DEF SplitNext
    <3> QED
      BY <2>1, <3>1 DEF WordsOf
  <2>4. ASSUME c = Space /\ words.prefix # <<>> PROVE SplitNext(words, c) \in WordsOf(A)
    <3>1. Append(words.fields, words.prefix) \in Seq(FieldOf(A))
      BY <2>1, <2>4 DEF FieldOf
    <3>2. SplitNext(words, c) = [fields |-> Append(words.fields, words.prefix), prefix |-> <<>>]
      BY <2>4 DEF SplitNext
    <3>3. <<>> \in WordOf(A)
      BY EmptySeq DEF WordOf
    <3> QED
      BY <3>1, <3>2, <3>3 DEF WordsOf
  <2>5. SplitNext(words, c) \in WordsOf(A)
    BY <2>2, <2>3, <2>4
  <2>6. Split(Append(l, c)) = SplitNext(words, c) /\ Append(l, c) \in Seq(A)
    BY SplitAppend, AppendProperties DEF words
  <2> QED
    BY <2>5, <2>6
<1>3. Seq(A) \subseteq Goods
  <2> HIDE DEF Goods
  <2> QED
    BY <1>1, <1>2, SeqInSet
<1> QED
  BY <1>3

\* A word behind a line goes on with the last word of the line.
LEMMA SplitWord ==
  ASSUME NEW A, NEW line \in Seq(A), NEW word \in WordOf(A)
  PROVE  Split(line \o word) = [fields |-> Split(line).fields, prefix |-> Split(line).prefix \o word]
<1> DEFINE old == Split(line)
           Goods == {w \in WordOf(A) : Split(line \o w) = [fields |-> old.fields, prefix |-> old.prefix \o w]}
<1>1. old.prefix \in WordOf(A) /\ old = [fields |-> old.fields, prefix |-> old.prefix]
  BY SplitGivesWords DEF WordsOf
<1>2. <<>> \in Goods
  <2>1. line \o <<>> = line /\ old.prefix \o <<>> = old.prefix
    BY <1>1, ConcatEmptySeq DEF WordOf
  <2>2. <<>> \in WordOf(A)
    BY DEF WordOf
  <2> HIDE DEF old
  <2> QED
    BY <1>1, <2>1, <2>2 DEF old
<1>3. ASSUME NEW w \in WordOf(A), NEW c \in A \ {Space}, w \in Goods PROVE Append(w, c) \in Goods
  <2>1. w \in Seq(A) /\ line \o w \in Seq(A)
    BY DEF WordOf
  <2>2. line \o Append(w, c) = Append(line \o w, c)
    BY <2>1, AppendToConcat
  <2>3. old.prefix \o Append(w, c) = Append(old.prefix \o w, c)
    BY <1>1, AppendToConcat DEF WordOf
  <2>4. Split(Append(line \o w, c)) = SplitNext(Split(line \o w), c)
    BY <2>1, SplitAppend
  <2>5. Split(line \o w) = [fields |-> old.fields, prefix |-> old.prefix \o w]
    BY <1>3
  <2>6. SplitNext([fields |-> old.fields, prefix |-> old.prefix \o w], c) =
          [fields |-> old.fields, prefix |-> Append(old.prefix \o w, c)]
    BY DEF SplitNext
  <2>7. Append(w, c) \in WordOf(A)
    BY DEF WordOf
  <2> QED
    BY <2>2, <2>3, <2>4, <2>5, <2>6, <2>7
<1>4. WordOf(A) \subseteq Goods
  <2> HIDE DEF Goods
  <2> QED
    BY <1>2, <1>3, SeqInSet DEF WordOf
<1> QED
  BY <1>4

LEMMA SpacedFields ==
  ASSUME NEW fields, Len(fields) \in Nat
  PROVE  \E upTo : /\ upTo[0] = <<>>
                   /\ \A i \in 1 .. Len(fields) : upTo[i] = WithField(upTo[i - 1], fields[i])
                   /\ Spaced(fields) = upTo[Len(fields)]
<1> DEFINE step(f, i) == IF i = 0 THEN <<>> ELSE WithField(f[i - 1], fields[i])
           isRun(n, f) == f = [i \in 0 .. n |-> step(f, i)]
           ends == {n \in Nat : \E f : isRun(n, f)}
<1>1. 0 \in ends
  <2>1. isRun(0, [i \in 0 .. 0 |-> <<>>])
    OBVIOUS
  <2> QED
    BY <2>1
<1>2. ASSUME NEW n \in Nat, n \in ends PROVE n + 1 \in ends
  <2>1. PICK f : isRun(n, f)
    BY <1>2
  <2> DEFINE g == [i \in 0 .. n + 1 |-> IF i <= n THEN f[i] ELSE WithField(f[n], fields[n + 1])]
  <2>2. ASSUME NEW i \in 0 .. n + 1 PROVE g[i] = step(g, i)
    <3>1. CASE i = 0
      BY <2>1, <3>1
    <3>2. CASE i \in 1 .. n
      BY <2>1, <3>2
    <3>3. CASE i = n + 1
      BY <2>1, <3>3
    <3> QED
      BY <3>1, <3>2, <3>3
  <2>3. isRun(n + 1, g)
    BY <2>2
  <2> HIDE DEF isRun
  <2> QED
    BY <2>3
<1>3. Len(fields) \in ends
  <2> HIDE DEF ends
  <2> QED
    BY <1>1, <1>2, NatInSet
<1> DEFINE run == CHOOSE f : isRun(Len(fields), f)
<1>4. isRun(Len(fields), run)
  BY <1>3
<1>5. Spaced(fields) = run[Len(fields)]
  BY DEF Spaced
<1>6. run[0] = <<>> /\ \A i \in 1 .. Len(fields) : run[i] = WithField(run[i - 1], fields[i])
  <2> HIDE DEF run
  <2> QED
    BY <1>4
<1> QED
  BY <1>5, <1>6

LEMMA SpacedNothing == Spaced(<<>>) = <<>>
BY SpacedFields, EmptySeq

LEMMA SpacedAppend ==
  ASSUME NEW W, NEW fields \in Seq(W), NEW field \in W
  PROVE  Spaced(Append(fields, field)) = Spaced(fields) \o Append(field, Space)
<1> DEFINE more == Append(fields, field)
           n == Len(fields)
<1>1. /\ n \in Nat /\ Len(more) = n + 1 /\ more[n + 1] = field
      /\ \A i \in 1 .. n : more[i] = fields[i]
  OBVIOUS
<1> HIDE DEF more, n
<1>2. PICK f : /\ f[0] = <<>>
               /\ \A i \in 1 .. n : f[i] = WithField(f[i - 1], fields[i])
               /\ Spaced(fields) = f[n]
  BY <1>1, SpacedFields DEF n
<1>3. PICK g : /\ g[0] = <<>>
               /\ \A i \in 1 .. n + 1 : g[i] = WithField(g[i - 1], more[i])
               /\ Spaced(more) = g[n + 1]
  <2>1. Len(more) \in Nat
    BY <1>1
  <2>2. \E g : /\ g[0] = <<>>
               /\ \A i \in 1 .. Len(more) : g[i] = WithField(g[i - 1], more[i])
               /\ Spaced(more) = g[Len(more)]
    BY <2>1, SpacedFields, Zenon
  <2> QED
    BY <1>1, <2>2, Zenon
<1> DEFINE same == {i \in Nat : i <= n => g[i] = f[i]}
<1>4. 0 \in same
  BY <1>2, <1>3
<1>5. ASSUME NEW i \in Nat, i \in same PROVE i + 1 \in same
  <2> SUFFICES ASSUME i + 1 <= n PROVE g[i + 1] = f[i + 1]
    OBVIOUS
  <2>1. i <= n /\ i + 1 \in 1 .. n /\ i + 1 \in 1 .. n + 1 /\ (i + 1) - 1 = i
    BY <1>1
  <2>2. g[i] = f[i] /\ more[i + 1] = fields[i + 1]
    BY <1>1, <1>5, <2>1
  <2>3. /\ f[i + 1] = WithField(f[i], fields[i + 1])
        /\ g[i + 1] = WithField(g[i], more[i + 1])
    BY <1>2, <1>3, <2>1, Zenon
  <2> QED
    BY <2>2, <2>3, Zenon
<1>6. n \in same
  <2> HIDE DEF same
  <2> QED
    BY <1>1, <1>4, <1>5, NatInSet
<1>7. g[n] = f[n] /\ n + 1 \in 1 .. n + 1 /\ (n + 1) - 1 = n
  BY <1>1, <1>6
<1>8. g[n + 1] = WithField(g[n], more[n + 1])
  BY <1>3, <1>7, Zenon
<1> QED
  BY <1>1, <1>2, <1>3, <1>7, <1>8, Zenon DEF more, WithField

\* The words come back when the line they make is split.
LEMMA SplitSpaced ==
  ASSUME NEW A, Space \in A, NEW fields \in Seq(FieldOf(A))
  PROVE  /\ Spaced(fields) \in Seq(A)
         /\ Split(Spaced(fields)) = [fields |-> fields, prefix |-> <<>>]
<1> DEFINE Goods == {fs \in Seq(FieldOf(A)) : /\ Spaced(fs) \in Seq(A)
                                              /\ Split(Spaced(fs)) = [fields |-> fs, prefix |-> <<>>]}
<1>1. <<>> \in Goods
  BY SpacedNothing, SplitNothing, EmptySeq
<1>2. ASSUME NEW fs \in Seq(FieldOf(A)), NEW field \in FieldOf(A), fs \in Goods
      PROVE  Append(fs, field) \in Goods
  <2> DEFINE line == Spaced(fs)
  <2>1. line \in Seq(A) /\ Split(line) = [fields |-> fs, prefix |-> <<>>]
    BY <1>2
  <2>2. field \in WordOf(A) /\ field \in Seq(A) /\ field # <<>>
    BY DEF FieldOf, WordOf
  <2>3. Spaced(Append(fs, field)) = line \o Append(field, Space)
    BY SpacedAppend
  <2> HIDE DEF line
  <2>4. line \o Append(field, Space) = Append(line \o field, Space) /\ line \o field \in Seq(A)
    BY <2>1, <2>2, AppendToConcat, ConcatProperties
  <2>5. Split(line \o field) = [fields |-> fs, prefix |-> <<>> \o field]
    <3>1. Split(line).fields = fs /\ Split(line).prefix = <<>>
      BY <2>1
    <3>2. Split(line \o field) = [fields |-> Split(line).fields, prefix |-> Split(line).prefix \o field]
      BY <2>1, <2>2, SplitWord
    <3> QED
      BY <3>1, <3>2, Zenon
  <2>6. <<>> \o field = field
    BY <2>2, ConcatEmptySeq
  <2>7. Split(Append(line \o field, Space)) = SplitNext([fields |-> fs, prefix |-> field], Space)
    BY <2>4, <2>5, <2>6, SplitAppend
  <2>8. SplitNext([fields |-> fs, prefix |-> field], Space) = [fields |-> Append(fs, field), prefix |-> <<>>]
    BY <2>2 DEF SplitNext
  <2>9. Append(line \o field, Space) \in Seq(A) /\ Append(fs, field) \in Seq(FieldOf(A))
    BY <2>4, AppendProperties
  <2> QED
    BY <2>3, <2>4, <2>7, <2>8, <2>9
<1>3. Seq(FieldOf(A)) \subseteq Goods
  <2> HIDE DEF Goods
  <2> QED
    BY <1>1, <1>2, SeqInSet
<1> QED
  BY <1>3

LEMMA SplitJoined ==
  ASSUME NEW A, Space \in A, NEW fields \in Seq(FieldOf(A)), NEW word \in WordOf(A)
  PROVE  /\ Join(fields, word) \in Seq(A)
         /\ Split(Join(fields, word)) = [fields |-> fields, prefix |-> word]
<1>1. Spaced(fields) \in Seq(A) /\ Split(Spaced(fields)) = [fields |-> fields, prefix |-> <<>>]
  BY SplitSpaced
<1>2. word \in Seq(A)
  BY DEF WordOf
<1>3. Join(fields, word) = Spaced(fields) \o word /\ Spaced(fields) \o word \in Seq(A)
  BY <1>1, <1>2, ConcatProperties DEF Join
<1>4. Split(Spaced(fields) \o word) = [fields |-> fields, prefix |-> <<>> \o word]
  <2> DEFINE line == Spaced(fields)
  <2>1. Split(line).fields = fields /\ Split(line).prefix = <<>>
    BY <1>1
  <2>2. Split(line \o word) = [fields |-> Split(line).fields, prefix |-> Split(line).prefix \o word]
    BY <1>1, SplitWord
  <2> QED
    BY <2>1, <2>2, Zenon
<1>5. <<>> \o word = word
  BY <1>2, ConcatEmptySeq
<1> QED
  BY <1>3, <1>4, <1>5

-----------------------------------------------------------------------------
(* Prefixes.                                                                *)

LEMMA PrefixIs ==
  ASSUME NEW A, NEW s \in Seq(A), NEW t \in Seq(A)
  PROVE  IsPrefix(s, t) <=> Len(s) <= Len(t) /\ \A i \in 1 .. Len(s) : s[i] = t[i]
<1>1. Len(s) \in Nat /\ Len(t) \in Nat
  OBVIOUS
<1>2. SubSeq(s, 1, Len(s)) = s
  BY SubSeqFull
<1>3. ASSUME Len(s) <= Len(t)
      PROVE  SubSeq(t, 1, Len(s)) = s <=> \A i \in 1 .. Len(s) : s[i] = t[i]
  <2>1. /\ SubSeq(t, 1, Len(s)) \in Seq(A) /\ Len(SubSeq(t, 1, Len(s))) = Len(s)
        /\ \A i \in 1 .. Len(s) : SubSeq(t, 1, Len(s))[i] = t[i]
    <3>1. \A i \in 1 .. Len(s) : t[i] \in A
      BY <1>1, <1>3
    <3> QED
      BY <1>1, <1>3, <3>1, SubSeqProperties
  <2> QED
    BY <2>1, SeqEqual
<1> QED
  BY <1>1, <1>2, <1>3 DEF IsPrefix

LEMMA PrefixOfConcat ==
  ASSUME NEW A, NEW r \in Seq(A), NEW s \in Seq(A), NEW t \in Seq(A), IsPrefix(s, t)
  PROVE  /\ IsPrefix(r \o s, r \o t)
         /\ \A u \in Seq(A) : IsPrefix(s, t \o u)
<1>1. Len(s) <= Len(t) /\ (\A i \in 1 .. Len(s) : s[i] = t[i]) /\ Len(s) \in Nat /\ Len(t) \in Nat /\ Len(r) \in Nat
  BY PrefixIs, LenProperties
<1>2. IsPrefix(r \o s, r \o t)
  <2>1. /\ r \o s \in Seq(A) /\ Len(r \o s) = Len(r) + Len(s)
        /\ \A i \in 1 .. Len(r) + Len(s) : (r \o s)[i] = IF i <= Len(r) THEN r[i] ELSE s[i - Len(r)]
    BY ConcatProperties
  <2>2. /\ r \o t \in Seq(A) /\ Len(r \o t) = Len(r) + Len(t)
        /\ \A i \in 1 .. Len(r) + Len(t) : (r \o t)[i] = IF i <= Len(r) THEN r[i] ELSE t[i - Len(r)]
    BY ConcatProperties
  <2>3. ASSUME NEW i \in 1 .. Len(r) + Len(s) PROVE (r \o s)[i] = (r \o t)[i]
    <3>1. i \in 1 .. Len(r) + Len(t) /\ (i > Len(r) => i - Len(r) \in 1 .. Len(s))
      BY <1>1
    <3> QED
      BY <1>1, <2>1, <2>2, <3>1
  <2>4. Len(r \o s) <= Len(r \o t)
    BY <1>1, <2>1, <2>2
  <2> QED
    BY <2>1, <2>2, <2>3, <2>4, PrefixIs
<1>3. ASSUME NEW u \in Seq(A) PROVE IsPrefix(s, t \o u)
  <2>1. /\ t \o u \in Seq(A) /\ Len(t \o u) = Len(t) + Len(u) /\ Len(u) \in Nat
        /\ \A i \in 1 .. Len(t) + Len(u) : (t \o u)[i] = IF i <= Len(t) THEN t[i] ELSE u[i - Len(t)]
    BY ConcatProperties, LenProperties
  <2>2. \A i \in 1 .. Len(s) : s[i] = (t \o u)[i]
    BY <1>1, <2>1
  <2>3. Len(s) <= Len(t \o u)
    BY <1>1, <2>1
  <2> QED
    BY <2>1, <2>2, <2>3, PrefixIs
<1> QED
  BY <1>2, <1>3

LEMMA PrefixesCompared ==
  ASSUME NEW A, NEW s \in Seq(A), NEW t \in Seq(A), NEW u \in Seq(A)
  PROVE  /\ IsPrefix(s, s)
         /\ IsPrefix(s, t) /\ IsPrefix(t, u) => IsPrefix(s, u)
         /\ IsPrefix(s, u) /\ IsPrefix(t, u) /\ Len(s) <= Len(t) => IsPrefix(s, t)
         /\ IsPrefix(s, t) /\ IsPrefix(t, s) => s = t
<1>1. Len(s) \in Nat /\ Len(t) \in Nat /\ Len(u) \in Nat
  BY LenProperties
<1>2. IsPrefix(s, s)
  BY <1>1, PrefixIs
<1>3. ASSUME IsPrefix(s, t), IsPrefix(t, u) PROVE IsPrefix(s, u)
  <2>1. Len(s) <= Len(t) /\ Len(t) <= Len(u) /\ \A i \in 1 .. Len(s) : s[i] = t[i]
    BY <1>3, PrefixIs
  <2>2. \A i \in 1 .. Len(t) : t[i] = u[i]
    BY <1>3, PrefixIs
  <2>3. Len(s) <= Len(u) /\ \A i \in 1 .. Len(s) : s[i] = u[i]
    BY <1>1, <2>1, <2>2
  <2> QED
    BY <2>3, PrefixIs
<1>4. ASSUME IsPrefix(s, u), IsPrefix(t, u), Len(s) <= Len(t) PROVE IsPrefix(s, t)
  <2>1. (\A i \in 1 .. Len(s) : s[i] = u[i]) /\ (\A i \in 1 .. Len(t) : t[i] = u[i])
    BY <1>4, PrefixIs
  <2>2. \A i \in 1 .. Len(s) : s[i] = t[i]
    BY <1>1, <1>4, <2>1
  <2> QED
    BY <1>4, <2>2, PrefixIs
<1>5. ASSUME IsPrefix(s, t), IsPrefix(t, s) PROVE s = t
  <2>1. Len(s) <= Len(t) /\ Len(t) <= Len(s) /\ \A i \in 1 .. Len(s) : s[i] = t[i]
    BY <1>5, PrefixIs
  <2>2. Len(s) = Len(t)
    BY <1>1, <2>1
  <2> QED
    BY <2>1, <2>2, SeqEqual
<1> QED
  BY <1>2, <1>3, <1>4, <1>5

\* commonPrefix: what all items begin with, and as much of it as there is.
LEMMA CommonPrefixIs ==
  ASSUME NEW A, NEW items \in SUBSET Seq(A), items # {}
  PROVE  /\ CommonPrefix(items) \in Seq(A)
         /\ \A item \in items : IsPrefix(CommonPrefix(items), item)
         /\ \A s \in Seq(A) : (\A item \in items : IsPrefix(s, item)) => IsPrefix(s, CommonPrefix(items))
<1> DEFINE common == CommonPrefixes(items)
<1>1. PICK any \in items : any \in Seq(A) /\ Len(any) \in Nat
  BY LenProperties
<1>2. \A s : s \in common <=> s \in Seq(A) /\ \A item \in items : IsPrefix(s, item)
  <2>1. ASSUME NEW s \in common PROVE s \in Seq(A) /\ \A item \in items : IsPrefix(s, item)
    <3>1. (\A item \in items : IsPrefix(s, item)) /\ \E item \in items : s \in Prefixes(item)
      BY DEF CommonPrefixes
    <3>2. PICK item \in items : \E l \in 0 .. Len(item) : s = SubSeq(item, 1, l)
      BY <3>1 DEF Prefixes
    <3>3. item \in Seq(A) /\ Len(item) \in Nat /\ \A i \in 1 .. Len(item) : item[i] \in A
      BY LenProperties
    <3>4. s \in Seq(A)
      BY <3>2, <3>3, SubSeqProperties
    <3> QED
      BY <3>1, <3>4
  <2>2. ASSUME NEW s \in Seq(A), \A item \in items : IsPrefix(s, item) PROVE s \in common
    <3>1. IsPrefix(s, any) /\ Len(s) \in Nat
      BY <2>2, LenProperties
    <3>2. Len(s) \in 0 .. Len(any) /\ s = SubSeq(any, 1, Len(s))
      <4>1. Len(s) <= Len(any) /\ SubSeq(s, 1, Len(s)) = SubSeq(any, 1, Len(s))
        BY <3>1 DEF IsPrefix
      <4> QED
        BY <1>1, <3>1, <4>1, SubSeqFull
    <3>3. s \in Prefixes(any)
      BY <3>2 DEF Prefixes
    <3> QED
      BY <2>2, <3>3 DEF CommonPrefixes
  <2> QED
    BY <2>1, <2>2
<1> HIDE DEF common
<1>3. \A s \in common : s \in Seq(A) /\ Len(s) \in Nat /\ Len(s) <= Len(any)
  <2> SUFFICES ASSUME NEW s \in common PROVE s \in Seq(A) /\ Len(s) \in Nat /\ Len(s) <= Len(any)
    OBVIOUS
  <2>1. s \in Seq(A) /\ IsPrefix(s, any)
    BY <1>2
  <2> QED
    BY <1>1, <2>1, LenProperties, PrefixIs
<1>4. common # {}
  <2>1. ASSUME NEW item \in items PROVE IsPrefix(<<>>, item)
    <3>1. Len(<<>>) = 0 /\ Len(item) \in Nat
      BY EmptySeq, LenProperties
    <3>2. SubSeq(<<>>, 1, 0) = <<>> /\ SubSeq(item, 1, 0) = <<>>
      BY SubSeqEmpty
    <3> QED
      BY <3>1, <3>2 DEF IsPrefix
  <2> QED
    BY <1>2, <2>1, EmptySeq
<1>5. \E longest \in common : \A other \in common : Len(other) <= Len(longest)
  <2> DEFINE shorter == {Len(any) - Len(s) : s \in common}
  <2>1. shorter \in SUBSET Nat /\ shorter # {}
    BY <1>1, <1>3, <1>4
  <2>2. PICK n \in shorter : \A m \in shorter : n <= m
    BY <2>1, LeastNumber
  <2>3. PICK longest \in common : n = Len(any) - Len(longest)
    BY <2>2
  <2>4. ASSUME NEW other \in common PROVE Len(other) <= Len(longest)
    <3>1. n <= Len(any) - Len(other)
      BY <2>2
    <3> QED
      BY <1>1, <1>3, <2>3, <3>1
  <2> QED
    BY <2>4
<1> DEFINE p == CommonPrefix(items)
<1>6. p \in common /\ \A other \in common : Len(other) <= Len(p)
  BY <1>5 DEF CommonPrefix, LongestCommonPrefix, common
<1> HIDE DEF p
<1>7. p \in Seq(A) /\ \A item \in items : IsPrefix(p, item)
  BY <1>2, <1>6
<1>8. ASSUME NEW s \in Seq(A), \A item \in items : IsPrefix(s, item) PROVE IsPrefix(s, p)
  <2>1. Len(s) <= Len(p)
    BY <1>2, <1>6, <1>8
  <2> QED
    BY <1>1, <1>7, <1>8, <2>1, PrefixesCompared
<1> QED
  BY <1>7, <1>8 DEF p

LEMMA OptionsAreWords == \A fields : Options(fields) \in SUBSET Table
<1> SUFFICES ASSUME NEW fields PROVE Options(fields) \subseteq Table
  OBVIOUS
<1> DEFINE subs == UNION {SubCommands[c] : c \in DOMAIN SubCommands}
<1>1. \A c \in DOMAIN SubCommands : SubCommands[c] \subseteq subs
  OBVIOUS
<1>2. Table = TopCommands \cup {All} \cup ZoneNames \cup subs
  BY DEF Table
<1> HIDE DEF subs
<1> QED
  BY <1>1, <1>2 DEF Options

\* What Tab makes of a line.
LEMMA CompletedIs ==
  ASSUME NEW A, Printable \subseteq A, NEW line \in Seq(A)
  PROVE  LET words == Split(line)
             answer == CliComplete(line)
         IN  /\ answer.candidates \in SUBSET WordOf(A) /\ IsFiniteSet(answer.candidates)
             /\ answer.candidates = MatchPrefix(Options(words.fields), words.prefix)
             /\ answer.candidates = {} => answer.line = line
             /\ answer.candidates # {} =>
                  /\ CommonPrefix(answer.candidates) \in WordOf(A)
                  /\ answer.line = Join(words.fields, CommonPrefix(answer.candidates)) \o
                                     (IF Cardinality(answer.candidates) = 1 THEN <<Space>> ELSE <<>>)
<1> DEFINE words == Split(line)
           candidates == MatchPrefix(Options(words.fields), words.prefix)
           token == CommonPrefix(candidates)
<1>1. candidates \in SUBSET Table /\ Table \subseteq Word /\ IsFiniteSet(Table)
  BY OptionsAreWords, TablesAssumption DEF MatchPrefix
<1>2. Word \subseteq WordOf(A)
  <2>1. Printable \ {Space} \subseteq A \ {Space}
    OBVIOUS
  <2> QED
    BY <2>1, SeqMonotonic DEF Word, WordOf
<1>3. candidates \in SUBSET WordOf(A) /\ IsFiniteSet(candidates)
  BY <1>1, <1>2, FS_Subset
<1>4. Space \in A
  BY TablesAssumption
<1>5. words \in WordsOf(A)
  BY SplitGivesWords
<1> HIDE DEF words, candidates
<1>6. candidates # {} => token \in WordOf(A)
  BY <1>3, CommonPrefixIs DEF WordOf
<1>7. /\ CliComplete(line).candidates = candidates
      /\ CliComplete(line).line =
           CASE candidates = {} -> line
             [] Cardinality(candidates) = 1 -> Join(words.fields, token) \o <<Space>>
             [] OTHER -> Join(words.fields, token)
  BY DEF CliComplete, candidates, words
<1> HIDE DEF token
<1>8. candidates = {} => CliComplete(line).line = line
  <2>1. Cardinality({}) = 0
    BY FS_EmptySet
  <2> QED
    BY <1>7, <2>1
<1>9. ASSUME candidates # {}
      PROVE  CliComplete(line).line = Join(words.fields, token) \o (IF Cardinality(candidates) = 1 THEN <<Space>> ELSE <<>>)
  <2>1. Join(words.fields, token) \in Seq(A)
    <3>1. words.fields \in Seq(FieldOf(A))
      BY <1>5 DEF WordsOf
    <3> QED
      BY <1>4, <1>6, <1>9, <3>1, SplitJoined
  <2>2. Join(words.fields, token) \o <<>> = Join(words.fields, token)
    BY <2>1, ConcatEmptySeq
  <2>3. CASE Cardinality(candidates) = 1
    BY <1>7, <1>9, <2>3
  <2>4. CASE Cardinality(candidates) # 1
    BY <1>7, <1>9, <2>2, <2>4
  <2> QED
    BY <2>3, <2>4
<1> QED
  BY <1>3, <1>6, <1>7, <1>8, <1>9 DEF words, candidates, token

LEMMA CompletedLine ==
  ASSUME NEW A, Printable \subseteq A, NEW line \in Seq(A)
  PROVE  CliComplete(line).line \in Seq(A)
<1> DEFINE words == Split(line)
           answer == CliComplete(line)
           token == CommonPrefix(answer.candidates)
<1>1. Space \in A /\ words.fields \in Seq(FieldOf(A))
  BY TablesAssumption, SplitGivesWords DEF WordsOf
<1>2. /\ answer.candidates = {} => answer.line = line
      /\ answer.candidates # {} =>
           /\ token \in WordOf(A)
           /\ answer.line = Join(words.fields, token) \o
                              (IF Cardinality(answer.candidates) = 1 THEN <<Space>> ELSE <<>>)
  BY CompletedIs
<1> HIDE DEF words, answer, token
<1>3. ASSUME answer.candidates # {} PROVE answer.line \in Seq(A)
  <2>1. Join(words.fields, token) \in Seq(A)
    BY <1>1, <1>2, <1>3, SplitJoined
  <2>2. (IF Cardinality(answer.candidates) = 1 THEN <<Space>> ELSE <<>>) \in Seq(A)
    BY <1>1
  <2> QED
    BY <1>2, <1>3, <2>1, <2>2, ConcatProperties
<1> QED
  BY <1>2, <1>3 DEF answer

LEMMA TabIsStable == ASSUME buf \in Seq(Chars) PROVE TabCompletes
<1> DEFINE A == Chars
           words == Split(buf)
           answer == CliComplete(buf)
           candidates == answer.candidates
           token == CommonPrefix(candidates)
           base == Spaced(words.fields)
           end == IF Cardinality(candidates) = 1 THEN <<Space>> ELSE <<>>
<1>1. Space \in A /\ Printable \subseteq A
  BY TablesAssumption DEF Chars
<1>2. words.fields \in Seq(FieldOf(A)) /\ words.prefix \in WordOf(A)
  BY SplitGivesWords DEF WordsOf
<1>3. WordOf(A) \subseteq Seq(A)
  <2>1. A \ {Space} \subseteq A
    OBVIOUS
  <2> QED
    BY <2>1, SeqMonotonic DEF WordOf
<1>4. base \in Seq(A)
  BY <1>1, <1>2, SplitSpaced
<1>5. /\ candidates \in SUBSET WordOf(A) /\ IsFiniteSet(candidates)
      /\ candidates = MatchPrefix(Options(words.fields), words.prefix)
      /\ candidates # {} => token \in WordOf(A) /\ answer.line = Join(words.fields, token) \o end
  BY <1>1, CompletedIs
<1>6. answer = [candidates |-> candidates, line |-> answer.line]
  BY DEF CliComplete
<1>7. \A word : Join(words.fields, word) = base \o word
  BY DEF Join
<1>8. end \in Seq(A)
  BY <1>1
<1>9. Cardinality({}) = 0
  BY FS_EmptySet
<1> HIDE DEF A, words, answer, candidates, token, base, end
<1>10. ASSUME candidates # {}
       PROVE  /\ \A word \in candidates : IsPrefix(token, word)
              /\ IsPrefix(words.prefix, token)
              /\ token \in Seq(A)
  <2>1. candidates \in SUBSET Seq(A) /\ words.prefix \in Seq(A)
    BY <1>2, <1>3, <1>5
  <2>2. \A word \in candidates : IsPrefix(words.prefix, word)
    BY <1>5 DEF MatchPrefix
  <2> QED
    BY <1>10, <2>1, <2>2, CommonPrefixIs DEF token
<1>11. ASSUME NEW word \in candidates
       PROVE  IsPrefix(answer.line, Join(words.fields, word) \o <<Space>>)
  <2>1. word \in Seq(A) /\ <<Space>> \in Seq(A)
    BY <1>1, <1>3, <1>5
  <2>2. IsPrefix(token, word) /\ token \in Seq(A)
    BY <1>10
  <2>3. CASE Cardinality(candidates) = 1
    <3>1. candidates = {word}
      BY <1>5, <2>3, FS_Singleton
    <3>2. IsPrefix(word, token)
      <4>1. \A item \in candidates : IsPrefix(word, item)
        BY <2>1, <3>1, PrefixesCompared
      <4>2. candidates \in SUBSET Seq(A) /\ candidates # {}
        BY <2>1, <3>1
      <4> QED
        BY <2>1, <4>1, <4>2, CommonPrefixIs DEF token
    <3>3. token = word
      BY <2>1, <2>2, <3>2, PrefixesCompared
    <3>4. answer.line = Join(words.fields, word) \o <<Space>>
      BY <1>5, <2>3, <3>3 DEF end
    <3>5. Join(words.fields, word) \o <<Space>> \in Seq(A)
      BY <1>4, <1>7, <2>1, ConcatProperties
    <3>6. \A s \in Seq(A) : IsPrefix(s, s)
      BY PrefixesCompared
    <3> QED
      BY <3>4, <3>5, <3>6, Zenon
  <2>4. CASE Cardinality(candidates) # 1
    <3>1. answer.line = base \o token
      <4>1. base \o token \in Seq(A)
        BY <1>4, <2>2, ConcatProperties
      <4>2. answer.line = (base \o token) \o <<>>
        BY <1>5, <1>7, <2>4 DEF end
      <4> QED
        BY <4>1, <4>2, ConcatEmptySeq
    <3>2. IsPrefix(base \o token, base \o word)
      BY <1>4, <2>1, <2>2, PrefixOfConcat
    <3>3. base \o token \in Seq(A) /\ base \o word \in Seq(A)
      BY <1>4, <2>1, <2>2, ConcatProperties
    <3>4. IsPrefix(base \o token, (base \o word) \o <<Space>>)
      BY <2>1, <3>2, <3>3, PrefixOfConcat
    <3> QED
      BY <1>7, <3>1, <3>4
  <2> QED
    BY <2>3, <2>4
<1>12. ASSUME Cardinality(candidates) > 1 PROVE CliComplete(answer.line) = answer
  <2>1. candidates # {} /\ Cardinality(candidates) # 1
    <3>1. candidates = {} => Cardinality(candidates) = 0
      BY <1>9, Zenon
    <3>2. Cardinality(candidates) \notin {0, 1}
      BY <1>12
    <3> QED
      BY <3>1, <3>2
  <2>2. token \in WordOf(A) /\ token \in Seq(A) /\ answer.line = Join(words.fields, token)
    <3>1. token \in WordOf(A) /\ token \in Seq(A)
      BY <1>5, <1>10, <2>1
    <3>2. base \o token \in Seq(A)
      BY <1>4, <3>1, ConcatProperties
    <3>3. answer.line = (base \o token) \o <<>>
      BY <1>5, <1>7, <2>1 DEF end
    <3> QED
      BY <1>7, <3>1, <3>2, <3>3, ConcatEmptySeq
  <2>3. Split(answer.line) = [fields |-> words.fields, prefix |-> token]
    BY <1>1, <1>2, <2>2, SplitJoined
  <2>4. MatchPrefix(Options(words.fields), token) = candidates
    <3>1. \A option \in Options(words.fields) : option \in Seq(A)
      <4>1. \A option \in Options(words.fields) : option \in Word
        BY OptionsAreWords, TablesAssumption
      <4>2. Printable \ {Space} \subseteq A
        BY <1>1
      <4> QED
        BY <4>1, <4>2, SeqMonotonic DEF Word
    <3>2. ASSUME NEW option \in Options(words.fields), IsPrefix(token, option)
          PROVE  IsPrefix(words.prefix, option)
      <4>1. option \in Seq(A) /\ words.prefix \in Seq(A)
        BY <1>2, <1>3, <3>1
      <4>2. IsPrefix(words.prefix, token)
        BY <1>10, <2>1
      <4> QED
        BY <2>2, <3>2, <4>1, <4>2, PrefixesCompared
    <3>3. ASSUME NEW option \in Options(words.fields), IsPrefix(words.prefix, option)
          PROVE  IsPrefix(token, option)
      <4>1. option \in candidates
        BY <1>5, <3>3 DEF MatchPrefix
      <4> QED
        BY <1>10, <2>1, <4>1
    <3> QED
      BY <1>5, <3>2, <3>3 DEF MatchPrefix
  <2>5. CliComplete(answer.line) = [candidates |-> candidates, line |-> Join(words.fields, token)]
    <3> DEFINE w == Split(answer.line)
    <3>1. w.fields = words.fields /\ w.prefix = token
      BY <2>3
    <3>2. MatchPrefix(Options(w.fields), w.prefix) = candidates
      BY <2>4, <3>1
    <3> HIDE DEF w
    <3>3. CliComplete(answer.line) =
            [candidates |-> candidates,
             line |-> CASE candidates = {} -> answer.line
                        [] Cardinality(candidates) = 1 -> Join(w.fields, CommonPrefix(candidates)) \o <<Space>>
                        [] OTHER -> Join(w.fields, CommonPrefix(candidates))]
      BY <3>2 DEF CliComplete, w
    <3> QED
      BY <2>1, <3>1, <3>3 DEF token
  <2> QED
    BY <1>6, <2>2, <2>5
<1>13. ASSUME candidates # {} PROVE IsPrefix(Join(words.fields, words.prefix), answer.line)
  <2>1. words.prefix \in Seq(A) /\ token \in Seq(A) /\ IsPrefix(words.prefix, token)
    BY <1>2, <1>3, <1>10, <1>13
  <2>2. IsPrefix(base \o words.prefix, base \o token)
    BY <1>4, <2>1, PrefixOfConcat
  <2>3. base \o words.prefix \in Seq(A) /\ base \o token \in Seq(A)
    BY <1>4, <2>1, ConcatProperties
  <2>4. IsPrefix(base \o words.prefix, (base \o token) \o end)
    BY <1>8, <2>2, <2>3, PrefixOfConcat
  <2> QED
    BY <1>5, <1>7, <1>13, <2>4
<1> QED
  BY <1>11, <1>12, <1>13 DEF TabCompletes, words, answer, candidates

-----------------------------------------------------------------------------
(* The line on the screen.                                                  *)

LEMMA PrintablesAreGlyphs ==
  ASSUME NEW line \in Seq(Printable)
  PROVE  line \in Seq(Glyph) /\ line \in Seq(Byte)
BY SeqMonotonic DEF Glyph, Byte

LEMMA SpacesAre ==
  ASSUME NEW n \in Nat
  PROVE  Spaces(n) \in Seq(Glyph) /\ Len(Spaces(n)) = n /\ \A i \in 1 .. n : Spaces(n)[i] = Space
BY SpaceIsGlyph DEF Spaces

LEMMA Padded ==
  ASSUME NEW text \in Seq(Glyph), NEW pad \in Nat
  PROVE  /\ text \o Spaces(pad) \in Seq(Glyph)
         /\ Len(text \o Spaces(pad)) = Len(text) + pad
         /\ \A i \in 1 .. Len(text) : (text \o Spaces(pad))[i] = text[i]
         /\ \A i \in Len(text) + 1 .. Len(text) + pad : (text \o Spaces(pad))[i] = Space
<1> DEFINE blanks == Spaces(pad)
           long == text \o blanks
           n == Len(text)
<1>1. /\ blanks \in Seq(Glyph) /\ Len(blanks) = pad /\ n \in Nat
      /\ \A i \in 1 .. pad : blanks[i] = Space
  BY SpacesAre, LenProperties
<1> HIDE DEF blanks
<1>2. /\ long \in Seq(Glyph) /\ Len(long) = n + Len(blanks)
      /\ \A i \in 1 .. n + Len(blanks) : long[i] = IF i <= n THEN text[i] ELSE blanks[i - n]
  BY <1>1, ConcatProperties
<1> HIDE DEF n, long
<1>3. \A i \in 1 .. n + pad : long[i] = IF i <= n THEN text[i] ELSE blanks[i - n]
  BY <1>1, <1>2
<1>4. ASSUME NEW i \in n + 1 .. n + pad PROVE long[i] = Space
  <2>1. i \in 1 .. n + pad /\ ~ (i <= n) /\ i - n \in 1 .. pad
    BY <1>1
  <2> QED
    BY <1>1, <1>3, <2>1
<1>5. \A i \in 1 .. n : i \in 1 .. n + pad /\ i <= n
  BY <1>1
<1> QED
  BY <1>1, <1>2, <1>3, <1>4, <1>5 DEF blanks, long, n

LEMMA PiecesTogether ==
  ASSUME NEW A, NEW r \in Seq(A), NEW p \in Seq(A), NEW l \in Seq(A), NEW s \in Seq(A)
  PROVE  r \o p \o l \o s \o r \o p \o l = ((r \o ((p \o l) \o s)) \o r) \o (p \o l)
<1>1. \A u, v, w \in Seq(A) : (u \o v) \o w = u \o (v \o w) /\ u \o v \in Seq(A)
  <2>1. ASSUME NEW u \in Seq(A), NEW v \in Seq(A), NEW w \in Seq(A)
        PROVE  (u \o v) \o w = u \o (v \o w) /\ u \o v \in Seq(A)
    <3>1. (u \o v) \o w = u \o (v \o w)
      OBVIOUS
    <3>2. u \o v \in Seq(A)
      OBVIOUS
    <3> QED
      BY <3>1, <3>2
  <2> QED
    BY <2>1
<1> DEFINE m == p \o l
           t == (r \o (m \o s)) \o r
<1>2. m \in Seq(A) /\ (r \o p) \o l = r \o m
  BY <1>1
<1> HIDE DEF m
<1>3. (r \o m) \o s = r \o (m \o s) /\ m \o s \in Seq(A)
  BY <1>1, <1>2
<1>4. r \o (m \o s) \in Seq(A)
  BY <1>1, <1>3, Zenon
<1>5. t \in Seq(A)
  BY <1>1, <1>4, Zenon
<1>6. r \o p \o l \o s \o r \o p \o l = (t \o p) \o l
  BY <1>2, <1>3, Zenon DEF t
<1> HIDE DEF t
<1>7. (t \o p) \o l = t \o m
  BY <1>1, <1>5, Zenon DEF m
<1> QED
  BY <1>6, <1>7, Zenon DEF t, m

\* setLine draws the line, whatever of the old row is not blank being covered.
LEMMA LineSet ==
  ASSUME NEW scr, Printing(scr), NEW line \in Seq(Printable), NEW pad \in Nat,
         \A i \in 1 .. Len(scr.row) : i > Len(Prompt) + Len(line) + pad => scr.row[i] = Space
  PROVE  Shows(Written(scr, <<CR>> \o Prompt \o line \o Spaces(pad) \o <<CR>> \o Prompt \o line), line)
<1> DEFINE text == Prompt \o line
           long == text \o Spaces(pad)
           b1 == <<CR>>
           b2 == b1 \o long
           b3 == b2 \o <<CR>>
           b4 == b3 \o text
           s1 == Written(scr, b1)
           s2 == Written(scr, b2)
           s3 == Written(scr, b3)
           s4 == Written(scr, b4)
           n == Len(text)
<1>1. line \in Seq(Glyph) /\ Spaces(pad) \in Seq(Glyph)
  BY PrintablesAreGlyphs, SpacesAre
<1>2. /\ Prompt \in Seq(Glyph) /\ text \in Seq(Glyph) /\ n = Len(Prompt) + Len(line) /\ n \in Nat
  BY <1>1, PromptIsText, LenProperties
<1>3. /\ long \in Seq(Glyph) /\ Len(long) = n + pad
      /\ \A i \in 1 .. n : long[i] = text[i]
      /\ \A i \in n + 1 .. n + pad : long[i] = Space
  BY <1>2, Padded
<1>4. b1 \in Seq(Byte) /\ CR \in Byte /\ CR # LF /\ long \in Seq(Byte) /\ text \in Seq(Byte)
  BY <1>2, <1>3, BytesAre, SeqMonotonic DEF CR, LF
<1>5. <<CR>> \o Prompt \o line \o Spaces(pad) \o <<CR>> \o Prompt \o line = b4
  <2>1. Prompt \in Seq(Byte) /\ line \in Seq(Byte) /\ Spaces(pad) \in Seq(Byte)
    BY <1>1, <1>2, BytesAre, SeqMonotonic
  <2>2. <<CR>> \o Prompt \o line \o Spaces(pad) \o <<CR>> \o Prompt \o line
          = ((b1 \o long) \o b1) \o text
    <3> DEFINE blanks == Spaces(pad)
               head == Prompt
    <3>1. b1 \in Seq(Byte) /\ head \in Seq(Byte) /\ line \in Seq(Byte) /\ blanks \in Seq(Byte)
      BY <1>4, <2>1
    <3> HIDE DEF b1, head, blanks
    <3>2. b1 \o head \o line \o blanks \o b1 \o head \o line
            = ((b1 \o ((head \o line) \o blanks)) \o b1) \o (head \o line)
      BY <3>1, PiecesTogether, SMTT(60)
    <3> QED
      BY <3>2 DEF b1, head, blanks
  <2> QED
    BY <2>2, Zenon
<1>6. b2 \in Seq(Byte)
  BY <1>4, ConcatProperties
<1>7. s1 = Relay(scr, CR)
  BY <1>4, OneByteWritten
<1>8. Printing(s1) /\ s1.col = 0 /\ s1.row = scr.row
  BY <1>7, ControlsPrint
<1> HIDE DEF text, long, n
<1>9. Overwritten(s1, long, s2)
  <2> HIDE DEF b1
  <2> QED
    BY <1>3, <1>4, <1>8, TextWritten
<1> HIDE DEF b2, s1
<1>10. b3 \in Seq(Byte) /\ s3 = Relay(s2, CR)
  BY <1>4, <1>6, ByteAfter
<1> HIDE DEF s2
<1>11. Printing(s3) /\ s3.col = 0 /\ s3.row = s2.row
  BY <1>9, <1>10, ControlsPrint DEF Overwritten
<1> HIDE DEF b3
<1>12. Overwritten(s3, text, s4)
  BY <1>2, <1>10, <1>11, TextWritten
<1> HIDE DEF s3, s4
<1>13. Len(scr.row) \in Nat /\ Len(s2.row) \in Nat /\ Len(s4.row) \in Nat
  BY <1>8, <1>9, <1>12 DEF Overwritten, Printing
<1>14. /\ Len(s2.row) = IF n + pad > Len(scr.row) THEN n + pad ELSE Len(scr.row)
       /\ \A i \in 1 .. Len(s2.row) : s2.row[i] = IF 0 < i /\ i <= n + pad THEN long[i - 0] ELSE scr.row[i]
  <2>1. s2.col = 0 + (n + pad)
    BY <1>3, <1>8, <1>9 DEF Overwritten
  <2>2. s2.col = n + pad
    BY <1>2, <2>1
  <2> QED
    BY <1>8, <1>9, <2>2 DEF Overwritten
<1>15. ASSUME NEW i \in 1 .. Len(s2.row), i > n PROVE s2.row[i] = Space
  <2>1. CASE i <= n + pad
    BY <1>2, <1>3, <1>13, <1>14, <1>15, <2>1
  <2>2. CASE i > n + pad
    <3>1. i \in 1 .. Len(scr.row) /\ s2.row[i] = scr.row[i]
      BY <1>2, <1>13, <1>14, <2>2
    <3> QED
      BY <1>2, <2>2, <3>1
  <2> QED
    BY <1>2, <1>13, <2>1, <2>2
<1>16. /\ Printing(s4) /\ s4.col = n
       /\ Len(s4.row) = IF n > Len(s2.row) THEN n ELSE Len(s2.row)
       /\ \A i \in 1 .. Len(s4.row) : s4.row[i] = IF 0 < i /\ i <= n THEN text[i - 0] ELSE s2.row[i]
  <2>1. s4.col = 0 + n
    BY <1>11, <1>12 DEF Overwritten, n
  <2>2. s4.col = n
    BY <1>2, <2>1
  <2> QED
    BY <1>11, <1>12, <2>2 DEF Overwritten
<1>17. \A i \in 1 .. n : s4.row[i] = text[i]
  <2>1. n <= Len(s4.row)
    BY <1>2, <1>13, <1>16
  <2> QED
    BY <1>2, <1>13, <1>16, <2>1
<1>18. \A i \in n + 1 .. Len(s4.row) : s4.row[i] = Space
  <2>1. ASSUME NEW i \in n + 1 .. Len(s4.row) PROVE s4.row[i] = Space
    <3>1. i \in 1 .. Len(s4.row) /\ i \in 1 .. Len(s2.row) /\ i > n
      BY <1>2, <1>13, <1>16
    <3>2. s4.row[i] = s2.row[i]
      BY <1>2, <1>13, <1>16, <3>1
    <3> QED
      BY <1>15, <3>1, <3>2
  <2> QED
    BY <2>1
<1> QED
  BY <1>5, <1>16, <1>17, <1>18 DEF Shows, s4, text, n

\* complete lists the candidates and draws the line below.
LEMMA CandidatesListed ==
  ASSUME NEW scr, Printing(scr), NEW line \in Seq(Printable)
  PROVE  Shows(Written(scr, <<CR, LF, "x", CR, LF>> \o Prompt \o line), line)
<1> DEFINE b1 == <<CR, LF>>
           b2 == b1 \o <<"x">>
           b3 == b2 \o <<CR>>
           b4 == Append(b3, LF)
           text == Prompt \o line
<1>1. line \in Seq(Glyph) /\ Prompt \in Seq(Glyph) /\ text \in Seq(Glyph)
  BY PrintablesAreGlyphs, PromptIsText
<1>2. line \in Seq(Byte) /\ Prompt \in Seq(Byte)
  BY <1>1, BytesAre, SeqMonotonic
<1>3. /\ "x" \in Glyph /\ "x" \in Byte /\ "x" # LF /\ CR \in Byte /\ CR # LF /\ LF \in Byte
  BY BytesAre DEF Glyph, LF, CR
<1>4. <<CR, LF, "x", CR, LF>> = b4
  OBVIOUS
<1>5. b1 \in Seq(Byte) /\ Written(scr, b1) = NewRow
  BY <1>3, LineEndWritten
<1> HIDE DEF b1
<1>6. b2 \in Seq(Byte) /\ Written(scr, b2) = Relay(NewRow, "x") /\ Printing(Relay(NewRow, "x"))
  BY <1>3, <1>5, ByteAfter, NewRowPrints, GlyphWritten
<1> HIDE DEF b2
<1>7. b3 \in Seq(Byte) /\ Written(scr, b3) = Relay(Written(scr, b2), CR)
  BY <1>3, <1>6, ByteAfter
<1>8. b3 # <<>> /\ b3[Len(b3)] = CR
  BY <1>3, <1>6
<1> HIDE DEF b3
<1>9. Written(scr, b4) = Relay(Written(scr, b3), LF) /\ b4 \in Seq(Byte)
  BY <1>3, <1>7, <1>8, WrittenAsIs, AppendProperties
<1>10. Written(scr, b4) = NewRow
  BY <1>6, <1>7, <1>9, ControlsPrint
<1> HIDE DEF b4, text
<1>11. Overwritten(NewRow, text, Written(scr, b4 \o text))
  <2>1. Overwritten(Written(scr, b4), text, Written(scr, b4 \o text))
    BY <1>1, <1>9, <1>10, NewRowPrints, TextWritten
  <2> QED
    BY <1>10, <2>1
<1>12. (b4 \o Prompt) \o line = b4 \o text
  BY <1>2, <1>9, ConcatAssociative DEF text
<1>13. Shows(Written(scr, b4 \o text), line)
  BY <1>1, <1>11, DrawnOnNewRow DEF text
<1> QED
  BY <1>4, <1>12, <1>13

\* Once lost the screen is not followed again.
LEMMA LostStays ==
  ASSUME NEW A, NEW bytes \in Seq(A)
  PROVE  Written(Lost, bytes) = Lost
<1> DEFINE Goods == {b \in Seq(A) : Written(Lost, b) = Lost}
<1>1. <<>> \in Goods
  BY NothingWritten, EmptySeq
<1>2. ASSUME NEW b \in Seq(A), NEW a \in A, b \in Goods PROVE Append(b, a) \in Goods
  <2>1. Written(Lost, Append(b, a)) = Receive(Lost, Append(b, a), Len(b) + 1)
    BY <1>2, WrittenAppend
  <2>2. \A c : Relay(Lost, c) = Lost
    BY DEF Relay, Lost
  <2> QED
    BY <2>1, <2>2, AppendProperties DEF Receive
<1>3. Seq(A) \subseteq Goods
  <2> HIDE DEF Goods
  <2> QED
    BY <1>1, <1>2, SeqInSet
<1> QED
  BY <1>3

-----------------------------------------------------------------------------
(***************************************************************************)
(* The inductive invariant.  Until a data byte 255 is typed the lines hold *)
(* printable characters only and the client prints: on a new row while a   *)
(* command runs, otherwise with the cursor not behind the place where it   *)
(* belongs and blanks from there on, which is what the next setLine needs  *)
(* to cover whatever a log record has left.                                *)
(***************************************************************************)
Modes == {"char", "waiting", "esc", "csi", "iac", "will", "do", "wont", "sub", "subiac", "closed"}

LineTypes ==
  /\ pc \in Modes
  /\ buf \in Seq(Chars)
  /\ history \in Seq(Seq(Chars)) /\ Len(history) <= MaxHistory
  /\ histPos \in 0 .. Len(history)
  /\ drawn \in BOOLEAN

\* The cursor may be short of the end of the line.
Follows(scr, line) ==
  /\ Printing(scr)
  /\ scr.col <= Len(Prompt) + Len(line)
  /\ \A i \in 1 .. Len(scr.row) : i > scr.col => scr.row[i] = Space

LineShown ==
  /\ buf \in Seq(Printable) /\ history \in Seq(Seq(Printable))
  /\ Printing(screen)
  /\ pc = "waiting" => screen = NewRow
  /\ pc \notin {"waiting", "closed"} =>
       Follows(screen, buf) /\ (drawn => Shows(screen, buf))

LineInv == LineTypes /\ (screen = Lost \/ LineShown)

LEMMA CharsAreBytes == Chars \subseteq Byte /\ Printable \subseteq Chars /\ Printable \subseteq Glyph
BY DEF Chars, Byte, Glyph

\* What setLine, complete and the prompts write.
LEMMA WritesAreBytes ==
  ASSUME NEW line \in Seq(Chars), NEW pad \in Nat
  PROVE  /\ <<CR>> \o Prompt \o line \o Spaces(pad) \o <<CR>> \o Prompt \o line \in Seq(Byte)
         /\ <<CR, LF, "x", CR, LF>> \o Prompt \o line \in Seq(Byte)
         /\ Prompt \in Seq(Byte) /\ OutputLine \in Seq(Byte)
<1>1. Prompt \in Seq(Glyph) /\ OutputLine \in Seq(Byte) /\ Spaces(pad) \in Seq(Glyph)
  BY SpaceIsGlyph, SpacesAre, BytesAre DEF Prompt, OutputLine, Glyph, Byte
<1>2. line \in Seq(Byte) /\ Prompt \in Seq(Byte) /\ Spaces(pad) \in Seq(Byte)
  BY <1>1, CharsAreBytes, BytesAre, SeqMonotonic
<1>3. <<CR>> \in Seq(Byte) /\ <<CR, LF, "x", CR, LF>> \in Seq(Byte)
  BY DEF Byte, Glyph
<1> DEFINE head == <<CR>>
           list == <<CR, LF, "x", CR, LF>>
           blanks == Spaces(pad)
           prompt == Prompt
<1>4. head \in Seq(Byte) /\ list \in Seq(Byte) /\ blanks \in Seq(Byte) /\ prompt \in Seq(Byte)
  BY <1>2, <1>3
<1> HIDE DEF head, list, blanks, prompt
<1>5. /\ head \o prompt \o line \o blanks \o head \o prompt \o line \in Seq(Byte)
      /\ list \o prompt \o line \in Seq(Byte)
  BY <1>2, <1>4
<1> QED
  BY <1>1, <1>2, <1>5 DEF head, list, blanks, prompt

-----------------------------------------------------------------------------
(* What the variables hold.                                                 *)

LEMMA TypesStay ==
  ASSUME LineTypes, pc' \in Modes, buf' \in Seq(Chars), drawn' \in BOOLEAN,
         UNCHANGED <<history, histPos>>
  PROVE  LineTypes'
BY DEF LineTypes

LEMMA TypeTypes == ASSUME LineTypes, NEW c \in Printable, Type(c) PROVE LineTypes'
<1>1. buf' \in Seq(Chars)
  BY CharsAreBytes DEF Type, LineTypes
<1> QED
  BY <1>1, TypesStay DEF Type, LineTypes

LEMMA FrontIs ==
  ASSUME NEW A, NEW line \in Seq(A), line # <<>>
  PROVE  /\ Front(line) \in Seq(A) /\ Len(Front(line)) = Len(line) - 1
         /\ \A i \in 1 .. Len(line) - 1 : Front(line)[i] = line[i]
<1> DEFINE n == Len(line) - 1
<1>1. n \in Nat /\ \A i \in 1 .. n : line[i] \in A
  BY EmptySeq
<1> HIDE DEF n
<1>2. /\ SubSeq(line, 1, n) \in Seq(A)
      /\ Len(SubSeq(line, 1, n)) = IF 1 <= n THEN n - 1 + 1 ELSE 0
      /\ \A i \in 1 .. n - 1 + 1 : SubSeq(line, 1, n)[i] = line[1 + i - 1]
  BY <1>1, SubSeqProperties
<1>3. Len(SubSeq(line, 1, n)) = n /\ \A i \in 1 .. n : SubSeq(line, 1, n)[i] = line[i]
  BY <1>1, <1>2
<1> QED
  BY <1>1, <1>2, <1>3 DEF Front, n

LEMMA BackspaceTypes == ASSUME LineTypes, Backspace PROVE LineTypes'
<1>1. buf' \in Seq(Chars)
  BY FrontIs DEF Backspace, LineTypes
<1> QED
  BY <1>1, TypesStay DEF Backspace, LineTypes

LEMMA RememberedIs ==
  ASSUME NEW A, NEW line \in A, history \in Seq(A)
  PROVE  /\ Remember(line) \in Seq(A)
         /\ Len(Remember(line)) \in {Len(history), Len(history) + 1}
BY DEF Remember

LEMMA EnterTypes == ASSUME LineTypes, Enter PROVE LineTypes'
<1>1. /\ history' \in Seq(Seq(Chars))
      /\ Len(history') \in {Len(history), Len(history) + 1} /\ Len(history) \in Nat
  BY RememberedIs DEF Enter, LineTypes
<1>2. Len(history') <= MaxHistory /\ histPos' \in 0 .. Len(history')
  BY <1>1, BoundAssumption DEF Enter, LineTypes
<1> QED
  BY <1>1, <1>2 DEF Enter, LineTypes, Modes

LEMMA CompleteTypes == ASSUME LineTypes, Complete PROVE LineTypes'
<1> DEFINE answer == CliComplete(buf)
<1>1. buf \in Seq(Chars) /\ answer.line \in Seq(Chars)
  BY CompletedLine, CharsAreBytes DEF LineTypes
<1>2. (buf' = buf /\ drawn' = drawn) \/ (buf' = answer.line /\ drawn' = TRUE)
  BY DEF Complete, SetLine
<1> HIDE DEF answer
<1> QED
  BY <1>1, <1>2, TypesStay DEF Complete, LineTypes

\* The line that up or down brings.
Recalled == IF histPos' < Len(history) THEN history[histPos' + 1] ELSE <<>>

\* The index is one of the history whatever its lines are.
LEMMA BrowsedIs ==
  ASSUME NEW A, history \in Seq(Seq(A)), histPos \in 0 .. Len(history),
         NEW delta \in {"up", "down"}, histPos' = Browsed(delta)
  PROVE  histPos' \in 0 .. Len(history) /\ Recalled \in Seq(A)
<1>1. Len(history) \in Nat
  OBVIOUS
<1>2. histPos' \in 0 .. Len(history)
  BY <1>1 DEF Browsed
<1>3. ASSUME histPos' < Len(history) PROVE history[histPos' + 1] \in Seq(A)
  <2>1. histPos' + 1 \in 1 .. Len(history)
    BY <1>1, <1>2, <1>3
  <2> QED
    BY <2>1, ElementOfSeq
<1>4. <<>> \in Seq(A)
  BY EmptySeq
<1> QED
  BY <1>2, <1>3, <1>4 DEF Recalled

LEMMA HistoryTypes ==
  ASSUME LineTypes, NEW delta \in {"up", "down"}, HistoryMove(delta)
  PROVE  LineTypes'
<1>1. CASE history = <<>>
  <2>1. UNCHANGED <<buf, drawn, history, histPos>> /\ pc' = "char"
    BY <1>1 DEF HistoryMove
  <2> QED
    BY <2>1, TypesStay DEF LineTypes, Modes
<1>2. CASE history # <<>>
  <2>1. /\ histPos' = Browsed(delta) /\ history' = history /\ pc' = "char"
        /\ buf' = Recalled /\ drawn' = TRUE
    BY <1>2 DEF HistoryMove, SetLine, Recalled
  <2>2. histPos' \in 0 .. Len(history) /\ Recalled \in Seq(Chars)
    BY <2>1, BrowsedIs DEF LineTypes
  <2> QED
    BY <2>1, <2>2 DEF LineTypes, Modes
<1> QED
  BY <1>1, <1>2

LEMMA NextTypes == ASSUME LineTypes, [Next]_vars PROVE LineTypes'
<1>1. CASE \E c \in Printable : Type(c)
  BY <1>1, TypeTypes
<1>2. CASE Backspace
  BY <1>2, BackspaceTypes
<1>3. CASE Enter
  BY <1>3, EnterTypes
<1>4. CASE Complete
  BY <1>4, CompleteTypes
<1>5. CASE \E delta \in {"up", "down"} : HistoryMove(delta)
  BY <1>5, HistoryTypes
<1>6. CASE NextPrompt
  <2>1. <<>> \in Seq(Chars) /\ Len(history) \in Nat
    BY EmptySeq DEF LineTypes
  <2> QED
    BY <1>6, <2>1 DEF NextPrompt, LineTypes, Modes
<1>7. CASE CommandOutput \/ LogRecord \/ Quit
  BY <1>7, TypesStay DEF CommandOutput, LogRecord, Quit, LineTypes, Modes
<1>8. CASE Escape \/ AfterEscape \/ OtherArrow
  BY <1>8, TypesStay DEF Escape, AfterEscape, OtherArrow, Swallow, LineTypes, Modes
<1>9. CASE TelnetCommand \/ Subnegotiation
  BY <1>9, TypesStay DEF TelnetCommand, Subnegotiation, Swallow, LineTypes, Modes
<1>10. CASE LiteralFF
  <2>1. Append(buf, IAC) \in Seq(Chars)
    BY DEF LineTypes, Chars
  <2> QED
    BY <1>10, <2>1, TypesStay DEF LiteralFF, LineTypes, Modes
<1>11. CASE \E option \in Option : TelnetOption(option)
  BY <1>11, TypesStay DEF TelnetOption, LineTypes, Modes
<1>12. CASE UNCHANGED vars
  BY <1>12, TypesStay DEF vars, LineTypes
<1> QED
  BY <1>1, <1>2, <1>3, <1>4, <1>5, <1>6, <1>7, <1>8, <1>9, <1>10, <1>11, <1>12 DEF Next

-----------------------------------------------------------------------------
(* A screen that is lost stays so, whatever is written.                     *)

LEMMA LostWrites ==
  ASSUME screen = Lost, NEW bytes \in Seq(Byte), Write(bytes)
  PROVE  screen' = Lost
BY LostStays DEF Write

LEMMA LineSetIsBytes ==
  ASSUME LineTypes, NEW line \in Seq(Chars), SetLine(line)
  PROVE  \E bytes \in Seq(Byte) : Write(bytes)
<1> DEFINE pad == IF Len(buf) > Len(line) THEN Len(buf) - Len(line) ELSE 0
<1>1. pad \in Nat
  BY LenProperties DEF LineTypes
<1>2. Write(<<CR>> \o Prompt \o line \o Spaces(pad) \o <<CR>> \o Prompt \o line)
  BY DEF SetLine
<1> HIDE DEF pad
<1> QED
  BY <1>1, <1>2, WritesAreBytes

LEMMA StepWritesBytes ==
  ASSUME LineTypes, [Next]_vars
  PROVE  screen' = Lost \/ UNCHANGED screen \/ \E bytes \in Seq(Byte) : Write(bytes)
<1>1. CASE \E c \in Printable : Type(c)
  <2>1. \A c \in Printable : <<c>> \in Seq(Byte)
    BY CharsAreBytes
  <2> QED
    BY <1>1, <2>1 DEF Type
<1>2. CASE Backspace \/ Enter
  <2>1. <<BS, Space, BS>> \in Seq(Byte) /\ <<CR, LF>> \in Seq(Byte)
    BY SpaceIsGlyph, BytesAre
  <2> QED
    BY <1>2, <2>1 DEF Backspace, Enter
<1>3. CASE CommandOutput \/ NextPrompt \/ LogRecord
  <2>1. <<>> \in Seq(Chars) /\ 0 \in Nat
    BY EmptySeq
  <2>2. Prompt \in Seq(Byte) /\ OutputLine \in Seq(Byte)
    BY <2>1, WritesAreBytes
  <2> QED
    BY <1>3, <2>2 DEF CommandOutput, NextPrompt, LogRecord
<1>4. CASE Complete
  <2> DEFINE answer == CliComplete(buf)
  <2>1. answer.line \in Seq(Chars) /\ 0 \in Nat
    BY CompletedLine, CharsAreBytes DEF LineTypes
  <2>2. <<BEL>> \in Seq(Byte) /\ <<CR, LF, "x", CR, LF>> \o Prompt \o answer.line \in Seq(Byte)
    <3>1. <<BEL>> \in Seq(Byte)
      BY BytesAre
    <3> HIDE DEF answer
    <3> QED
      BY <2>1, <3>1, WritesAreBytes
  <2>3. \/ Write(<<BEL>>) \/ UNCHANGED screen \/ SetLine(answer.line)
        \/ Write(<<CR, LF, "x", CR, LF>> \o Prompt \o answer.line)
    BY <1>4 DEF Complete
  <2> HIDE DEF answer
  <2> QED
    BY <2>1, <2>2, <2>3, LineSetIsBytes
<1>5. CASE \E delta \in {"up", "down"} : HistoryMove(delta)
  <2>1. PICK delta \in {"up", "down"} : HistoryMove(delta)
    BY <1>5
  <2>2. CASE history = <<>>
    BY <2>1, <2>2 DEF HistoryMove
  <2>3. CASE history # <<>>
    <3>1. histPos' = Browsed(delta) /\ SetLine(Recalled)
      BY <2>1, <2>3 DEF HistoryMove, Recalled
    <3>2. Recalled \in Seq(Chars)
      BY <3>1, BrowsedIs DEF LineTypes
    <3> QED
      BY <3>1, <3>2, LineSetIsBytes
  <2> QED
    BY <2>2, <2>3
<1>6. CASE \E option \in Option : TelnetOption(option)
  <2>1. PICK option \in Option : TelnetOption(option)
    BY <1>6
  <2>2. \A verb \in Negotiation : <<IAC, verb, option>> \in Seq(Byte)
    BY BytesAre
  <2>3. UNCHANGED screen \/ \E verb \in Negotiation : Write(<<IAC, verb, option>>)
    BY <2>1 DEF TelnetOption, Negotiation
  <2> QED
    BY <2>2, <2>3
<1>7. CASE Quit \/ Escape \/ AfterEscape \/ OtherArrow \/ TelnetCommand \/ Subnegotiation
  BY <1>7 DEF Quit, Escape, AfterEscape, OtherArrow, TelnetCommand, Subnegotiation, Swallow
<1>8. CASE LiteralFF \/ UNCHANGED vars
  BY <1>8 DEF LiteralFF, vars
<1> QED
  BY <1>1, <1>2, <1>3, <1>4, <1>5, <1>6, <1>7, <1>8 DEF Next

LEMMA LostStaysLost ==
  ASSUME LineTypes, screen = Lost, [Next]_vars
  PROVE  screen' = Lost
BY StepWritesBytes, LostWrites

-----------------------------------------------------------------------------
(* What the client shows.                                                   *)

LEMMA ShowsFollows ==
  ASSUME NEW scr, NEW line \in Seq(Printable), Shows(scr, line)
  PROVE  Follows(scr, line)
<1>1. scr.col = Len(Prompt) + Len(line)
  BY PrintablesAreGlyphs, PromptIsText DEF Shows
<1>2. Printing(scr) /\ scr.col \in Nat /\ Len(scr.row) \in Nat
  BY DEF Shows, Printing
<1>3. \A i \in 1 .. Len(scr.row) : i > scr.col => i \in scr.col + 1 .. Len(scr.row)
  BY <1>2
<1> QED
  BY <1>1, <1>2, <1>3 DEF Follows, Shows

LEMMA NewRowFollows ==
  ASSUME NEW line \in Seq(Printable)
  PROVE  Follows(NewRow, line)
<1>1. NewRow.col = 0 /\ Len(NewRow.row) = 0 /\ Printing(NewRow)
  BY NewRowPrints, EmptySeq DEF NewRow
<1>2. Len(line) \in Nat /\ Len(Prompt) = 2
  BY LenProperties DEF Prompt
<1> QED
  BY <1>1, <1>2 DEF Follows

LEMMA ShownOnScreen ==
  ASSUME LineShown, buf' \in Seq(Printable), history' = history,
         pc' # "waiting", Follows(screen', buf'), drawn' => Shows(screen', buf')
  PROVE  LineShown'
BY DEF LineShown, Follows

LEMMA ShownStays ==
  ASSUME LineShown, UNCHANGED <<buf, history, screen, drawn>>,
         pc' = "closed" \/ (pc \notin {"waiting", "closed"} /\ pc' \notin {"waiting", "closed"})
  PROVE  LineShown'
BY DEF LineShown, Follows, Shows

\* One character of the line, one on the screen.
LEMMA CharacterFollows ==
  ASSUME NEW scr, NEW line \in Seq(Printable), NEW c \in Printable, Follows(scr, line)
  PROVE  /\ Follows(Written(scr, <<c>>), Append(line, c))
         /\ Shows(scr, line) => Shows(Written(scr, <<c>>), Append(line, c))
<1> DEFINE new == Written(scr, <<c>>)
           more == Append(line, c)
<1>1. new = Relay(scr, c)
  BY CharsAreBytes, BytesAre, GlyphsArePrinted, OneByteWritten
<1>2. /\ Printing(new) /\ new.col = scr.col + 1
      /\ Len(new.row) = IF scr.col + 1 > Len(scr.row) THEN scr.col + 1 ELSE Len(scr.row)
      /\ \A i \in 1 .. Len(new.row) : new.row[i] = IF i = scr.col + 1 THEN c ELSE scr.row[i]
  BY <1>1, CharsAreBytes, GlyphWritten DEF Follows
<1>3. /\ scr.col \in Nat /\ Len(scr.row) \in Nat /\ scr.col <= Len(scr.row) /\ Len(new.row) \in Nat
  BY <1>2 DEF Follows, Printing
<1>4. more \in Seq(Printable) /\ Len(more) = Len(line) + 1 /\ Len(line) \in Nat /\ Len(Prompt) = 2
  BY AppendProperties, LenProperties DEF Prompt
<1> HIDE DEF new, more
<1>5. \A i \in 1 .. Len(new.row) : i > new.col => new.row[i] = Space
  <2>1. ASSUME NEW i \in 1 .. Len(new.row), i > new.col PROVE new.row[i] = Space
    <3>1. i # scr.col + 1 /\ i > scr.col /\ i \in 1 .. Len(scr.row)
      BY <1>2, <1>3, <2>1
    <3>2. scr.row[i] = Space
      BY <3>1 DEF Follows
    <3> QED
      BY <1>2, <3>1, <3>2
  <2> QED
    BY <2>1
<1>6. Follows(new, more)
  BY <1>2, <1>3, <1>4, <1>5 DEF Follows
<1>7. ASSUME Shows(scr, line) PROVE Shows(new, more)
  <2> DEFINE text == Prompt \o line
  <2>1. /\ text \in Seq(Glyph) /\ Len(text) \in Nat
        /\ Prompt \o more = Append(text, c)
        /\ Len(Append(text, c)) = Len(text) + 1
        /\ Append(text, c)[Len(text) + 1] = c
        /\ \A i \in 1 .. Len(text) : Append(text, c)[i] = text[i]
    <3>1. line \in Seq(Glyph) /\ Prompt \in Seq(Glyph) /\ c \in Glyph
      BY PrintablesAreGlyphs, PromptIsText, CharsAreBytes
    <3>2. Prompt \o more = Append(text, c)
      BY <3>1, AppendToConcat DEF more
    <3>3. text \in Seq(Glyph)
      BY <3>1, PromptIsText
    <3> HIDE DEF text
    <3> QED
      BY <3>1, <3>2, <3>3
  <2> HIDE DEF text
  <2>2. scr.col = Len(text) /\ \A i \in 1 .. scr.col : scr.row[i] = text[i]
    BY <1>7 DEF Shows, text
  <2>3. new.col = Len(Prompt \o more)
    BY <1>2, <2>1, <2>2
  <2>4. ASSUME NEW i \in 1 .. new.col PROVE new.row[i] = (Prompt \o more)[i]
    <3>1. i \in 1 .. Len(new.row) /\ (i = scr.col + 1 \/ i \in 1 .. scr.col)
      BY <1>2, <1>3
    <3>2. i \in 1 .. scr.col => i # scr.col + 1
      BY <1>3
    <3> QED
      BY <1>2, <2>1, <2>2, <3>1, <3>2
  <2>5. \A i \in new.col + 1 .. Len(new.row) : i \in 1 .. Len(new.row) /\ i > new.col
    BY <1>2, <1>3
  <2> QED
    BY <1>2, <1>5, <2>3, <2>4, <2>5 DEF Shows
<1> QED
  BY <1>6, <1>7 DEF new, more

LEMMA TypeShown == ASSUME LineTypes, LineShown, NEW c \in Printable, Type(c) PROVE LineShown'
<1>1. /\ Follows(screen, buf) /\ (drawn => Shows(screen, buf)) /\ buf \in Seq(Printable)
      /\ history' = history /\ drawn' = drawn /\ pc' # "waiting"
      /\ screen' = Written(screen, <<c>>) /\ buf' = Append(buf, c)
  BY DEF Type, Reading, LineShown, Write
<1>2. Follows(screen', buf') /\ (drawn' => Shows(screen', buf')) /\ buf' \in Seq(Printable)
  BY <1>1, CharacterFollows, AppendProperties
<1> QED
  BY <1>1, <1>2, ShownOnScreen

\* The last character of the line is blanked.
LEMMA BackspaceFollows ==
  ASSUME NEW scr, NEW line \in Seq(Printable), line # <<>>, Follows(scr, line)
  PROVE  /\ Follows(Written(scr, <<BS, Space, BS>>), Front(line))
         /\ Shows(scr, line) => Shows(Written(scr, <<BS, Space, BS>>), Front(line))
<1> DEFINE new == Written(scr, <<BS, Space, BS>>)
           less == Front(line)
<1>1. /\ Printing(new) /\ new.col = IF scr.col > 0 THEN scr.col - 1 ELSE 0
      /\ Len(new.row) \in {Len(scr.row), new.col + 1}
      /\ \A i \in 1 .. Len(new.row) : new.row[i] = IF i = new.col + 1 THEN Space ELSE scr.row[i]
      /\ \A i \in 1 .. Len(new.row) : i # new.col + 1 => i \in 1 .. Len(scr.row)
  BY BackspaceWritten DEF Follows
<1>2. /\ less \in Seq(Printable) /\ Len(less) = Len(line) - 1 /\ Len(line) \in Nat /\ Len(line) > 0
      /\ \A i \in 1 .. Len(line) - 1 : less[i] = line[i]
  BY FrontIs, EmptySeq, LenProperties
<1>3. scr.col \in Nat /\ Len(scr.row) \in Nat /\ Len(new.row) \in Nat /\ Len(Prompt) = 2
  BY <1>1 DEF Follows, Printing, Prompt
<1> HIDE DEF new, less
<1>4. \A i \in 1 .. Len(new.row) : i > new.col => new.row[i] = Space
  <2>1. ASSUME NEW i \in 1 .. Len(new.row), i > new.col PROVE new.row[i] = Space
    <3>1. CASE i = new.col + 1
      BY <1>1, <3>1
    <3>2. CASE i # new.col + 1
      <4>1. i \in 1 .. Len(scr.row) /\ i > scr.col
        BY <1>1, <1>3, <2>1, <3>2
      <4>2. scr.row[i] = Space
        BY <4>1 DEF Follows
      <4> QED
        BY <1>1, <3>2, <4>2
    <3> QED
      BY <3>1, <3>2
  <2> QED
    BY <2>1
<1>5. Follows(new, less)
  BY <1>1, <1>2, <1>3, <1>4 DEF Follows
<1>6. ASSUME Shows(scr, line) PROVE Shows(new, less)
  <2>1. /\ Prompt \in Seq(Glyph) /\ line \in Seq(Glyph) /\ less \in Seq(Glyph)
        /\ Len(Prompt \o line) = Len(Prompt) + Len(line)
        /\ Len(Prompt \o less) = Len(Prompt) + Len(less)
    BY <1>2, PrintablesAreGlyphs, PromptIsText
  <2>2. \A i \in 1 .. Len(Prompt) + Len(less) : (Prompt \o less)[i] = (Prompt \o line)[i]
    <3> DEFINE head == Prompt
    <3>1. head \in Seq(Glyph)
      BY <2>1
    <3> HIDE DEF head
    <3>2. /\ \A i \in 1 .. Len(head) + Len(less) :
               (head \o less)[i] = IF i <= Len(head) THEN head[i] ELSE less[i - Len(head)]
          /\ \A i \in 1 .. Len(head) + Len(line) :
               (head \o line)[i] = IF i <= Len(head) THEN head[i] ELSE line[i - Len(head)]
      BY <2>1, <3>1, ConcatProperties
    <3>3. Len(head) \in Nat
      BY <3>1, LenProperties
    <3>4. ASSUME NEW i \in 1 .. Len(head) + Len(less)
          PROVE  (head \o less)[i] = (head \o line)[i]
      <4>1. i \in 1 .. Len(head) + Len(line) /\ (i <= Len(head) \/ i - Len(head) \in 1 .. Len(line) - 1)
        BY <1>2, <3>3
      <4> QED
        BY <1>2, <3>2, <4>1
    <3> QED
      BY <3>4 DEF head
  <2>3. scr.col = Len(Prompt) + Len(line) /\ \A i \in 1 .. scr.col : scr.row[i] = (Prompt \o line)[i]
    BY <1>6, <2>1 DEF Shows
  <2>4. new.col = Len(Prompt) + Len(less)
    BY <1>1, <1>2, <1>3, <2>3
  <2>5. new.col <= Len(new.row)
    BY <1>1 DEF Printing
  <2>6. ASSUME NEW i \in 1 .. new.col PROVE new.row[i] = (Prompt \o less)[i]
    <3>1. i \in 1 .. Len(new.row) /\ i # new.col + 1 /\ i \in 1 .. scr.col
      BY <1>1, <1>2, <1>3, <2>3, <2>4, <2>5
    <3>2. new.row[i] = scr.row[i]
      BY <1>1, <3>1
    <3>3. scr.row[i] = (Prompt \o line)[i] /\ (Prompt \o less)[i] = (Prompt \o line)[i]
      BY <2>2, <2>3, <2>4, <3>1
    <3> QED
      BY <3>2, <3>3
  <2>7. \A i \in new.col + 1 .. Len(new.row) : i \in 1 .. Len(new.row) /\ i > new.col
    BY <1>2, <1>3, <2>4
  <2> QED
    BY <1>1, <1>4, <2>1, <2>4, <2>6, <2>7 DEF Shows
<1> QED
  BY <1>5, <1>6 DEF new, less

LEMMA BackspaceShown == ASSUME LineTypes, LineShown, Backspace PROVE LineShown'
<1>1. /\ Follows(screen, buf) /\ (drawn => Shows(screen, buf)) /\ buf \in Seq(Printable)
      /\ history' = history /\ drawn' = drawn /\ pc' # "waiting" /\ buf # <<>>
      /\ screen' = Written(screen, <<BS, Space, BS>>) /\ buf' = Front(buf)
  BY DEF Backspace, Reading, LineShown, Write
<1>2. Follows(screen', buf') /\ (drawn' => Shows(screen', buf')) /\ buf' \in Seq(Printable)
  BY <1>1, BackspaceFollows, FrontIs
<1> QED
  BY <1>1, <1>2, ShownOnScreen

LEMMA EnterShown == ASSUME LineTypes, LineShown, Enter PROVE LineShown'
<1>1. screen' = NewRow /\ buf' = buf /\ pc' = "waiting"
  BY LineEndWritten DEF Enter, Reading, LineShown, Write
<1>2. buf \in Seq(Printable) /\ history \in Seq(Seq(Printable)) /\ history' = Remember(buf)
  BY DEF Enter, LineShown
<1>3. history' \in Seq(Seq(Printable))
  BY <1>2, RememberedIs
<1> QED
  BY <1>1, <1>2, <1>3, NewRowPrints DEF LineShown

LEMMA OutputShown == ASSUME LineTypes, LineShown, CommandOutput \/ LogRecord PROVE LineShown'
<1>1. screen' = NewRow /\ UNCHANGED <<pc, buf, history>>
  BY OutputWritten DEF CommandOutput, LogRecord, LineShown, Write
<1>2. CASE pc = "waiting"
  BY <1>1, <1>2, NewRowPrints DEF LineShown
<1>3. CASE pc # "waiting"
  <2>1. drawn' = FALSE /\ buf' \in Seq(Printable) /\ Follows(NewRow, buf')
    BY <1>1, <1>3, NewRowFollows DEF CommandOutput, LogRecord, LineShown
  <2> QED
    BY <1>1, <1>3, <2>1, ShownOnScreen
<1> QED
  BY <1>2, <1>3

LEMMA PromptShown == ASSUME LineTypes, LineShown, NextPrompt PROVE LineShown'
<1>1. /\ screen' = Written(NewRow, Prompt) /\ buf' = <<>> /\ pc' = "char" /\ history' = history
  BY DEF NextPrompt, LineShown, Write
<1>2. <<>> \in Seq(Printable)
  BY EmptySeq
<1>3. Shows(screen', buf') /\ Follows(screen', buf')
  BY <1>1, <1>2, PromptWritten, ShowsFollows
<1> QED
  BY <1>1, <1>2, <1>3, ShownOnScreen

\* setLine covers the old line and whatever is left of it on the screen.
LEMMA SetLineShown ==
  ASSUME LineTypes, LineShown, NEW line \in Seq(Printable), SetLine(line),
         pc \notin {"waiting", "closed"}, pc' \notin {"waiting", "closed"}, history' = history
  PROVE  LineShown'
<1> DEFINE pad == IF Len(buf) > Len(line) THEN Len(buf) - Len(line) ELSE 0
<1>1. /\ buf' = line
      /\ screen' = Written(screen, <<CR>> \o Prompt \o line \o Spaces(pad) \o <<CR>> \o Prompt \o line)
  BY DEF SetLine, Write
<1>2. Len(buf) \in Nat /\ Len(line) \in Nat /\ Len(Prompt) = 2
  BY LenProperties DEF LineShown, Prompt
<1>3. pad \in Nat /\ Len(line) + pad >= Len(buf)
  BY <1>2
<1> HIDE DEF pad
<1>4. Follows(screen, buf)
  BY DEF LineShown
<1>5. Printing(screen) /\ screen.col \in Nat /\ Len(screen.row) \in Nat
  BY <1>4 DEF Follows, Printing
<1>6. \A i \in 1 .. Len(screen.row) : i > Len(Prompt) + Len(line) + pad => screen.row[i] = Space
  <2>1. screen.col <= Len(Prompt) + Len(line) + pad
    BY <1>2, <1>3, <1>4, <1>5 DEF Follows
  <2>2. \A i \in 1 .. Len(screen.row) : i > Len(Prompt) + Len(line) + pad => i > screen.col
    BY <1>2, <1>3, <1>5, <2>1
  <2> QED
    BY <1>4, <2>2 DEF Follows
<1>7. Shows(screen', line)
  <2>1. Shows(Written(screen, <<CR>> \o Prompt \o line \o Spaces(pad) \o <<CR>> \o Prompt \o line), line)
    BY <1>3, <1>5, <1>6, LineSet
  <2> QED
    BY <1>1, <2>1, Zenon
<1> QED
  BY <1>1, <1>7, ShowsFollows, ShownOnScreen

LEMMA CompleteShown == ASSUME LineTypes, LineShown, Complete PROVE LineShown'
<1> DEFINE answer == CliComplete(buf)
<1>1. buf \in Seq(Printable) /\ answer.line \in Seq(Printable)
  BY CompletedLine DEF LineShown
<1>2. /\ pc \notin {"waiting", "closed"} /\ pc' \notin {"waiting", "closed"} /\ history' = history
      /\ \/ Write(<<BEL>>) /\ UNCHANGED <<buf, drawn>>
         \/ UNCHANGED <<buf, screen, drawn>>
         \/ SetLine(answer.line)
         \/ /\ buf' = answer.line
            /\ Write(<<CR, LF, "x", CR, LF>> \o Prompt \o answer.line)
  BY DEF Complete, Reading
<1> HIDE DEF answer
<1>3. Follows(screen, buf) /\ (drawn => Shows(screen, buf)) /\ Printing(screen)
  BY <1>2 DEF LineShown
<1>4. Written(screen, <<BEL>>) = screen
  <2>1. BEL \in Byte /\ BEL # LF
    BY BytesAre DEF BEL, LF
  <2> QED
    BY <1>3, <2>1, OneByteWritten, BellIs
<1>5. CASE UNCHANGED <<buf, drawn>> /\ (Write(<<BEL>>) \/ UNCHANGED screen)
  <2>1. UNCHANGED <<buf, drawn, screen>>
    BY <1>4, <1>5 DEF Write
  <2> QED
    BY <1>2, <2>1, ShownStays
<1>6. CASE SetLine(answer.line)
  BY <1>1, <1>2, <1>6, SetLineShown
<1>7. CASE buf' = answer.line /\ Write(<<CR, LF, "x", CR, LF>> \o Prompt \o answer.line)
  <2>1. Shows(Written(screen, <<CR, LF, "x", CR, LF>> \o Prompt \o answer.line), answer.line)
    BY <1>1, <1>3, CandidatesListed
  <2>2. Shows(screen', answer.line)
    BY <1>7, <2>1, Zenon DEF Write
  <2> QED
    BY <1>1, <1>2, <1>7, <2>2, ShowsFollows, ShownOnScreen
<1> QED
  BY <1>2, <1>5, <1>6, <1>7

LEMMA HistoryShown ==
  ASSUME LineTypes, LineShown, NEW delta \in {"up", "down"}, HistoryMove(delta)
  PROVE  LineShown'
<1>1. pc = "csi" /\ pc' = "char" /\ history' = history
  BY DEF HistoryMove
<1>2. CASE history = <<>>
  <2>1. UNCHANGED <<buf, screen, drawn>>
    BY <1>2 DEF HistoryMove
  <2> QED
    BY <1>1, <2>1, ShownStays
<1>3. CASE history # <<>>
  <2>1. histPos' = Browsed(delta) /\ SetLine(Recalled)
    BY <1>3 DEF HistoryMove, Recalled
  <2>2. Recalled \in Seq(Printable)
    BY <2>1, BrowsedIs DEF LineTypes, LineShown
  <2> QED
    BY <1>1, <2>1, <2>2, SetLineShown
<1> QED
  BY <1>2, <1>3

LEMMA OptionShown ==
  ASSUME LineTypes, LineShown, NEW option \in Option, TelnetOption(option)
  PROVE  LineShown'
<1>1. /\ pc \notin {"waiting", "closed"} /\ pc' = "char" /\ UNCHANGED <<buf, history, drawn>>
      /\ UNCHANGED screen \/ \E verb \in Negotiation : Write(<<IAC, verb, option>>)
  BY DEF TelnetOption, Negotiation
<1>2. Printing(screen)
  BY DEF LineShown
<1>3. screen' = screen
  BY <1>1, <1>2, NegotiationWritten DEF Write
<1> QED
  BY <1>1, <1>3, ShownStays

LEMMA NextShown ==
  ASSUME LineTypes, LineShown, [Next]_vars
  PROVE  screen' = Lost \/ LineShown'
<1>1. CASE (\E c \in Printable : Type(c)) \/ Backspace \/ Enter \/ NextPrompt
  BY <1>1, TypeShown, BackspaceShown, EnterShown, PromptShown
<1>2. CASE CommandOutput \/ LogRecord
  BY <1>2, OutputShown
<1>3. CASE Complete \/ \E delta \in {"up", "down"} : HistoryMove(delta)
  BY <1>3, CompleteShown, HistoryShown
<1>4. CASE \E option \in Option : TelnetOption(option)
  BY <1>4, OptionShown
<1>5. CASE Quit \/ Escape \/ AfterEscape \/ OtherArrow
  BY <1>5, ShownStays DEF Quit, Escape, AfterEscape, OtherArrow, Swallow
<1>6. CASE TelnetCommand \/ Subnegotiation
  BY <1>6, ShownStays DEF TelnetCommand, Subnegotiation, Swallow
<1>7. CASE LiteralFF
  BY <1>7 DEF LiteralFF
<1>8. CASE UNCHANGED vars
  BY <1>8 DEF vars, LineShown, Follows, Shows
<1> QED
  BY <1>1, <1>2, <1>3, <1>4, <1>5, <1>6, <1>7, <1>8 DEF Next

-----------------------------------------------------------------------------
LEMMA InitLine == Init => LineInv
<1> SUFFICES ASSUME Init PROVE LineInv
  OBVIOUS
<1>1. LineTypes
  BY EmptySeq, BoundAssumption DEF Init, LineTypes, Modes
<1>2. screen = Written(NewRow, Greeting) /\ buf = <<>> /\ history = <<>> /\ pc = "char"
  BY DEF Init, NewRow
<1>3. <<>> \in Seq(Printable) /\ <<>> \in Seq(Seq(Printable))
  BY EmptySeq
<1>4. Shows(screen, buf) /\ Follows(screen, buf)
  BY <1>2, <1>3, GreetingWritten, ShowsFollows
<1>5. LineShown
  BY <1>2, <1>3, <1>4 DEF LineShown, Follows
<1> QED
  BY <1>1, <1>5 DEF LineInv

LEMMA NextLine == ASSUME LineInv, [Next]_vars PROVE LineInv'
<1>1. LineTypes'
  BY NextTypes DEF LineInv
<1>2. CASE screen = Lost
  <2>1. screen' = Lost
    BY <1>2, LostStaysLost DEF LineInv
  <2> QED
    BY <1>1, <2>1 DEF LineInv, Lost
<1>3. CASE LineShown
  <2>1. screen' = Lost \/ LineShown'
    BY <1>3, NextShown DEF LineInv
  <2> QED
    BY <1>1, <2>1 DEF LineInv, Lost
<1> QED
  BY <1>2, <1>3 DEF LineInv

LEMMA LineInvariant == Spec => []LineInv
BY InitLine, NextLine, PTL DEF Spec

(***************************************************************************)
(* The variables hold what they are declared for: up and down never leave  *)
(* the history, and the client, if it is followed, is never left within a  *)
(* telnet command when a write is done.                                    *)
(***************************************************************************)
THEOREM TypesAreKept == Spec => []TypeOK
<1>1. ASSUME LineInv PROVE TypeOK
  <2>1. screen \in [row : Seq(Glyph), col : Nat, iac : {"no", "lost"}]
    <3>1. CASE screen = Lost
      BY <3>1, EmptySeq DEF Lost
    <3>2. CASE LineShown
      BY <3>2 DEF LineShown, Printing
    <3> QED
      BY <1>1, <3>1, <3>2 DEF LineInv
  <2> QED
    BY <1>1, <2>1 DEF LineInv, LineTypes, Modes, TypeOK
<1> QED
  BY <1>1, LineInvariant, PTL

(***************************************************************************)
(* ReadLine, setLine, complete and handleEscape, with crlfConn and the     *)
(* client behind them: whatever is typed, completed and recalled, with     *)
(* lines, tables and histories of any size, the terminal shows the prompt  *)
(* and the line that Enter would submit, blanks behind it and the cursor   *)
(* at its end, until a log record comes in between.                        *)
(***************************************************************************)
THEOREM ScreenIsInStep == Spec => []ScreenShowsLine
<1>1. ASSUME LineInv PROVE ScreenShowsLine
  <2> SUFFICES ASSUME pc \notin {"waiting", "closed"}, drawn, screen # Lost
               PROVE  /\ screen.col = Len(Shown) /\ screen.iac = "no"
                      /\ IsPrefix(Shown, screen.row)
                      /\ Blank(SubSeq(screen.row, Len(Shown) + 1, Len(screen.row)))
    BY DEF ScreenShowsLine
  <2>1. Shows(screen, buf) /\ buf \in Seq(Printable)
    BY <1>1 DEF LineInv, LineShown
  <2>2. /\ Shown \in Seq(Glyph) /\ Len(Shown) \in Nat /\ screen.row \in Seq(Glyph)
        /\ Len(screen.row) \in Nat /\ screen.col <= Len(screen.row) /\ screen.iac = "no"
    BY <2>1, PrintablesAreGlyphs, PromptIsText, LenProperties DEF Shows, Printing, Shown
  <2> DEFINE n == Len(Shown)
             row == screen.row
             rest == SubSeq(row, n + 1, Len(row))
  <2>3. /\ screen.col = n /\ \A i \in 1 .. n : row[i] = Shown[i]
        /\ \A i \in n + 1 .. Len(row) : row[i] = Space
    BY <2>1 DEF Shows, Shown
  <2>4. n \in Nat /\ Len(row) \in Nat /\ n <= Len(row) /\ row \in Seq(Glyph)
    BY <2>2, <2>3
  <2> HIDE DEF n, row
  <2>5. IsPrefix(Shown, row)
    BY <2>2, <2>3, <2>4, PrefixIs DEF n
  <2>6. Blank(rest)
    <3>1. \A i \in n + 1 .. Len(row) : row[i] \in Glyph
      BY <2>4, ElementOfSeq
    <3>2. /\ rest \in Seq(Glyph)
          /\ Len(rest) = IF n + 1 <= Len(row) THEN Len(row) - (n + 1) + 1 ELSE 0
          /\ \A i \in 1 .. Len(row) - (n + 1) + 1 : rest[i] = row[n + 1 + i - 1]
      BY <2>4, <3>1, SubSeqProperties
    <3> HIDE DEF rest
    <3>3. DOMAIN rest = 1 .. Len(rest)
      BY <3>2, LenProperties
    <3>4. ASSUME NEW i \in DOMAIN rest PROVE rest[i] = Space
      <4>1. i \in 1 .. Len(row) - (n + 1) + 1 /\ n + 1 + i - 1 \in n + 1 .. Len(row)
        BY <2>4, <3>2, <3>3
      <4> QED
        BY <2>3, <3>2, <4>1
    <3> QED
      BY <3>4 DEF Blank
  <2> QED
    BY <2>2, <2>3, <2>5, <2>6 DEF n, row, rest
<1> QED
  BY <1>1, LineInvariant, PTL

(***************************************************************************)
(* cliComplete: for any tables of words and any line, Tab keeps the words  *)
(* that were typed, goes no further than all candidates agree, and pressed *)
(* again finds the same ones.                                              *)
(***************************************************************************)
THEOREM TabIsRight == Spec => []TabCompletes
<1>1. LineInv => TabCompletes
  BY TabIsStable DEF LineInv, LineTypes
<1> QED
  BY <1>1, LineInvariant, PTL

-----------------------------------------------------------------------------
(* The history.                                                             *)

LEMMA HistoryKept == ASSUME HistoryClean, history' = history PROVE HistoryClean'
BY DEF HistoryClean, Blank

LEMMA EnterKeepsClean == ASSUME LineTypes, HistoryClean, Enter PROVE HistoryClean'
<1>1. history' = Remember(buf)
  BY DEF Enter
<1>2. CASE history' = history
  BY <1>2, HistoryKept
<1>3. CASE history' = Append(history, buf) /\ ~Blank(buf) /\ (history = <<>> \/ Last(history) # buf)
  <2>1. /\ Len(history) \in Nat /\ DOMAIN history = 1 .. Len(history)
        /\ DOMAIN history' = 1 .. Len(history) + 1 /\ Len(history') = Len(history) + 1
        /\ \A i \in 1 .. Len(history) : history'[i] = history[i]
        /\ history'[Len(history) + 1] = buf
    BY <1>3 DEF LineTypes
  <2>2. \A i \in DOMAIN history' : ~Blank(history'[i])
    BY <1>3, <2>1 DEF HistoryClean
  <2>3. ASSUME NEW i \in 1 .. Len(history) PROVE history'[i] # history'[i + 1]
    <3>1. CASE i < Len(history)
      <4>1. /\ i \in 1 .. Len(history) - 1 /\ i + 1 \in 1 .. Len(history)
            /\ history[i] # history[i + 1]
        BY <2>1, <3>1 DEF HistoryClean
      <4> QED
        BY <2>1, <4>1
    <3>2. CASE i = Len(history)
      <4>1. history # <<>> /\ history'[i] = history[Len(history)] /\ history'[i + 1] = buf
        BY <2>1, <2>3, <3>2
      <4> QED
        BY <1>3, <4>1 DEF Last
    <3>3. Len(history) \in Nat
      BY <2>1
    <3> QED
      BY <3>1, <3>2, <3>3
  <2> QED
    BY <2>1, <2>2, <2>3 DEF HistoryClean, Blank
<1> QED
  BY <1>1, <1>2, <1>3 DEF Remember

LEMMA NextKeepsClean == ASSUME LineTypes, HistoryClean, [Next]_vars PROVE HistoryClean'
<1>1. CASE Enter
  BY <1>1, EnterKeepsClean
<1>2. CASE (\E c \in Printable : Type(c)) \/ Backspace \/ NextPrompt \/ LiteralFF
  BY <1>2, HistoryKept DEF Type, Backspace, NextPrompt, LiteralFF
<1>3. CASE CommandOutput \/ LogRecord \/ Quit \/ Complete
  BY <1>3, HistoryKept DEF CommandOutput, LogRecord, Quit, Complete
<1>4. CASE Escape \/ AfterEscape \/ OtherArrow \/ TelnetCommand \/ Subnegotiation
  BY <1>4, HistoryKept DEF Escape, AfterEscape, OtherArrow, TelnetCommand, Subnegotiation, Swallow
<1>5. CASE (\E delta \in {"up", "down"} : HistoryMove(delta)) \/ \E option \in Option : TelnetOption(option)
  BY <1>5, HistoryKept DEF HistoryMove, TelnetOption
<1>6. CASE UNCHANGED vars
  BY <1>6, HistoryKept DEF vars
<1> QED
  BY <1>1, <1>2, <1>3, <1>4, <1>5, <1>6 DEF Next

(***************************************************************************)
(* ReadLine and handleEscape: whatever is typed, and wherever the history  *)
(* is being browsed when a line is entered, the history holds no blank     *)
(* line and no line twice in a row, so up always brings another line.      *)
(***************************************************************************)
THEOREM HistoryStaysClean == Spec => []HistoryClean
<1>1. Init => HistoryClean
  BY DEF Init, HistoryClean
<1>2. LineInv => LineTypes
  BY DEF LineInv
<1> QED
  BY <1>1, <1>2, NextKeepsClean, LineInvariant, PTL DEF Spec
=============================================================================
