----------------------------- MODULE HelpProofs -----------------------------
(***************************************************************************)
(* Theorems about the help, for every width, every definition and every    *)
(* configuration of the parser: the lines of a Writer are readable, every  *)
(* description of the help stands in its column, the syntax of every       *)
(* parameter denotes the numbers of arguments that the parser accepts, and *)
(* the help shows everything that was defined, and nothing else.           *)
(***************************************************************************)
EXTENDS HelpProperties, SequenceInduction, FiniteSetTheorems

-----------------------------------------------------------------------------
(***************************************************************************)
(* The lines of a Writer are readable for every width, every set of words  *)
(* and every sequence of calls.                                            *)
(*                                                                         *)
(* The invariant says what Writer's two positions mean: position is the    *)
(* column of the stream, and lastWritePosition is the end of the last word *)
(* of the line (0 if it has none).  From the second follows that blanks    *)
(* separate two words whether they come from space or from a skip.         *)
(***************************************************************************)
Pieces(Words) == [at : Nat, word : Words]

Typed(S, SS) ==
  [ position : Nat, lastWritePosition : Nat, startOfParagraph : BOOLEAN,
    indent : 0..Width, column : Nat, line : S, lines : SS ]

Writers(Words) == Typed(Seq(Pieces(Words)), Seq(Seq(Pieces(Words))))

Columns == Nat

(* The updates that the methods consist of.                                *)
Moved(w, c, p)  == [ [w EXCEPT !.column = c] EXCEPT !.position = p ]
Skipped(w, c, p) ==
  [ [w EXCEPT !.column = c] EXCEPT !.position = p, !.startOfParagraph = FALSE ]
Placed(w, piece, c, p) ==
  [ [w EXCEPT !.line = Append(w.line, piece), !.column = c]
      EXCEPT !.position = p, !.lastWritePosition = p, !.startOfParagraph = FALSE ]

LastEnd(pieces) == IF pieces = <<>> THEN 0 ELSE End(pieces[Len(pieces)])

WriterInv(Words, w) ==
  /\ w \in Writers(Words)
  /\ w.column = w.position
  /\ w.lastWritePosition = LastEnd(w.line)
  /\ w.lastWritePosition <= w.position
  /\ Readable(w.line)
  /\ \A i \in 1..Len(w.lines) : Readable(w.lines[i])

AreWords(Words) == \A item \in Words : item.len \in Nat \ {0}

-----------------------------------------------------------------------------
(* The members after an update.                                            *)
LEMMA Members ==
  ASSUME NEW Words, NEW w \in Writers(Words)
  PROVE  /\ w.position \in Nat /\ w.lastWritePosition \in Nat
         /\ w.startOfParagraph \in BOOLEAN /\ w.indent \in 0..Width /\ w.column \in Nat
         /\ w.line \in Seq(Pieces(Words)) /\ w.lines \in Seq(Seq(Pieces(Words)))
  BY DEF Writers, Typed

LEMMA NewlineFields ==
  ASSUME NEW Words, NEW w \in Writers(Words)
  PROVE  /\ newline(w) \in Writers(Words)
         /\ newline(w).line = <<>> /\ newline(w).column = 0
         /\ newline(w).lines = Append(w.lines, w.line)
         /\ newline(w).position = w.position /\ newline(w).indent = w.indent
         /\ newline(w).lastWritePosition = w.lastWritePosition
<1> DEFINE ss == Append(w.lines, w.line)
           e  == <<>>
           S  == Seq(Pieces(Words))
           SS == Seq(Seq(Pieces(Words)))
           v  == newline(w)
<1>1. ss \in SS /\ e \in S
  BY Members
<1>2. w \in Typed(S, SS) /\ v = [w EXCEPT !.lines = ss, !.line = e, !.column = 0]
  BY DEF newline, Writers, Typed
<1> HIDE DEF ss, e, S, SS, v
<1>3. v \in Typed(S, SS)
  BY <1>1, <1>2 DEF Typed
<1>4. /\ v.line = e /\ v.column = 0 /\ v.lines = ss /\ v.position = w.position
      /\ v.indent = w.indent /\ v.lastWritePosition = w.lastWritePosition
  BY <1>2 DEF Typed
<1> QED
  BY <1>3, <1>4 DEF ss, e, S, SS, v, Writers, Typed

LEMMA MovedFields ==
  ASSUME NEW Words, NEW w \in Writers(Words), NEW c \in Columns, NEW p \in Columns,
         NEW u, u = Moved(w, c, p)
  PROVE  /\ u \in Writers(Words) /\ u.column = c /\ u.position = p /\ u.lines = w.lines
         /\ u.line = w.line /\ u.lastWritePosition = w.lastWritePosition /\ u.indent = w.indent
<1> DEFINE S  == Seq(Pieces(Words))
           SS == Seq(Seq(Pieces(Words)))
<1>1. w \in Typed(S, SS)
  BY DEF Writers, Typed
<1>4. u = [[w EXCEPT !.column = c] EXCEPT !.position = p]
  BY DEF Moved
<1> HIDE DEF S, SS
<1>2. /\ u.column = c /\ u.position = p /\ u.lines = w.lines
      /\ u.line = w.line /\ u.lastWritePosition = w.lastWritePosition /\ u.indent = w.indent
  BY <1>1, <1>4 DEF Typed, Columns
<1>3. u \in Typed(S, SS)
  BY <1>1, <1>4 DEF Typed, Columns
<1> QED
  BY <1>2, <1>3 DEF S, SS, Writers, Typed

LEMMA SkippedFields ==
  ASSUME NEW Words, NEW w \in Writers(Words), NEW c \in Columns, NEW p \in Columns,
         NEW u, u = Skipped(w, c, p)
  PROVE  /\ u \in Writers(Words) /\ u.column = c /\ u.position = p /\ u.lines = w.lines
         /\ u.line = w.line /\ u.lastWritePosition = w.lastWritePosition /\ u.indent = w.indent
<1> DEFINE S  == Seq(Pieces(Words))
           SS == Seq(Seq(Pieces(Words)))
<1>1. w \in Typed(S, SS)
  BY DEF Writers, Typed
<1>4. u = [[w EXCEPT !.column = c] EXCEPT !.position = p, !.startOfParagraph = FALSE]
  BY DEF Skipped
<1> HIDE DEF S, SS
<1>2. /\ u.column = c /\ u.position = p /\ u.lines = w.lines
      /\ u.line = w.line /\ u.lastWritePosition = w.lastWritePosition /\ u.indent = w.indent
  BY <1>1, <1>4 DEF Typed, Columns
<1>3. u \in Typed(S, SS)
  BY <1>1, <1>4 DEF Typed, Columns
<1> QED
  BY <1>2, <1>3 DEF S, SS, Writers, Typed

LEMMA PlacedFields ==
  ASSUME NEW Words, NEW v \in Writers(Words), NEW piece \in Pieces(Words),
         NEW c \in Columns, NEW p \in Columns,
         NEW u, u = Placed(v, piece, c, p)
  PROVE  /\ u \in Writers(Words) /\ u.column = c /\ u.position = p /\ u.lines = v.lines
         /\ u.line = Append(v.line, piece) /\ u.lastWritePosition = p
<1> DEFINE S  == Seq(Pieces(Words))
           SS == Seq(Seq(Pieces(Words)))
           s  == Append(v.line, piece)
<1>1. s \in S
  BY Members
<1>2. v \in Typed(S, SS)
  BY DEF Writers, Typed
<1>3. u = [[v EXCEPT !.line = s, !.column = c]
                EXCEPT !.position = p, !.lastWritePosition = p, !.startOfParagraph = FALSE]
  BY DEF Placed
<1> HIDE DEF s, S, SS
<1>4. u \in Typed(S, SS)
  BY <1>1, <1>2, <1>3 DEF Typed, Columns
<1>5. /\ u.column = c /\ u.position = p /\ u.lines = v.lines
      /\ u.line = s /\ u.lastWritePosition = p
  BY <1>2, <1>3 DEF Typed
<1> QED
  BY <1>4, <1>5 DEF s, S, SS, Writers, Typed

(* Ends of words are positive.                                             *)
LEMMA EndsPositive ==
  ASSUME NEW Words, AreWords(Words), NEW pieces \in Seq(Pieces(Words)), pieces # <<>>
  PROVE  LastEnd(pieces) \in Nat \ {0}
<1>1. Len(pieces) \in 1..Len(pieces)
  OBVIOUS
<1>2. pieces[Len(pieces)] \in Pieces(Words)
  BY <1>1
<1> QED
  BY <1>2 DEF LastEnd, End, Pieces, AreWords

(* An empty line is readable.                                              *)
LEMMA EmptyReadable == Readable(<<>>)
  BY DEF Readable

(* At position 0 nothing stands on the line.                               *)
LEMMA NothingWritten ==
  ASSUME NEW Words, AreWords(Words), NEW w, WriterInv(Words, w), w.position = 0
  PROVE  w.line = <<>>
<1>1. w.line \in Seq(Pieces(Words)) /\ LastEnd(w.line) <= 0
  BY DEF WriterInv, Writers, Typed
<1> QED
  BY <1>1, EndsPositive

(* A line is finished as it is.                                            *)
LEMMA NewlineKeeps ==
  ASSUME NEW Words, NEW w, WriterInv(Words, w)
  PROVE  /\ newline(w) \in Writers(Words)
         /\ newline(w).line = <<>> /\ newline(w).column = 0
         /\ newline(w).position = w.position /\ newline(w).indent = w.indent
         /\ \A i \in 1..Len(newline(w).lines) : Readable(newline(w).lines[i])
<1> DEFINE v == newline(w)
<1>1. /\ v \in Writers(Words) /\ v.line = <<>> /\ v.column = 0
      /\ v.position = w.position /\ v.indent = w.indent
      /\ v.lines = Append(w.lines, w.line)
  BY NewlineFields DEF WriterInv
<1>2. w.lines \in Seq(Seq(Pieces(Words)))
  BY DEF WriterInv, Writers, Typed
<1>3. ASSUME NEW i \in 1..Len(v.lines) PROVE Readable(v.lines[i])
  <2>1. CASE i = Len(w.lines) + 1
    BY <1>1, <1>2, <2>1 DEF WriterInv
  <2>2. CASE i # Len(w.lines) + 1
    <3>1. i \in 1..Len(w.lines) /\ v.lines[i] = w.lines[i]
      BY <1>1, <1>2, <2>2
    <3> QED
      BY <3>1 DEF WriterInv
  <2> QED
    BY <2>1, <2>2
<1> QED
  BY <1>1, <1>3

LEMMA StartLineKeeps ==
  ASSUME NEW Words, AreWords(Words), NEW w, WriterInv(Words, w)
  PROVE  /\ WriterInv(Words, startLine(w))
         /\ startLine(w).position = 0 /\ startLine(w).indent = w.indent
<1> DEFINE v == IF w.position > 0 THEN newline(w) ELSE w
<1>1. /\ v \in Writers(Words) /\ v.line = <<>> /\ v.column = 0 /\ v.indent = w.indent
      /\ \A i \in 1..Len(v.lines) : Readable(v.lines[i])
  <2>1. CASE w.position > 0
    BY <2>1, NewlineKeeps
  <2>2. CASE ~(w.position > 0)
    <3>1. w.position = 0
      BY <2>2 DEF WriterInv, Writers, Typed
    <3> QED
      BY <2>2, <3>1, NothingWritten DEF WriterInv
  <2> QED
    BY <2>1, <2>2
<1> DEFINE u == [v EXCEPT !.position = 0, !.lastWritePosition = 0, !.startOfParagraph = FALSE]
<1>2. /\ u \in Writers(Words) /\ u.line = <<>> /\ u.column = 0 /\ u.indent = v.indent
      /\ u.position = 0 /\ u.lastWritePosition = 0 /\ u.lines = v.lines
  <2> HIDE DEF v
  <2> QED
    BY <1>1 DEF Writers, Typed
<1>3. startLine(w) = u
  BY DEF startLine
<1> HIDE DEF u, v
<1>4. WriterInv(Words, u)
  BY <1>1, <1>2, EmptyReadable DEF WriterInv, LastEnd
<1> QED
  BY <1>1, <1>2, <1>3, <1>4

LEMMA SkipKeeps ==
  ASSUME NEW Words, AreWords(Words), NEW w, WriterInv(Words, w), NEW n \in Nat
  PROVE  WriterInv(Words, skipToColumnOrNewLine(w, n))
<1>1. CASE n >= Width \/ n < w.position
  BY <1>1, StartLineKeeps DEF skipToColumnOrNewLine
<1>2. CASE ~(n >= Width \/ n < w.position)
  <2> DEFINE v == skipToColumnOrNewLine(w, n)
  <2>1. w \in Writers(Words) /\ w.position <= n
    BY <1>2 DEF WriterInv, Writers, Typed
  <2>2. v = Skipped(w, w.column + (n - w.position), n)
    BY <1>2 DEF skipToColumnOrNewLine, blanks, Skipped
  <2> HIDE DEF v
  <2>6. w.column + (n - w.position) \in Nat
    BY <2>1, Members DEF WriterInv
  <2>3. /\ v \in Writers(Words) /\ v.position = n /\ v.column = w.column + (n - w.position)
        /\ v.line = w.line /\ v.lines = w.lines /\ v.lastWritePosition = w.lastWritePosition
    <3> DEFINE c == w.column + (n - w.position)
    <3>1. v = Skipped(w, c, n) /\ c \in Columns /\ n \in Columns
      BY <2>2, <2>6 DEF Columns
    <3> HIDE DEF c
    <3>2. /\ v \in Writers(Words) /\ v.position = n /\ v.column = c
          /\ v.line = w.line /\ v.lines = w.lines /\ v.lastWritePosition = w.lastWritePosition
      BY <2>1, <3>1, SkippedFields
    <3> QED
      BY <3>2 DEF c
  <2>4. v.column = v.position /\ v.lastWritePosition <= v.position
    BY <2>1, <2>3, Members DEF WriterInv
  <2> QED
    BY <2>3, <2>4 DEF WriterInv, v
<1> QED
  BY <1>1, <1>2

LEMMA StartParagraphKeeps ==
  ASSUME NEW Words, AreWords(Words), NEW w, WriterInv(Words, w)
  PROVE  WriterInv(Words, startParagraph(w))
<1>1. CASE w.startOfParagraph
  BY <1>1 DEF startParagraph
<1>2. CASE ~w.startOfParagraph
  <2> DEFINE v == startLine(w)
             u == newline(v)
  <2>1. WriterInv(Words, v) /\ v.position = 0
    BY StartLineKeeps
  <2>2. /\ u \in Writers(Words) /\ u.line = <<>> /\ u.column = 0 /\ u.position = 0
        /\ \A i \in 1..Len(u.lines) : Readable(u.lines[i])
    <3> HIDE DEF v
    <3> QED
      BY <2>1, NewlineKeeps
  <2>3. u.lastWritePosition = 0
    <3>1. v.line = <<>> /\ v.lastWritePosition = 0
      <4> HIDE DEF v
      <4> QED
        BY <2>1, NothingWritten DEF WriterInv, LastEnd
    <3> HIDE DEF v
    <3> QED
      BY <2>1, <3>1 DEF newline, WriterInv, Writers, Typed
  <2>4. startParagraph(w) = [u EXCEPT !.startOfParagraph = TRUE]
    BY <1>2 DEF startParagraph
  <2> HIDE DEF u
  <2>5. /\ startParagraph(w) \in Writers(Words)
        /\ startParagraph(w).line = u.line /\ startParagraph(w).lines = u.lines
        /\ startParagraph(w).column = u.column /\ startParagraph(w).position = u.position
        /\ startParagraph(w).lastWritePosition = u.lastWritePosition
    BY <2>2, <2>4 DEF Writers, Typed
  <2> QED
    BY <2>2, <2>3, <2>5, EmptyReadable DEF WriterInv, LastEnd
<1> QED
  BY <1>1, <1>2

LEMMA SetIndentKeeps ==
  ASSUME NEW Words, NEW w, WriterInv(Words, w), NEW n \in Nat
  PROVE  WriterInv(Words, setIndent(w, n))
<1> DEFINE v == setIndent(w, n)
<1>1. (IF n > Width THEN Width ELSE n) \in 0..Width
  BY WidthAssumption
<1>2. /\ v \in Writers(Words) /\ v.line = w.line /\ v.lines = w.lines /\ v.column = w.column
      /\ v.position = w.position /\ v.lastWritePosition = w.lastWritePosition
  BY <1>1 DEF WriterInv, Writers, Typed, setIndent
<1> HIDE DEF v
<1>3. WriterInv(Words, v)
  BY <1>2 DEF WriterInv
<1> QED
  BY <1>3 DEF v

-----------------------------------------------------------------------------
(* A word: v is the writer when the word is put.                           *)

(* One word more on a line that has room for it, or on an empty line.      *)
LEMMA PutKeeps ==
  ASSUME NEW Words, AreWords(Words), NEW v \in Writers(Words), NEW item \in Words,
         Readable(v.line), v.column = v.position,
         \A i \in 1..Len(v.lines) : Readable(v.lines[i]),
         v.line # <<>> => /\ LastEnd(v.line) < v.column
                          /\ v.column + item.len <= Width
  PROVE  WriterInv(Words, [ put(v, item)
             EXCEPT !.position = v.position + item.len,
                    !.lastWritePosition = v.position + item.len,
                    !.startOfParagraph = FALSE ])
<1> DEFINE piece == [at |-> v.column, word |-> item]
           u == [ put(v, item) EXCEPT !.position = v.position + item.len,
                                      !.lastWritePosition = v.position + item.len,
                                      !.startOfParagraph = FALSE ]
<1>1. item.len \in Nat \ {0} /\ v.column \in Nat /\ v.line \in Seq(Pieces(Words))
  BY DEF AreWords, Writers, Typed
<1>2. piece \in Pieces(Words) /\ End(piece) = v.column + item.len /\ piece.at = v.column
  BY <1>1 DEF Pieces, End
<1> HIDE DEF piece
<1>3. /\ u \in Writers(Words) /\ u.line = Append(v.line, piece) /\ u.lines = v.lines
      /\ u.position = v.position + item.len /\ u.lastWritePosition = v.position + item.len
      /\ u.column = v.column + item.len
  <2>1. u = Placed(v, piece, v.column + item.len, v.position + item.len)
    BY DEF put, piece, Placed
  <2>2. v.position + item.len \in Nat /\ v.column + item.len \in Nat
    BY <1>1, Members
  <2> HIDE DEF u
  <2> DEFINE c == v.column + item.len
             p == v.position + item.len
  <2>3. u = Placed(v, piece, c, p) /\ c \in Columns /\ p \in Columns
    BY <2>1, <2>2 DEF Columns
  <2> HIDE DEF c, p
  <2>4. /\ u \in Writers(Words) /\ u.line = Append(v.line, piece) /\ u.lines = v.lines
        /\ u.position = p /\ u.lastWritePosition = p /\ u.column = c
    BY <1>2, <2>3, PlacedFields
  <2> QED
    BY <2>4 DEF c, p
<1> HIDE DEF u
<1>4. /\ Len(u.line) = Len(v.line) + 1 /\ u.line[Len(u.line)] = piece /\ u.line # <<>>
      /\ \A k \in 1..Len(v.line) : u.line[k] = v.line[k]
  <2>1. v.line \in Seq(Pieces(Words)) /\ piece \in Pieces(Words) /\ u.line = Append(v.line, piece)
    BY <1>1, <1>2, <1>3
  <2> QED
    BY <2>1
<1>5. u.lastWritePosition = LastEnd(u.line)
  BY <1>2, <1>3, <1>4 DEF LastEnd
<1>6. Readable(u.line)
  <2>1. CASE v.line = <<>>
    <3>1. Len(u.line) = 1
      BY <1>4, <2>1
    <3> QED
      BY <3>1 DEF Readable
  <2>2. CASE v.line # <<>>
    <3>1. Len(v.line) \in Nat \ {0}
      BY <1>1, <2>2
    <3>2. LastEnd(v.line) = End(v.line[Len(v.line)])
      BY <2>2 DEF LastEnd
    <3>3. ASSUME NEW k \in 1..Len(v.line) PROVE v.line[k].at \in Nat /\ End(v.line[k]) \in Nat
      <4>1. v.line[k] \in Pieces(Words)
        BY <1>1
      <4> QED
        BY <4>1 DEF Pieces, End, AreWords
    <3>4. ASSUME NEW k \in 1..Len(u.line) PROVE End(u.line[k]) <= Width
      <4>1. CASE k = Len(u.line)
        BY <1>2, <1>4, <2>2, <4>1
      <4>2. CASE k # Len(u.line)
        <5>1. k \in 1..Len(v.line) /\ u.line[k] = v.line[k]
          BY <1>4, <3>1, <4>2
        <5>2. CASE Len(v.line) = 1
          <6>1. End(v.line[k]) < v.column
            BY <2>2, <3>2, <5>1, <5>2
          <6> QED
            BY <1>1, <2>2, <3>3, <5>1, <6>1, WidthAssumption
        <5>3. CASE Len(v.line) # 1
          <6>1. ~(End(v.line[k]) > Width)
            BY <5>1, <5>3 DEF Readable
          <6> QED
            BY <3>3, <5>1, <6>1, WidthAssumption
        <5> QED
          BY <5>2, <5>3
      <4> QED
        BY <4>1, <4>2
    <3>5. ASSUME NEW k \in 2..Len(u.line) PROVE End(u.line[k - 1]) < u.line[k].at
      <4>1. CASE k = Len(u.line)
        <5>1. k - 1 = Len(v.line) /\ u.line[k - 1] = v.line[Len(v.line)]
          BY <1>4, <3>1, <4>1
        <5> QED
          BY <1>2, <1>4, <2>2, <3>2, <4>1, <5>1
      <4>2. CASE k # Len(u.line)
        <5>1. k \in 2..Len(v.line) /\ u.line[k] = v.line[k] /\ u.line[k - 1] = v.line[k - 1]
          <6>1. k \in 2..Len(v.line) /\ k - 1 \in 1..Len(v.line) /\ k \in 1..Len(v.line)
            BY <1>4, <3>1, <4>2
          <6> QED
            BY <1>4, <6>1
        <5> QED
          BY <5>1 DEF Readable
      <4> QED
        BY <4>1, <4>2
    <3>6. ASSUME NEW k \in 1..Len(u.line) PROVE ~(End(u.line[k]) > Width)
      <4>1. End(u.line[k]) \in Nat
        <5>1. u.line[k] \in Pieces(Words)
          BY <1>3 DEF Writers, Typed
        <5> QED
          BY <5>1 DEF Pieces, End, AreWords
      <4> QED
        BY <3>4, <4>1, WidthAssumption
    <3> QED
      BY <3>5, <3>6 DEF Readable
  <2> QED
    BY <2>1, <2>2
<1>7. u.column = u.position /\ u.lastWritePosition <= u.position
  BY <1>3 DEF Writers, Typed
<1>8. WriterInv(Words, u)
  BY <1>3, <1>5, <1>6, <1>7 DEF WriterInv
<1> QED
  BY <1>8 DEF u

LEMMA WriteWordKeeps ==
  ASSUME NEW Words, AreWords(Words), NEW w, WriterInv(Words, w), NEW item \in Words
  PROVE  WriterInv(Words, writeWord(w, item))
<1> DEFINE s == IF newPosition(w, item) > Width THEN startLine(w) ELSE space(w)
           v == indented(s)
<1>1. item.len \in Nat \ {0} /\ w \in Writers(Words)
  BY DEF AreWords, WriterInv
<1>2. /\ s \in Writers(Words) /\ s.column = s.position /\ Readable(s.line)
      /\ \A i \in 1..Len(s.lines) : Readable(s.lines[i])
      /\ s.position = 0 => s.line = <<>>
      /\ s.line # <<>> => LastEnd(s.line) < s.column /\ s.column + item.len <= Width
  <2>1. CASE newPosition(w, item) > Width
    <3>1. WriterInv(Words, s) /\ s.position = 0
      BY <2>1, StartLineKeeps
    <3> HIDE DEF s
    <3>2. s.line = <<>>
      BY <3>1, NothingWritten
    <3> QED
      BY <3>1, <3>2 DEF WriterInv
  <2>2. CASE ~(newPosition(w, item) > Width)
    <3>1. s = space(w)
      BY <2>2
    <3> HIDE DEF s
    <3>2. CASE w.position > 0 /\ w.position = w.lastWritePosition
      <4>1. s = [ [w EXCEPT !.column = @ + 1] EXCEPT !.position = @ + 1 ]
        BY <3>1, <3>2 DEF space, blanks
      <4>2. /\ s \in Writers(Words) /\ s.position = w.position + 1 /\ s.column = w.column + 1
            /\ s.line = w.line /\ s.lines = w.lines
        <5>1. s = Moved(w, w.column + 1, w.position + 1)
          BY <4>1 DEF Moved
        <5>2. w.position + 1 \in Nat /\ w.column + 1 \in Nat
          BY <1>1, Members
        <5> DEFINE c == w.column + 1
                   p == w.position + 1
        <5>3. s = Moved(w, c, p) /\ c \in Columns /\ p \in Columns
          BY <5>1, <5>2 DEF Columns
        <5> HIDE DEF c, p
        <5>4. /\ s \in Writers(Words) /\ s.position = p /\ s.column = c
              /\ s.line = w.line /\ s.lines = w.lines
          BY <1>1, <5>3, MovedFields
        <5> QED
          BY <5>4 DEF c, p
      <4>3. w.position + 1 + item.len <= Width
        <5>1. newPosition(w, item) = w.position + 1 + item.len
          BY <1>1, <3>2 DEF newPosition, Writers, Typed
        <5> QED
          BY <1>1, <2>2, <5>1, WidthAssumption DEF Writers, Typed
      <4> QED
        BY <1>1, <3>2, <4>2, <4>3 DEF WriterInv, Writers, Typed
    <3>3. CASE ~(w.position > 0 /\ w.position = w.lastWritePosition)
      <4>1. s = w
        BY <3>1, <3>3 DEF space
      <4>2. CASE w.position = 0
        BY <4>1, <4>2, NothingWritten DEF WriterInv
      <4>3. CASE w.position # 0
        <5>1. w.lastWritePosition < w.position
          BY <1>1, <3>3, <4>3 DEF WriterInv, Writers, Typed
        <5>2. newPosition(w, item) = w.position + 1 + item.len
          BY <1>1, <4>3 DEF newPosition, Writers, Typed
        <5>3. w.position + item.len <= Width
          BY <1>1, <2>2, <5>2, WidthAssumption DEF Writers, Typed
        <5> QED
          BY <4>1, <4>3, <5>1, <5>3 DEF WriterInv
      <4> QED
        BY <4>2, <4>3
    <3> QED
      BY <3>2, <3>3
  <2> QED
    BY <2>1, <2>2
<1> HIDE DEF s
<1>3. /\ v \in Writers(Words) /\ v.column = v.position /\ v.line = s.line /\ v.lines = s.lines
      /\ v.line # <<>> => v.column = s.column
  <2>1. CASE s.position = 0
    <3>1. v = Moved(s, s.column + s.indent, s.indent)
      BY <2>1 DEF indented, blanks, Moved
    <3> HIDE DEF v
    <3>3. s.indent \in Nat /\ s.column + s.indent = s.indent
      BY <1>2, <2>1, Members, WidthAssumption
    <3> DEFINE c == s.column + s.indent
               p == s.indent
    <3>4. v = Moved(s, c, p) /\ c \in Columns /\ p \in Columns /\ c = p
      BY <3>1, <3>3 DEF Columns
    <3> HIDE DEF c, p
    <3>5. /\ v \in Writers(Words) /\ v.position = p /\ v.column = c
          /\ v.line = s.line /\ v.lines = s.lines
      BY <1>2, <3>4, MovedFields
    <3> QED
      BY <1>2, <2>1, <3>1, <3>4, <3>5
  <2>2. CASE s.position # 0
    BY <1>2, <2>2 DEF indented
  <2> QED
    BY <2>1, <2>2
<1> HIDE DEF v
<1>4. WriterInv(Words, [ put(v, item) EXCEPT !.position = v.position + item.len,
                                             !.lastWritePosition = v.position + item.len,
                                             !.startOfParagraph = FALSE ])
  BY <1>2, <1>3, PutKeeps
<1> QED
  BY <1>4 DEF writeWord, v, s

-----------------------------------------------------------------------------
(* For every width, every set of words that are not empty and every client *)
(* of Writer: no line is too wide because of a missed break, and no two    *)
(* words touch.                                                            *)
THEOREM EveryLineReadable ==
  ASSUME NEW CONSTANT Words, AreWords(Words)
  PROVE  AnyClient(Words) => []LinesReadable
<1>1. writer = newWriter => WriterInv(Words, writer)
  <2>1. newWriter \in Writers(Words)
    BY WidthAssumption DEF newWriter, Writers, Typed
  <2> QED
    BY <2>1, EmptyReadable DEF newWriter, WriterInv, LastEnd
<1>2. WriterInv(Words, writer) /\ [Call(Words)]_writer => WriterInv(Words, writer)'
  BY WriteWordKeeps, SetIndentKeeps, SkipKeeps, StartLineKeeps, StartParagraphKeeps DEF Call
<1>3. WriterInv(Words, writer) => LinesReadable
  <2> SUFFICES ASSUME WriterInv(Words, writer), NEW i \in 1..Len(Lines)
               PROVE  Readable(Lines[i])
    BY DEF LinesReadable
  <2>1. writer.lines \in Seq(Seq(Pieces(Words)))
    BY DEF WriterInv, Writers, Typed
  <2>2. CASE i \in 1..Len(writer.lines)
    <3>1. Lines[i] = writer.lines[i]
      BY <2>1, <2>2 DEF Lines
    <3> QED
      BY <2>2, <3>1 DEF WriterInv
  <2>3. CASE i \notin 1..Len(writer.lines)
    <3>1. Lines[i] = writer.line
      BY <2>1, <2>3 DEF Lines
    <3> QED
      BY <3>1 DEF WriterInv
  <2> QED
    BY <2>2, <2>3
<1>4. AnyClient(Words) <=> (writer = newWriter /\ [][Call(Words)]_writer)
  BY DEF AnyClient
<1> QED
  BY <1>1, <1>2, <1>3, <1>4, PTL

-----------------------------------------------------------------------------
(* All lines are in a set L that holds the empty line.                     *)
AllLines(L, w) == w.line \in L /\ \A i \in 1..Len(w.lines) : w.lines[i] \in L

LEMMA AppendedLines ==
  ASSUME NEW Words, NEW L, NEW ls \in Seq(Seq(Pieces(Words))), NEW l, l \in L,
         l \in Seq(Pieces(Words)), \A i \in 1..Len(ls) : ls[i] \in L
  PROVE  \A i \in 1..Len(Append(ls, l)) : Append(ls, l)[i] \in L
<1> DEFINE S == Seq(Pieces(Words))
<1>1. ls \in Seq(S) /\ l \in S
  OBVIOUS
<1> HIDE DEF S
<1>2. /\ Len(Append(ls, l)) = Len(ls) + 1 /\ Len(ls) \in Nat /\ Append(ls, l)[Len(ls) + 1] = l
      /\ \A i \in 1..Len(ls) : Append(ls, l)[i] = ls[i]
  BY <1>1
<1>3. ASSUME NEW i \in 1..Len(Append(ls, l)) PROVE Append(ls, l)[i] \in L
  <2>1. i \in 1..Len(ls) \/ i = Len(ls) + 1
    BY <1>2
  <2> QED
    BY <1>2, <2>1
<1> QED
  BY <1>3

LEMMA NewlineLines ==
  ASSUME NEW Words, NEW w \in Writers(Words), NEW L, <<>> \in L, AllLines(L, w)
  PROVE  AllLines(L, newline(w))
<1>1. w.lines \in Seq(Seq(Pieces(Words))) /\ w.line \in Seq(Pieces(Words))
  BY Members
<1>2. w.line \in L /\ \A i \in 1..Len(w.lines) : w.lines[i] \in L
  BY DEF AllLines
<1>3. newline(w).line = <<>> /\ newline(w).lines = Append(w.lines, w.line)
  BY NewlineFields
<1>4. \A i \in 1..Len(Append(w.lines, w.line)) : Append(w.lines, w.line)[i] \in L
  BY <1>1, <1>2, AppendedLines
<1> QED
  BY <1>3, <1>4 DEF AllLines

LEMMA StartLineLines ==
  ASSUME NEW Words, AreWords(Words), NEW w, WriterInv(Words, w), NEW L, <<>> \in L, AllLines(L, w)
  PROVE  /\ AllLines(L, startLine(w)) /\ WriterInv(Words, startLine(w))
         /\ startLine(w).position = 0 /\ startLine(w).indent = w.indent
         /\ startLine(w).line = <<>>
<1> DEFINE v == IF w.position > 0 THEN newline(w) ELSE w
           u == [v EXCEPT !.position = 0, !.lastWritePosition = 0, !.startOfParagraph = FALSE]
<1>1. v \in Writers(Words) /\ AllLines(L, v)
  <2>1. w \in Writers(Words)
    BY DEF WriterInv
  <2> QED
    BY <2>1, NewlineFields, NewlineLines
<1>2. startLine(w) = u
  BY DEF startLine
<1> HIDE DEF v
<1>3. u.line = v.line /\ u.lines = v.lines
  BY <1>1 DEF Writers, Typed
<1> HIDE DEF u
<1>4. AllLines(L, u)
  BY <1>1, <1>3 DEF AllLines
<1>5. WriterInv(Words, startLine(w)) /\ startLine(w).position = 0 /\ startLine(w).indent = w.indent
  BY StartLineKeeps
<1>6. startLine(w).line = <<>>
  BY <1>5, NothingWritten
<1> QED
  BY <1>2, <1>4, <1>5, <1>6

LEMMA SkipLines ==
  ASSUME NEW Words, AreWords(Words), NEW w, WriterInv(Words, w), NEW L, <<>> \in L, AllLines(L, w),
         NEW n \in Nat, NEW u, u = skipToColumnOrNewLine(w, n)
  PROVE  /\ AllLines(L, u) /\ WriterInv(Words, u)
         /\ u.position = 0 \/ (u.position = n /\ n < Width)
<1>1. CASE n >= Width \/ n < w.position
  BY <1>1, StartLineLines DEF skipToColumnOrNewLine
<1>2. CASE ~(n >= Width \/ n < w.position)
  <2>1. n < Width
    BY <1>2, WidthAssumption
  <2>2. u = Skipped(w, w.column + (n - w.position), n)
    BY <1>2 DEF skipToColumnOrNewLine, blanks, Skipped
  <2>3. w \in Writers(Words)
    BY DEF WriterInv
  <2>4. u.position = n /\ u.line = w.line /\ u.lines = w.lines
    BY <2>2, <2>3 DEF Skipped, Writers, Typed
  <2>5. WriterInv(Words, u)
    BY SkipKeeps
  <2> QED
    BY <2>1, <2>4, <2>5 DEF AllLines
<1> QED
  BY <1>1, <1>2

LEMMA StartParagraphLines ==
  ASSUME NEW Words, AreWords(Words), NEW w, WriterInv(Words, w), NEW L, <<>> \in L, AllLines(L, w),
         NEW u, u = startParagraph(w)
  PROVE  /\ AllLines(L, u) /\ WriterInv(Words, u)
         /\ u = w \/ (u.position = 0 /\ u.indent = w.indent)
<1>0. WriterInv(Words, u)
  BY StartParagraphKeeps
<1>1. CASE w.startOfParagraph
  BY <1>0, <1>1 DEF startParagraph
<1>2. CASE ~w.startOfParagraph
  <2>1. PICK v : v = startLine(w)
    OBVIOUS
  <2>2. AllLines(L, v) /\ WriterInv(Words, v) /\ v.position = 0 /\ v.indent = w.indent
    BY <2>1, StartLineLines
  <2>3. PICK t : t = newline(v)
    OBVIOUS
  <2>4. t \in Writers(Words) /\ AllLines(L, t) /\ t.position = 0 /\ t.indent = w.indent
    <3>1. v \in Writers(Words)
      BY <2>2 DEF WriterInv
    <3> QED
      BY <2>2, <2>3, <3>1, NewlineFields, NewlineLines
  <2>5. u = [t EXCEPT !.startOfParagraph = TRUE]
    BY <1>2, <2>1, <2>3 DEF startParagraph
  <2>6. u.line = t.line /\ u.lines = t.lines /\ u.position = t.position /\ u.indent = t.indent
    BY <2>4, <2>5 DEF Writers, Typed
  <2> QED
    BY <1>0, <2>4, <2>6 DEF AllLines
<1> QED
  BY <1>1, <1>2

LEMMA SetIndentLines ==
  ASSUME NEW Words, NEW w, WriterInv(Words, w), NEW L, AllLines(L, w),
         NEW n \in Nat, NEW u, u = setIndent(w, n)
  PROVE  /\ AllLines(L, u) /\ WriterInv(Words, u) /\ u.position = w.position
         /\ u.indent = IF n > Width THEN Width ELSE n
<1>1. WriterInv(Words, u)
  BY SetIndentKeeps
<1>2. w \in Writers(Words)
  BY DEF WriterInv
<1>3. /\ u.line = w.line /\ u.lines = w.lines /\ u.position = w.position
      /\ u.indent = IF n > Width THEN Width ELSE n
  BY <1>2 DEF setIndent, Writers, Typed
<1> QED
  BY <1>1, <1>3 DEF AllLines

(* Where a word is put: at the indent of a new line or after a word.       *)
PieceAt(n, item) == [at |-> n, word |-> item]

Spaced(w) == IF w.position = w.lastWritePosition THEN w.position + 1 ELSE w.position

WithWord(w, item) ==
  [ put(w, item) EXCEPT !.position = w.position + item.len,
                        !.lastWritePosition = w.position + item.len,
                        !.startOfParagraph = FALSE ]

LEMMA PlacedLines ==
  ASSUME NEW Words, NEW w \in Writers(Words), NEW item \in Words, AreWords(Words), NEW u, u = WithWord(w, item)
  PROVE  u.line = Append(w.line, PieceAt(w.column, item)) /\ u.lines = w.lines /\ u.indent = w.indent
<1> DEFINE l == Append(w.line, PieceAt(w.column, item))
           c == w.column + item.len
           p == w.position + item.len
<1>1. u = [[w EXCEPT !.line = l, !.column = c]
             EXCEPT !.position = p, !.lastWritePosition = p, !.startOfParagraph = FALSE]
  BY DEF put, PieceAt, WithWord
<1> HIDE DEF l, c, p
<1>2. u.line = l /\ u.lines = w.lines /\ u.indent = w.indent
  BY <1>1 DEF Writers, Typed
<1> QED
  BY <1>2 DEF l

LEMMA WriteWordPuts ==
  ASSUME NEW Words, AreWords(Words), NEW w, WriterInv(Words, w), NEW item \in Words,
         NEW L, <<>> \in L, AllLines(L, w), NEW u, u = writeWord(w, item)
  PROVE  /\ WriterInv(Words, u) /\ u.indent = w.indent
         /\ \A i \in 1..Len(u.lines) : u.lines[i] \in L
         /\ \/ u.line = <<PieceAt(w.indent, item)>>
            \/ w.position > 0 /\ u.line = Append(w.line, PieceAt(Spaced(w), item))
<1>1. PICK s : s = IF newPosition(w, item) > Width THEN startLine(w) ELSE space(w)
  OBVIOUS
<1>2. PICK v : v = indented(s)
  OBVIOUS
<1>3. u = [ put(v, item) EXCEPT !.position = v.position + item.len,
                                !.lastWritePosition = v.position + item.len,
                                !.startOfParagraph = FALSE ]
  BY <1>1, <1>2 DEF writeWord
<1>4. WriterInv(Words, u)
  BY WriteWordKeeps
<1>5. w \in Writers(Words) /\ w.column = w.position
  BY DEF WriterInv
<1>6. /\ s \in Writers(Words) /\ s.column = s.position /\ s.indent = w.indent /\ AllLines(L, s)
      /\ \/ s.position = 0 /\ s.line = <<>>
         \/ w.position > 0 /\ s.position = Spaced(w) /\ s.line = w.line
  <2>1. CASE newPosition(w, item) > Width
    <3>1. s = startLine(w)
      BY <1>1, <2>1
    <3> QED
      BY <3>1, StartLineLines DEF WriterInv
  <2>2. CASE ~(newPosition(w, item) > Width)
    <3>1. s = space(w)
      BY <1>1, <2>2
    <3>2. CASE w.position > 0 /\ w.position = w.lastWritePosition
      <4>1. s = [ [w EXCEPT !.column = @ + 1] EXCEPT !.position = @ + 1 ]
        BY <3>1, <3>2 DEF space, blanks
      <4> DEFINE c == w.column + 1
                 p == w.position + 1
      <4>2. s = Moved(w, c, p) /\ c \in Columns /\ p \in Columns /\ c = p /\ p = Spaced(w)
        <5>1. s = Moved(w, c, p)
          BY <4>1 DEF Moved
        <5>2. w.column \in Nat /\ w.position \in Nat
          BY <1>5, Members
        <5>3. c \in Columns /\ p \in Columns /\ c = p
          BY <1>5, <5>2 DEF Columns
        <5>4. p = Spaced(w)
          BY <3>2 DEF Spaced
        <5> QED
          BY <5>1, <5>3, <5>4
      <4> HIDE DEF c, p
      <4>3. /\ s \in Writers(Words) /\ s.column = c /\ s.position = p /\ s.lines = w.lines
            /\ s.line = w.line /\ s.indent = w.indent
        BY <1>5, <4>2, MovedFields
      <4> QED
        BY <3>2, <4>2, <4>3 DEF AllLines
    <3>3. CASE ~(w.position > 0 /\ w.position = w.lastWritePosition)
      <4>1. s = w
        BY <3>1, <3>3 DEF space
      <4>2. CASE w.position = 0
        BY <1>5, <4>1, <4>2, NothingWritten
      <4>3. CASE w.position # 0
        <5>1. w.position > 0
          BY <1>5, <4>3, Members
        <5> QED
          BY <1>5, <3>3, <4>1, <5>1 DEF Spaced
      <4> QED
        BY <4>2, <4>3
    <3> QED
      BY <3>2, <3>3
  <2> QED
    BY <2>1, <2>2
<1>7. /\ v \in Writers(Words) /\ v.indent = w.indent /\ AllLines(L, v)
      /\ \/ v.column = w.indent /\ v.line = <<>>
         \/ w.position > 0 /\ v.column = Spaced(w) /\ v.line = w.line
  <2>1. CASE s.position = 0
    <3> DEFINE c == s.column + s.indent
               p == s.indent
    <3>1. v = Moved(s, c, p) /\ c \in Columns /\ p \in Columns /\ c = w.indent
      <4>1. v = Moved(s, c, p)
        BY <1>2, <2>1 DEF indented, blanks, Moved
      <4>2. s.column = 0 /\ s.indent \in Nat /\ s.indent = w.indent
        BY <1>6, <2>1, Members, WidthAssumption
      <4> QED
        BY <4>1, <4>2 DEF Columns
    <3> HIDE DEF c, p
    <3>2. /\ v \in Writers(Words) /\ v.column = c /\ v.lines = s.lines /\ v.line = s.line
          /\ v.indent = s.indent
      BY <1>6, <3>1, MovedFields
    <3>3. s.line = <<>>
      <4>1. ASSUME w.position > 0, s.position = Spaced(w) PROVE FALSE
        BY <1>5, <2>1, <4>1, Members DEF Spaced
      <4> QED
        BY <1>6, <4>1
    <3> QED
      BY <1>6, <3>1, <3>2, <3>3 DEF AllLines
  <2>2. CASE s.position # 0
    <3>1. v = s
      BY <1>2, <2>2 DEF indented
    <3> QED
      BY <1>6, <2>2, <3>1
  <2> QED
    BY <2>1, <2>2
<1>8. u.line = Append(v.line, PieceAt(v.column, item)) /\ u.lines = v.lines /\ u.indent = v.indent
  <2>1. v \in Writers(Words)
    BY <1>7
  <2>2. PICK t : t = WithWord(v, item)
    OBVIOUS
  <2>3. t.line = Append(v.line, PieceAt(v.column, item)) /\ t.lines = v.lines /\ t.indent = v.indent
    BY <2>1, <2>2, PlacedLines
  <2> QED
    BY <1>3, <2>2, <2>3 DEF WithWord
<1>9. Append(<<>>, PieceAt(w.indent, item)) = <<PieceAt(w.indent, item)>>
  OBVIOUS
<1> QED
  BY <1>4, <1>7, <1>8, <1>9 DEF AllLines

-----------------------------------------------------------------------------
(* ranked enumerates a finite set in the order of a strict order on it.    *)

StrictOrder(S, before) ==
  /\ \A x \in S : <<x, x>> \notin before
  /\ \A x, y, z \in S : <<x, y>> \in before /\ <<y, z>> \in before => <<x, z>> \in before
  /\ \A x, y \in S : x # y => <<x, y>> \in before \/ <<y, x>> \in before

Enumerates(order, S, before) ==
  /\ Cardinality(S) \in Nat /\ order \in [1..Cardinality(S) -> S]
  /\ \A i \in S : \E r \in 1..Cardinality(S) : order[r] = i
  /\ \A q, r \in 1..Cardinality(S) : q < r => <<order[q], order[r]>> \in before

LEMMA RankedEnumerates ==
  ASSUME NEW S, IsFiniteSet(S), NEW before, StrictOrder(S, before)
  PROVE  Enumerates(ranked(S, before), S, before)
<1> DEFINE n        == Cardinality(S)
           Below(i) == { j \in S : <<j, i>> \in before }
           place    == [i \in S |-> Cardinality(Below(i)) + 1]
<1>1. n \in Nat
  BY FS_CardinalityType
<1>2. ASSUME NEW i \in S
      PROVE  /\ IsFiniteSet(Below(i)) /\ Cardinality(Below(i)) \in Nat
             /\ Cardinality(Below(i)) + 1 \in 1..n
  <2>1. Below(i) \in SUBSET (S \ {i})
    BY DEF StrictOrder
  <2>2. IsFiniteSet(S \ {i}) /\ Cardinality(S \ {i}) = n - 1
    BY FS_RemoveElement
  <2> HIDE DEF Below, n
  <2>3. IsFiniteSet(Below(i)) /\ Cardinality(Below(i)) <= n - 1
    BY <2>1, <2>2, FS_Subset
  <2>4. Cardinality(Below(i)) \in Nat
    BY <2>3, FS_CardinalityType
  <2> QED
    BY <1>1, <2>3, <2>4
<1>3. ASSUME NEW x \in S, NEW y \in S, <<x, y>> \in before
      PROVE  place[x] < place[y]
  <2>1. Below(x) \in SUBSET Below(y) /\ Below(x) # Below(y)
    <3>1. x \in Below(y) /\ x \notin Below(x)
      BY <1>3 DEF StrictOrder
    <3>2. \A z \in Below(x) : z \in Below(y)
      BY <1>3 DEF StrictOrder
    <3> QED
      BY <3>1, <3>2
  <2>2. /\ IsFiniteSet(Below(y)) /\ Cardinality(Below(y)) \in Nat /\ Cardinality(Below(x)) \in Nat
    BY <1>2
  <2>3. place[x] = Cardinality(Below(x)) + 1 /\ place[y] = Cardinality(Below(y)) + 1
    OBVIOUS
  <2> HIDE DEF Below, place
  <2>4. Cardinality(Below(x)) <= Cardinality(Below(y)) /\ Cardinality(Below(x)) # Cardinality(Below(y))
    BY <2>1, <2>2, FS_Subset
  <2> QED
    BY <2>2, <2>3, <2>4
<1>4. place \in [S -> 1..n]
  BY <1>2
<1>5. \A i \in S : place[i] = Cardinality(Below(i)) + 1 /\ Cardinality(Below(i)) \in Nat /\ place[i] \in 1..n
  BY <1>2
<1>6. ASSUME NEW x \in S, NEW y \in S, x # y PROVE place[x] # place[y]
  <2>1. <<x, y>> \in before \/ <<y, x>> \in before
    BY <1>6 DEF StrictOrder
  <2>2. place[x] < place[y] \/ place[y] < place[x]
    BY <1>3, <2>1
  <2>3. place[x] \in 1..n /\ place[y] \in 1..n
    BY <1>5
  <2> HIDE DEF place, n
  <2> QED
    BY <1>1, <2>2, <2>3
<1> HIDE DEF place, n
<1>7. place \in Injection(S, 1..n)
  BY <1>4, <1>6 DEF Injection, IsInjective
<1>8. IsFiniteSet(1..n) /\ Cardinality(1..n) = n
  BY <1>1, FS_Interval
<1>9. place \in Surjection(S, 1..n)
  BY <1>7, <1>8, FS_Injection DEF n
<1>10. \A r \in 1..n : \E i \in S : place[i] = r
  BY <1>9 DEF Surjection
<1> DEFINE order == ranked(S, before)
<1>11. order = [r \in 1..n |-> CHOOSE i \in S : Cardinality(Below(i)) = r - 1]
  BY DEF ranked, n
<1> HIDE DEF order, Below
<1>12. ASSUME NEW r \in 1..n PROVE order[r] \in S /\ place[order[r]] = r
  <2>1. \E i \in S : Cardinality(Below(i)) = r - 1
    <3>1. PICK i \in S : place[i] = r
      BY <1>10
    <3>2. Cardinality(Below(i)) = r - 1
      BY <1>1, <1>5, <3>1
    <3> QED
      BY <3>2
  <2>2. order[r] = CHOOSE i \in S : Cardinality(Below(i)) = r - 1
    BY <1>11
  <2>3. order[r] \in S /\ Cardinality(Below(order[r])) = r - 1
    BY <2>1, <2>2
  <2> QED
    BY <1>1, <1>5, <2>3
<1>13. order \in [1..n -> S]
  BY <1>11, <1>12
<1>14. ASSUME NEW i \in S PROVE \E r \in 1..n : order[r] = i
  <2>1. place[i] \in 1..n
    BY <1>5
  <2>2. order[place[i]] \in S /\ place[order[place[i]]] = place[i]
    BY <1>12, <2>1
  <2>3. order[place[i]] = i
    BY <1>6, <2>2
  <2> QED
    BY <2>1, <2>3
<1>15. ASSUME NEW q \in 1..n, NEW r \in 1..n, q < r PROVE <<order[q], order[r]>> \in before
  <2>1. PICK x \in S, y \in S : x = order[q] /\ y = order[r] /\ place[x] = q /\ place[y] = r
    BY <1>12
  <2>2. x # y /\ ~(place[y] < place[x])
    BY <1>1, <1>15, <2>1
  <2>3. <<x, y>> \in before
    BY <1>3, <2>2 DEF StrictOrder
  <2> QED
    BY <2>1, <2>3
<1> QED
  BY <1>1, <1>13, <1>14, <1>15 DEF Enumerates, order, n

(* Places of a sequence, in the order of the sequence.                     *)
LEMMA AscendingPlaces ==
  ASSUME NEW n \in Nat, NEW S \in SUBSET (1..n)
  PROVE  /\ Cardinality(S) \in Nat /\ ascending(S) \in [1..Cardinality(S) -> S]
         /\ \A i \in S : \E r \in 1..Cardinality(S) : ascending(S)[r] = i
         /\ \A q, r \in 1..Cardinality(S) : q < r => ascending(S)[q] < ascending(S)[r]
<1> DEFINE before == { x \in S \X S : x[1] < x[2] }
<1>1. IsFiniteSet(S)
  <2>1. IsFiniteSet(1..n)
    BY FS_Interval
  <2> QED
    BY <2>1, FS_Subset
<1>2. \A x, y \in S : <<x, y>> \in before <=> x < y
  OBVIOUS
<1>3. S \subseteq Nat
  OBVIOUS
<1>4. ascending(S) = ranked(S, before)
  BY DEF ascending
<1> HIDE DEF before
<1>5. StrictOrder(S, before)
  BY <1>2, <1>3 DEF StrictOrder
<1>6. PICK order : order = ranked(S, before)
  OBVIOUS
<1>7. Enumerates(order, S, before)
  BY <1>1, <1>5, <1>6, RankedEnumerates
<1>8. ASSUME NEW q \in 1..Cardinality(S), NEW r \in 1..Cardinality(S), q < r PROVE order[q] < order[r]
  <2>1. order[q] \in S /\ order[r] \in S /\ <<order[q], order[r]>> \in before
    BY <1>7, <1>8 DEF Enumerates
  <2> QED
    BY <1>2, <2>1
<1> QED
  BY <1>4, <1>6, <1>7, <1>8 DEF Enumerates

LEMMA ElementsAtPlaces ==
  ASSUME NEW T, NEW args \in Seq(T), NEW places \in SUBSET (1..Len(args))
  PROVE  /\ elementsAt(args, places) \in Seq(T)
         /\ \A r \in 1..Len(elementsAt(args, places)) :
              \E i \in places : elementsAt(args, places)[r] = args[i]
<1>1. Len(args) \in Nat /\ \A i \in places : args[i] \in T
  BY LenProperties, ElementOfSeq
<1>2. PICK order : order = ascending(places)
  OBVIOUS
<1>3. PICK n \in Nat : n = Cardinality(places) /\ order \in [1..n -> places]
  BY <1>1, <1>2, AscendingPlaces
<1>4. Len(order) = n
  BY <1>3
<1>5. elementsAt(args, places) = [r \in 1..n |-> args[order[r]]]
  BY <1>2, <1>4 DEF elementsAt
<1> DEFINE s == [r \in 1..n |-> args[order[r]]]
<1>6. \A r \in 1..n : order[r] \in places
  BY <1>3
<1>7. s \in Seq(T) /\ Len(s) = n
  <2>1. \A r \in 1..n : args[order[r]] \in T
    BY <1>1, <1>6
  <2> QED
    BY <1>3, <2>1
<1>8. \A r \in 1..n : s[r] = args[order[r]]
  OBVIOUS
<1> HIDE DEF s
<1> QED
  BY <1>5, <1>6, <1>7, <1>8 DEF s

-----------------------------------------------------------------------------
(* The groups                                                              *)

(* The three keys of lowerGroup.                                           *)
CommandKey(p)  == IF isCommand(p) THEN 1 ELSE 0
RequiredKey(p) == IF groupRequired(p) THEN 0 ELSE 1

LEMMA LowerGroupKeys ==
  ASSUME NEW p \in Parameters, NEW q \in Parameters
  PROVE  /\ CommandKey(p) \in 0..1 /\ RequiredKey(p) \in 0..1 /\ groupName(p) \in Nat
         /\ lowerGroup(p, q) <=>
              \/ CommandKey(p) < CommandKey(q)
              \/ CommandKey(p) = CommandKey(q) /\ RequiredKey(p) < RequiredKey(q)
              \/ /\ CommandKey(p) = CommandKey(q) /\ RequiredKey(p) = RequiredKey(q)
                 /\ groupName(p) < groupName(q)
<1>1. groupName(p) \in Nat
  BY ParametersAssumption DEF groupName
<1>2. isCommand(p) \in BOOLEAN /\ isCommand(q) \in BOOLEAN
  BY DEF isCommand
<1>3. groupRequired(p) \in BOOLEAN /\ groupRequired(q) \in BOOLEAN
  BY DEF groupRequired
<1> QED
  BY <1>1, <1>2, <1>3 DEF CommandKey, RequiredKey, lowerGroup

LEMMA LowerGroupOrders ==
  ASSUME NEW p \in Parameters, NEW q \in Parameters, NEW r \in Parameters
  PROVE  /\ ~lowerGroup(p, p)
         /\ lowerGroup(p, q) /\ lowerGroup(q, r) => lowerGroup(p, r)
         /\ ~lowerGroup(p, q) /\ ~lowerGroup(q, r) => ~lowerGroup(p, r)
<1>1. PICK a, b, c \in 0..1 : a = CommandKey(p) /\ b = CommandKey(q) /\ c = CommandKey(r)
  BY LowerGroupKeys
<1>2. PICK d, e, f \in 0..1 : d = RequiredKey(p) /\ e = RequiredKey(q) /\ f = RequiredKey(r)
  BY LowerGroupKeys
<1>3. PICK k, l, m \in Nat : k = groupName(p) /\ l = groupName(q) /\ m = groupName(r)
  BY LowerGroupKeys
<1>4. lowerGroup(p, p) <=> a < a \/ (a = a /\ d < d) \/ (a = a /\ d = d /\ k < k)
  BY <1>1, <1>2, <1>3, LowerGroupKeys
<1>5. lowerGroup(p, q) <=> a < b \/ (a = b /\ d < e) \/ (a = b /\ d = e /\ k < l)
  BY <1>1, <1>2, <1>3, LowerGroupKeys
<1>6. lowerGroup(q, r) <=> b < c \/ (b = c /\ e < f) \/ (b = c /\ e = f /\ l < m)
  BY <1>1, <1>2, <1>3, LowerGroupKeys
<1>7. lowerGroup(p, r) <=> a < c \/ (a = c /\ d < f) \/ (a = c /\ d = f /\ k < m)
  BY <1>1, <1>2, <1>3, LowerGroupKeys
<1> QED
  BY <1>4, <1>5, <1>6, <1>7

(* The place i comes before j in the sorted parameters.                    *)
Before(args) ==
  { x \in (1..Len(args)) \X (1..Len(args)) :
      \/ lowerGroup(args[x[1]], args[x[2]])
      \/ x[1] < x[2] /\ ~lowerGroup(args[x[2]], args[x[1]]) }

LEMMA StableOrderEnumerates ==
  ASSUME NEW args \in Seq(Parameters)
  PROVE  Enumerates(stableOrder(args), 1..Len(args), Before(args))
<1> DEFINE S == 1..Len(args)
<1>1. Len(args) \in Nat /\ \A i \in S : args[i] \in Parameters
  BY LenProperties, ElementOfSeq
<1>2. IsFiniteSet(S)
  BY <1>1, FS_Interval
<1>3. \A i, j \in S : <<i, j>> \in Before(args) <=> \/ lowerGroup(args[i], args[j])
                                                    \/ i < j /\ ~lowerGroup(args[j], args[i])
  BY DEF Before
<1>4. S \subseteq Nat
  BY <1>1
<1> HIDE DEF S
<1>5. \A x \in S : <<x, x>> \notin Before(args)
  BY <1>1, <1>3, <1>4, LowerGroupOrders
<1>6. ASSUME NEW x \in S, NEW y \in S, NEW z \in S, <<x, y>> \in Before(args), <<y, z>> \in Before(args)
      PROVE  <<x, z>> \in Before(args)
  <2>1. PICK p, q, r \in Parameters : p = args[x] /\ q = args[y] /\ r = args[z]
    BY <1>1
  <2>2. /\ lowerGroup(p, q) \/ (x < y /\ ~lowerGroup(q, p))
        /\ lowerGroup(q, r) \/ (y < z /\ ~lowerGroup(r, q))
    BY <1>3, <1>6, <2>1
  <2>3. /\ lowerGroup(p, q) /\ lowerGroup(q, r) => lowerGroup(p, r)
        /\ ~lowerGroup(r, q) /\ ~lowerGroup(q, p) => ~lowerGroup(r, p)
        /\ ~lowerGroup(p, r) /\ ~lowerGroup(r, q) => ~lowerGroup(p, q)
        /\ ~lowerGroup(q, p) /\ ~lowerGroup(p, r) => ~lowerGroup(q, r)
    BY LowerGroupOrders
  <2>4. x < y /\ y < z => x < z
    BY <1>4
  <2>5. lowerGroup(p, r) \/ (x < z /\ ~lowerGroup(r, p))
    BY <2>2, <2>3, <2>4
  <2> QED
    BY <1>3, <2>1, <2>5
<1>7. ASSUME NEW x \in S, NEW y \in S, x # y PROVE <<x, y>> \in Before(args) \/ <<y, x>> \in Before(args)
  <2>1. x < y \/ y < x
    BY <1>4, <1>7
  <2> QED
    BY <1>3, <2>1
<1>8. StrictOrder(S, Before(args))
  BY <1>5, <1>6, <1>7 DEF StrictOrder
<1>9. Enumerates(ranked(S, Before(args)), S, Before(args))
  BY <1>2, <1>8, RankedEnumerates
<1> QED
  BY <1>9 DEF stableOrder, Before, S

(* The parameters in the order of the groups, and where the groups start.  *)
Sorted(args) == [r \in 1..Len(stableOrder(args)) |-> args[stableOrder(args)[r]]]
Starts(args) == ascending({ i \in 1..Len(args) :
                              i = 1 \/ lowerGroup(Sorted(args)[i - 1], Sorted(args)[i]) })
Stop(args, k) == IF k = Len(Starts(args)) THEN Len(args) ELSE Starts(args)[k + 1] - 1

LEMMA SortedTyped ==
  ASSUME NEW args \in Seq(Parameters)
  PROVE  /\ Sorted(args) \in Seq(Parameters) /\ Len(Sorted(args)) = Len(args)
         /\ Len(stableOrder(args)) = Len(args)
         /\ \A r \in 1..Len(args) : /\ stableOrder(args)[r] \in 1..Len(args)
                                    /\ Sorted(args)[r] = args[stableOrder(args)[r]]
         /\ \A i \in 1..Len(args) : \E r \in 1..Len(args) : stableOrder(args)[r] = i
<1> DEFINE n == Len(args)
<1>0. n \in Nat
  BY LenProperties
<1>1. n \in Nat /\ \A i \in 1..n : args[i] \in Parameters
  BY <1>0, ElementOfSeq
<1>3. PICK order : order = stableOrder(args)
  OBVIOUS
<1> HIDE DEF n
<1>2. Cardinality(1..n) = n
  <2>1. Cardinality(1..n) = IF 1 > n THEN 0 ELSE n - 1 + 1
    BY <1>0, FS_Interval
  <2> QED
    BY <1>0, <2>1
<1>4. order \in [1..n -> 1..n] /\ \A i \in 1..n : \E r \in 1..n : order[r] = i
  BY <1>2, <1>3, StableOrderEnumerates DEF Enumerates, n
<1>5. Len(order) = n /\ \A r \in 1..n : order[r] \in 1..n
  BY <1>1, <1>4
<1>6. Sorted(args) = [r \in 1..n |-> args[order[r]]]
  BY <1>3, <1>5 DEF Sorted
<1>7. \A r \in 1..n : args[order[r]] \in Parameters
  BY <1>1, <1>5
<1>8. Sorted(args) \in Seq(Parameters) /\ Len(Sorted(args)) = n
  BY <1>1, <1>6, <1>7
<1>9. \A r \in 1..n : Sorted(args)[r] = args[order[r]]
  BY <1>6
<1> QED
  BY <1>3, <1>4, <1>5, <1>8, <1>9 DEF n

LEMMA StartsTyped ==
  ASSUME NEW args \in Seq(Parameters)
  PROVE  /\ Len(Starts(args)) \in Nat
         /\ \A k \in 1..Len(Starts(args)) :
              /\ Starts(args)[k] \in 1..Len(args) /\ Stop(args, k) \in 1..Len(args)
              /\ Starts(args)[k] <= Stop(args, k)
<1> DEFINE n == Len(args)
           S == { i \in 1..n : i = 1 \/ lowerGroup(Sorted(args)[i - 1], Sorted(args)[i]) }
<1>1. n \in Nat /\ S \in SUBSET (1..n)
  BY LenProperties
<1>2. PICK starts : starts = Starts(args) /\ starts = ascending(S)
  BY DEF Starts
<1> HIDE DEF n, S
<1>a. Cardinality(S) \in Nat /\ ascending(S) \in [1..Cardinality(S) -> S]
  BY <1>1, AscendingPlaces DEF Enumerates
<1>3. PICK m \in Nat : m = Cardinality(S) /\ starts \in [1..m -> S]
  BY <1>2, <1>a
<1>b. \A k \in 1..m : starts[k] \in S
  BY <1>3
<1>c. Len(starts) = m
  BY <1>3
<1>4. Len(starts) = m /\ \A k \in 1..m : starts[k] \in 1..n
  BY <1>1, <1>b, <1>c
<1>5. \A q, r \in 1..m : q < r => starts[q] < starts[r]
  BY <1>1, <1>2, <1>3, AscendingPlaces
<1>6. ASSUME NEW k \in 1..m PROVE Stop(args, k) \in 1..n /\ starts[k] <= Stop(args, k)
  <2>1. CASE k = m
    BY <1>1, <1>2, <1>4, <2>1 DEF Stop, n
  <2>2. CASE k # m
    <3>1. k + 1 \in 1..m /\ k < k + 1
      BY <1>3, <2>2
    <3>2. starts[k] < starts[k + 1] /\ starts[k] \in 1..n /\ starts[k + 1] \in 1..n
      BY <1>4, <1>5, <3>1
    <3>3. Stop(args, k) = starts[k + 1] - 1
      BY <1>2, <1>4, <2>2 DEF Stop
    <3> QED
      BY <1>1, <3>2, <3>3
  <2> QED
    BY <2>1, <2>2
<1> QED
  BY <1>2, <1>3, <1>4, <1>6 DEF n

LEMMA GroupsAre ==
  ASSUME NEW args
  PROVE  reorderGroups(args) =
           [k \in 1..Len(Starts(args)) |-> SubSeq(Sorted(args), Starts(args)[k], Stop(args, k))]
  BY DEF reorderGroups, Sorted, Starts, Stop

NonEmpty == Seq(Parameters) \ {<<>>}

LEMMA GroupsTyped ==
  ASSUME NEW args \in Seq(Parameters)
  PROVE  \E m \in Nat : m = Len(reorderGroups(args)) /\ reorderGroups(args) \in [1..m -> NonEmpty]
<1> DEFINE m    == Len(Starts(args))
           g(k) == SubSeq(Sorted(args), Starts(args)[k], Stop(args, k))
<1>1. m \in Nat
  BY StartsTyped
<1>2. ASSUME NEW k \in 1..m PROVE g(k) \in NonEmpty
  <2>1. PICK a \in 1..Len(args), b \in 1..Len(args) : a = Starts(args)[k] /\ b = Stop(args, k) /\ a <= b
    BY StartsTyped
  <2>2. a \in Int /\ b \in Int /\ Len(args) \in Nat
    BY LenProperties
  <2>3. \A i \in a..b : Sorted(args)[i] \in Parameters
    <3>1. \A i \in a..b : i \in 1..Len(Sorted(args))
      BY <2>2, SortedTyped
    <3> QED
      BY <3>1, SortedTyped, ElementOfSeq
  <2>4. PICK t : t = SubSeq(Sorted(args), a, b)
    OBVIOUS
  <2>5. t \in Seq(Parameters) /\ Len(t) = b - a + 1
    BY <2>1, <2>2, <2>3, <2>4, SubSeqProperties
  <2>6. t # <<>>
    BY <2>1, <2>2, <2>5
  <2> QED
    BY <2>1, <2>4, <2>5, <2>6 DEF NonEmpty
<1>3. reorderGroups(args) = [k \in 1..m |-> g(k)]
  BY GroupsAre
<1> HIDE DEF g, m
<1>4. reorderGroups(args) \in [1..m -> NonEmpty] /\ Len(reorderGroups(args)) = m
  BY <1>1, <1>2, <1>3
<1> QED
  BY <1>1, <1>4

LEMMA PartsTyped ==
  ASSUME NEW group \in Seq(Parameters)
  PROVE  /\ reorderOptions(group).positional \in Seq(Parameters)
         /\ reorderOptions(group).required \in Seq(Parameters)
         /\ reorderOptions(group).optional \in Seq(Parameters)
<1> DEFINE places == 1..Len(group)
           P == { i \in places : is_positional(group[i]) }
           R == { i \in places : ~is_positional(group[i]) /\ group[i].required }
           O == { i \in places : ~is_positional(group[i]) /\ ~group[i].required }
<1>1. P \in SUBSET places /\ R \in SUBSET places /\ O \in SUBSET places
  OBVIOUS
<1>2. reorderOptions(group) = [ positional |-> elementsAt(group, P), required |-> elementsAt(group, R),
                                optional |-> elementsAt(group, O) ]
  BY DEF reorderOptions
<1> HIDE DEF P, R, O
<1>3. /\ reorderOptions(group).positional = elementsAt(group, P)
      /\ reorderOptions(group).required = elementsAt(group, R)
      /\ reorderOptions(group).optional = elementsAt(group, O)
  BY <1>2
<1> QED
  BY <1>1, <1>3, ElementsAtPlaces

-----------------------------------------------------------------------------
(* The calls of format.  Before the words of a description come a skip to  *)
(* the column of the descriptions and an indent to it.                     *)
AllWords == WordsOf(Roles \cup {"help"})

Calls == [do : {"word"}, word : AllWords] \cup [do : {"line", "paragraph"}]
           \cup [do : {"skip", "indent"}, to : Nat]

SkipCall(n)   == [do |-> "skip", to |-> n]
IndentCall(n) == [do |-> "indent", to |-> n]

IsHelpCall(call) == call.do = "word" /\ call.word.role = "help"
IsTextCall(call) == call.do = "paragraph" \/ IsHelpCall(call)

TextFrom(s, j, i) == \A k \in j..(i - 1) : IsTextCall(s[k])

HasHeader(s, i, column) ==
  \E j \in 1..(i - 2) : /\ s[j] = SkipCall(column) /\ s[j + 1] = IndentCall(column)
                        /\ TextFrom(s, j + 2, i)

Sound(column) ==
  { s \in Seq(Calls) : \A i \in 1..Len(s) : IsHelpCall(s[i]) => HasHeader(s, i, column) }

LEMMA SoundConcat ==
  ASSUME NEW column, NEW s \in Sound(column), NEW t \in Sound(column)
  PROVE  s \o t \in Sound(column)
<1> DEFINE C == Calls
<1>1. s \in Seq(C) /\ t \in Seq(C)
  BY DEF Sound
<1> HIDE DEF C
<1>2. PICK u : u = s \o t
  OBVIOUS
<1>3. PICK n \in Nat, m \in Nat : n = Len(s) /\ m = Len(t)
  BY <1>1, LenProperties
<1>4. /\ u \in Seq(C) /\ Len(u) = n + m /\ \A x \in 1..n : u[x] = s[x]
      /\ \A x \in 1..m : u[n + x] = t[x]
  BY <1>1, <1>2, <1>3, ConcatPlaces DEF Begins
<1>5. ASSUME NEW i \in 1..Len(u), IsHelpCall(u[i]) PROVE HasHeader(u, i, column)
  <2>1. CASE i \in 1..n
    <3>1. HasHeader(s, i, column)
      BY <1>3, <1>4, <1>5, <2>1 DEF Sound
    <3>2. PICK j \in 1..(i - 2) : /\ s[j] = SkipCall(column) /\ s[j + 1] = IndentCall(column)
                                  /\ TextFrom(s, j + 2, i)
      BY <3>1 DEF HasHeader
    <3>3. j \in 1..n /\ j + 1 \in 1..n /\ \A k \in (j + 2)..(i - 1) : k \in 1..n
      BY <2>1
    <3>4. TextFrom(u, j + 2, i)
      BY <1>4, <3>2, <3>3 DEF TextFrom
    <3> QED
      BY <1>4, <3>2, <3>3, <3>4 DEF HasHeader
  <2>2. CASE i \notin 1..n
    <3>1. PICK x \in 1..m : i = n + x
      <4>1. i - n \in 1..m /\ i = n + (i - n)
        BY <1>4, <2>2
      <4> QED
        BY <4>1
    <3>2. HasHeader(t, x, column)
      BY <1>3, <1>4, <1>5, <3>1 DEF Sound
    <3>3. PICK j \in 1..(x - 2) : /\ t[j] = SkipCall(column) /\ t[j + 1] = IndentCall(column)
                                  /\ TextFrom(t, j + 2, x)
      BY <3>2 DEF HasHeader
    <3>4. /\ j \in 1..m /\ j + 1 \in 1..m /\ n + j \in 1..(i - 2) /\ n + (j + 1) = (n + j) + 1
          /\ \A k \in ((n + j) + 2)..(i - 1) : k - n \in 1..m /\ k - n \in (j + 2)..(x - 1) /\ k = n + (k - n)
      BY <3>1
    <3>5. u[n + j] = t[j] /\ u[(n + j) + 1] = t[j + 1]
      BY <1>4, <3>4
    <3>6. TextFrom(u, (n + j) + 2, i)
      <4> SUFFICES ASSUME NEW k \in ((n + j) + 2)..(i - 1) PROVE IsTextCall(u[k])
        BY DEF TextFrom
      <4>1. u[k] = t[k - n]
        BY <1>4, <3>4
      <4> QED
        BY <3>3, <3>4, <4>1 DEF TextFrom
    <3> QED
      BY <3>3, <3>4, <3>5, <3>6 DEF HasHeader
  <2> QED
    BY <2>1, <2>2
<1> QED
  BY <1>2, <1>4, <1>5 DEF Sound, C

LEMMA PlainSound ==
  ASSUME NEW column, NEW s \in Seq(Calls), \A i \in 1..Len(s) : ~IsHelpCall(s[i])
  PROVE  s \in Sound(column)
  BY DEF Sound

LEMMA HeaderSound ==
  ASSUME NEW column, NEW s \in Seq(Calls), s[1] = SkipCall(column), s[2] = IndentCall(column),
         Len(s) >= 2, \A i \in 3..Len(s) : IsTextCall(s[i])
  PROVE  s \in Sound(column)
<1>0. Len(s) \in Nat
  BY LenProperties
<1>1. ~IsHelpCall(s[1]) /\ ~IsHelpCall(s[2])
  BY DEF IsHelpCall, SkipCall, IndentCall
<1>2. ASSUME NEW i \in 1..Len(s), IsHelpCall(s[i]) PROVE HasHeader(s, i, column)
  <2>1. i # 1 /\ i # 2
    BY <1>1, <1>2
  <2>2. 1 \in 1..(i - 2) /\ 1 + 1 = 2 /\ 1 + 2 = 3 /\ \A k \in 3..(i - 1) : k \in 3..Len(s)
    BY <1>0, <2>1
  <2>3. TextFrom(s, 3, i)
    BY <2>2 DEF TextFrom
  <2> QED
    BY <2>2, <2>3 DEF HasHeader
<1> QED
  BY <1>2 DEF Sound

-----------------------------------------------------------------------------
(* Where Writer is when a description is written.                          *)
Margin(column) == IF column > Width THEN Width ELSE column

AtColumn(w, column) == w.position = 0 \/ (w.position = column /\ column < Width)

EndsInHelp(l) == l # <<>> /\ l[Len(l)].word.role = "help"

Ready(w, column) == w.indent = Margin(column) /\ (AtColumn(w, column) \/ EndsInHelp(w.line))

Begun(s, i, column) == i > 1 /\ s[1] = IndentCall(column) /\ TextFrom(s, 2, i)

Follows(s, w, column) ==
  \A i \in 1..Len(s) : IsHelpCall(s[i]) =>
    \/ HasHeader(s, i, column)
    \/ Begun(s, i, column) /\ AtColumn(w, column)
    \/ TextFrom(s, 1, i) /\ Ready(w, column)

LEMMA FollowsStep ==
  ASSUME NEW column, NEW s \in Seq(Calls), s # <<>>, NEW w, NEW u, Follows(s, w, column),
         s[1] = SkipCall(column) => AtColumn(u, column),
         s[1] = IndentCall(column) /\ AtColumn(w, column) => Ready(u, column),
         IsTextCall(s[1]) /\ Ready(w, column) => Ready(u, column)
  PROVE  Tail(s) \in Seq(Calls) /\ Follows(Tail(s), u, column)
<1>1. PICK t : t = Tail(s)
  OBVIOUS
<1>2. /\ t \in Seq(Calls) /\ Len(s) \in Nat /\ Len(t) = Len(s) - 1
      /\ \A i \in 1..Len(t) : t[i] = s[i + 1]
  BY <1>1, HeadTailProperties, LenProperties
<1>3. ASSUME NEW i \in 1..Len(t), NEW j \in 1..i PROVE TextFrom(s, j + 1, i + 1) => TextFrom(t, j, i)
  <2> SUFFICES ASSUME TextFrom(s, j + 1, i + 1), NEW k \in j..(i - 1) PROVE IsTextCall(t[k])
    BY DEF TextFrom
  <2>1. k + 1 \in (j + 1)..((i + 1) - 1) /\ k \in 1..Len(t)
    BY <1>2
  <2> QED
    BY <1>2, <2>1 DEF TextFrom
<1>4. ASSUME NEW i \in 1..Len(t), IsHelpCall(t[i])
      PROVE  \/ HasHeader(t, i, column)
             \/ Begun(t, i, column) /\ AtColumn(u, column)
             \/ TextFrom(t, 1, i) /\ Ready(u, column)
  <2>0. i + 1 \in 1..Len(s) /\ t[i] = s[i + 1] /\ 1 \in 1..i
    BY <1>2
  <2>1. CASE HasHeader(s, i + 1, column)
    <3>1. PICK j \in 1..((i + 1) - 2) : /\ s[j] = SkipCall(column) /\ s[j + 1] = IndentCall(column)
                                        /\ TextFrom(s, j + 2, i + 1)
      BY <2>1 DEF HasHeader
    <3>2. CASE j = 1
      <4>1. 1 + 1 = 2 /\ 1 + 2 = 2 + 1 /\ 1 \in 1..Len(t) /\ 2 \in 1..i /\ i > 1
        BY <1>2, <3>2
      <4>2. t[1] = IndentCall(column) /\ TextFrom(t, 2, i)
        BY <1>2, <1>3, <3>1, <3>2, <4>1
      <4> QED
        BY <3>1, <3>2, <4>1, <4>2 DEF Begun
    <3>3. CASE j # 1
      <4>1. PICK x \in 1..(i - 2) : j = x + 1 /\ j + 1 = (x + 1) + 1 /\ j + 2 = (x + 2) + 1
        <5>1. j - 1 \in 1..(i - 2) /\ j = (j - 1) + 1
          BY <3>3
        <5> QED
          BY <5>1
      <4>2. x \in 1..Len(t) /\ x + 1 \in 1..Len(t) /\ x + 2 \in 1..i
        BY <1>2
      <4>3. t[x] = SkipCall(column) /\ t[x + 1] = IndentCall(column) /\ TextFrom(t, x + 2, i)
        BY <1>2, <1>3, <3>1, <4>1, <4>2
      <4> QED
        BY <4>3 DEF HasHeader
    <3> QED
      BY <3>2, <3>3
  <2>2. CASE Begun(s, i + 1, column) /\ AtColumn(w, column)
    <3>1. s[1] = IndentCall(column) /\ TextFrom(s, 1 + 1, i + 1)
      BY <2>2 DEF Begun
    <3> QED
      BY <1>3, <2>0, <2>2, <3>1
  <2>3. CASE TextFrom(s, 1, i + 1) /\ Ready(w, column)
    <3>1. IsTextCall(s[1]) /\ TextFrom(s, 1 + 1, i + 1)
      BY <2>0, <2>3 DEF TextFrom
    <3> QED
      BY <1>3, <2>0, <2>3, <3>1
  <2> QED
    BY <1>4, <2>0, <2>1, <2>2, <2>3 DEF Follows
<1> QED
  BY <1>1, <1>2, <1>4 DEF Follows

-----------------------------------------------------------------------------
(* Lines in which every description is aligned.                            *)
AlignedLine(l, column) ==
  \A k \in 1..Len(l) : l[k].word.role = "help" =>
    IF k = 1 THEN l[k].at = Margin(column)
    ELSE \/ l[k - 1].word.role = "help"
         \/ l[k].at = column
         \/ l[k].at = column + 1 /\ End(l[k - 1]) = column

AlignedLines(column) == { l \in Seq(Pieces(AllWords)) : AlignedLine(l, column) }

LEMMA AllWordsAreWords == AreWords(AllWords)
  BY DEF AreWords, AllWords, WordsOf

LEMMA OnePiece ==
  ASSUME NEW column, NEW piece \in Pieces(AllWords),
         piece.word.role = "help" => piece.at = Margin(column)
  PROVE  <<piece>> \in AlignedLines(column)
<1> DEFINE P == Pieces(AllWords)
<1>1. <<piece>> \in Seq(P) /\ Len(<<piece>>) = 1 /\ <<piece>>[1] = piece
  OBVIOUS
<1> QED
  BY <1>1 DEF AlignedLines, AlignedLine

LEMMA OneMorePiece ==
  ASSUME NEW column, NEW l \in AlignedLines(column), NEW piece \in Pieces(AllWords),
         piece.word.role = "help" =>
           IF l = <<>> THEN piece.at = Margin(column)
           ELSE \/ EndsInHelp(l)
                \/ piece.at = column
                \/ piece.at = column + 1 /\ End(l[Len(l)]) = column
  PROVE  Append(l, piece) \in AlignedLines(column)
<1> DEFINE P == Pieces(AllWords)
<1>1. l \in Seq(P) /\ AlignedLine(l, column)
  BY DEF AlignedLines
<1>2. PICK m : m = Append(l, piece)
  OBVIOUS
<1> HIDE DEF P
<1>3. piece \in P
  BY DEF P
<1>4. /\ m \in Seq(P) /\ Len(l) \in Nat /\ Len(m) = Len(l) + 1 /\ m[Len(l) + 1] = piece
      /\ \A k \in 1..Len(l) : m[k] = l[k]
  BY <1>1, <1>2, <1>3
<1>5. l = <<>> <=> Len(l) = 0
  BY <1>1
<1>6. ASSUME NEW k \in 1..Len(m), m[k].word.role = "help"
      PROVE  IF k = 1 THEN m[k].at = Margin(column)
             ELSE \/ m[k - 1].word.role = "help"
                  \/ m[k].at = column
                  \/ m[k].at = column + 1 /\ End(m[k - 1]) = column
  <2>1. CASE k \in 1..Len(l)
    <3>1. m[k] = l[k] /\ (k # 1 => m[k - 1] = l[k - 1])
      BY <1>4, <2>1
    <3> QED
      BY <1>1, <1>6, <2>1, <3>1 DEF AlignedLine
  <2>2. CASE k = Len(l) + 1
    <3>1. m[k] = piece /\ (k = 1 <=> l = <<>>) /\ k - 1 = Len(l) /\ (k # 1 => m[k - 1] = l[Len(l)])
      BY <1>4, <1>5, <2>2
    <3> QED
      BY <1>6, <3>1 DEF EndsInHelp
  <2> QED
    BY <1>4, <2>1, <2>2
<1> QED
  BY <1>2, <1>4, <1>6 DEF AlignedLines, AlignedLine, P

(* Writer keeps the lines aligned if every word of a description finds it  *)
(* ready, and is ready for the next one.                                   *)
LEMMA WordAligned ==
  ASSUME NEW column \in Nat, NEW w, WriterInv(AllWords, w), AllLines(AlignedLines(column), w),
         NEW item \in AllWords, item.role = "help" => Ready(w, column),
         NEW u, u = writeWord(w, item)
  PROVE  /\ WriterInv(AllWords, u) /\ AllLines(AlignedLines(column), u)
         /\ item.role = "help" => Ready(u, column)
<1> DEFINE L == AlignedLines(column)
<1>1. <<>> \in L
  <2>1. <<>> \in Seq(Pieces(AllWords)) /\ \A k \in 1..Len(<<>>) : FALSE
    OBVIOUS
  <2> QED
    BY <2>1 DEF AlignedLines, AlignedLine
<1>2. /\ w \in Writers(AllWords) /\ w.indent \in Nat /\ w.position \in Nat
      /\ w.line \in L /\ w.line \in Seq(Pieces(AllWords))
      /\ w.lastWritePosition = LastEnd(w.line)
  BY Members, WidthAssumption DEF WriterInv, AllLines
<1> HIDE DEF L
<1>3. /\ WriterInv(AllWords, u) /\ u.indent = w.indent
      /\ \A i \in 1..Len(u.lines) : u.lines[i] \in L
      /\ \/ u.line = <<PieceAt(w.indent, item)>>
         \/ w.position > 0 /\ u.line = Append(w.line, PieceAt(Spaced(w), item))
  <2>1. AllLines(L, w)
    BY DEF L
  <2> QED
    BY <1>1, <2>1, AllWordsAreWords, WriteWordPuts
<1>4. \A n \in Nat : /\ PieceAt(n, item) \in Pieces(AllWords)
                     /\ PieceAt(n, item).at = n /\ PieceAt(n, item).word = item
  BY DEF PieceAt, Pieces
<1>5. CASE u.line = <<PieceAt(w.indent, item)>>
  <2>1. PICK piece \in Pieces(AllWords) : /\ piece = PieceAt(w.indent, item)
                                          /\ piece.at = w.indent /\ piece.word = item
    BY <1>2, <1>4
  <2>2. piece.word.role = "help" => piece.at = Margin(column)
    BY <2>1 DEF Ready
  <2>3. u.line \in L
    BY <1>5, <2>1, <2>2, OnePiece DEF L
  <2>4. item.role = "help" => EndsInHelp(u.line)
    BY <1>5, <2>1 DEF EndsInHelp
  <2> QED
    BY <1>3, <2>3, <2>4 DEF AllLines, Ready, L
<1>6. CASE w.position > 0 /\ u.line = Append(w.line, PieceAt(Spaced(w), item))
  <2>0. Spaced(w) \in Nat
    BY <1>2 DEF Spaced
  <2>1. PICK piece \in Pieces(AllWords) : /\ piece = PieceAt(Spaced(w), item)
                                          /\ piece.at = Spaced(w) /\ piece.word = item
    BY <1>4, <2>0
  <2>2. ASSUME item.role = "help"
        PROVE  IF w.line = <<>> THEN piece.at = Margin(column)
               ELSE \/ EndsInHelp(w.line)
                    \/ piece.at = column
                    \/ piece.at = column + 1 /\ End(w.line[Len(w.line)]) = column
    <3>1. CASE EndsInHelp(w.line)
      BY <3>1 DEF EndsInHelp
    <3>2. CASE w.position = column /\ column < Width
      <4>1. column = Margin(column)
        BY <3>2, WidthAssumption DEF Margin
      <4>2. CASE w.line = <<>>
        <5>1. w.position # w.lastWritePosition
          BY <1>2, <1>6, <4>2 DEF LastEnd
        <5> QED
          BY <2>1, <3>2, <4>1, <4>2, <5>1 DEF Spaced
      <4>3. CASE w.line # <<>>
        <5>1. w.lastWritePosition = End(w.line[Len(w.line)])
          BY <1>2, <4>3 DEF LastEnd
        <5> QED
          BY <2>1, <3>2, <4>3, <5>1 DEF Spaced
      <4> QED
        BY <4>2, <4>3
    <3> QED
      BY <1>2, <1>6, <2>2, <3>1, <3>2 DEF Ready, AtColumn
  <2>3. u.line \in L
    BY <1>2, <1>6, <2>1, <2>2, OneMorePiece DEF L
  <2>4. item.role = "help" => EndsInHelp(u.line)
    <3> DEFINE P == Pieces(AllWords)
    <3>1. w.line \in Seq(P) /\ piece \in P
      BY <1>2
    <3> HIDE DEF P
    <3>2. /\ Append(w.line, piece) # <<>>
          /\ Append(w.line, piece)[Len(Append(w.line, piece))] = piece
      BY <3>1
    <3> QED
      BY <1>6, <2>1, <3>2 DEF EndsInHelp
  <2> QED
    BY <1>3, <2>3, <2>4 DEF AllLines, Ready, L
<1> QED
  BY <1>3, <1>5, <1>6

(* A step of the script.                                                   *)
ScriptInv(s, w, column) ==
  /\ s \in Seq(Calls) /\ WriterInv(AllWords, w)
  /\ AllLines(AlignedLines(column), w) /\ Follows(s, w, column)

Called(w, call) ==
  CASE call.do = "word"      -> writeWord(w, call.word)
    [] call.do = "line"      -> startLine(w)
    [] call.do = "paragraph" -> startParagraph(w)
    [] call.do = "skip"      -> skipToColumnOrNewLine(w, call.to)
    [] call.do = "indent"    -> setIndent(w, call.to)

LEMMA CallKeeps ==
  ASSUME NEW column \in Nat, NEW s, s # <<>>, NEW w, ScriptInv(s, w, column),
         NEW u, u = Called(w, s[1])
  PROVE  ScriptInv(Tail(s), u, column)
<1> DEFINE L == AlignedLines(column)
<1>1. <<>> \in L
  <2>1. <<>> \in Seq(Pieces(AllWords)) /\ \A k \in 1..Len(<<>>) : FALSE
    OBVIOUS
  <2> QED
    BY <2>1 DEF AlignedLines, AlignedLine
<1> HIDE DEF L
<1>2. s \in Seq(Calls) /\ WriterInv(AllWords, w) /\ AllLines(L, w) /\ Follows(s, w, column)
  BY DEF ScriptInv, L
<1>3. PICK call \in Calls : call = s[1]
  <2> DEFINE C == Calls
  <2>1. s \in Seq(C)
    BY <1>2
  <2> HIDE DEF C
  <2>2. s[1] \in C
    BY <2>1
  <2> QED
    BY <2>2 DEF C
<1>4. IsHelpCall(call) => Ready(w, column)
  <2>1. 1 \in 1..Len(s)
    <3>1. Len(s) \in Nat \ {0}
      BY <1>2, EmptySeq
    <3> QED
      BY <3>1
  <2>2. ~HasHeader(s, 1, column) /\ ~Begun(s, 1, column)
    BY DEF HasHeader, Begun
  <2> QED
    BY <1>2, <1>3, <2>1, <2>2 DEF Follows
<1>5. WriterInv(AllWords, u) /\ AllLines(L, u)
      /\ (call = SkipCall(column) => AtColumn(u, column))
      /\ (call = IndentCall(column) /\ AtColumn(w, column) => Ready(u, column))
      /\ (IsTextCall(call) /\ Ready(w, column) => Ready(u, column))
  <2>1. CASE call.do = "word"
    <3>1. call.word \in AllWords /\ u = writeWord(w, call.word)
      BY <1>3, <2>1 DEF Calls, Called
    <3>2. call.word.role = "help" => Ready(w, column)
      BY <1>4, <2>1 DEF IsHelpCall
    <3>3. /\ WriterInv(AllWords, u) /\ AllLines(L, u)
          /\ call.word.role = "help" => Ready(u, column)
      BY <1>2, <3>1, <3>2, WordAligned DEF L
    <3> QED
      BY <2>1, <3>3 DEF SkipCall, IndentCall, IsTextCall, IsHelpCall
  <2>2. CASE call.do = "line"
    <3>1. u = startLine(w)
      BY <1>3, <2>2 DEF Called
    <3>2. WriterInv(AllWords, u) /\ AllLines(L, u)
      BY <1>1, <1>2, <3>1, AllWordsAreWords, StartLineLines
    <3> QED
      BY <2>2, <3>2 DEF SkipCall, IndentCall, IsTextCall, IsHelpCall
  <2>3. CASE call.do = "paragraph"
    <3>1. u = startParagraph(w)
      BY <1>3, <2>3 DEF Called
    <3>2. WriterInv(AllWords, u) /\ AllLines(L, u) /\ (u = w \/ (u.position = 0 /\ u.indent = w.indent))
      BY <1>1, <1>2, <3>1, AllWordsAreWords, StartParagraphLines
    <3>3. Ready(w, column) => Ready(u, column)
      BY <3>2 DEF Ready, AtColumn
    <3> QED
      BY <2>3, <3>2, <3>3 DEF SkipCall, IndentCall
  <2>4. CASE call.do = "skip"
    <3>1. call.to \in Nat /\ u = skipToColumnOrNewLine(w, call.to)
      BY <1>3, <2>4 DEF Called, Calls
    <3>2. /\ WriterInv(AllWords, u) /\ AllLines(L, u)
          /\ u.position = 0 \/ (u.position = call.to /\ call.to < Width)
      BY <1>1, <1>2, <3>1, AllWordsAreWords, SkipLines
    <3>3. call = SkipCall(column) => AtColumn(u, column)
      BY <3>2 DEF SkipCall, AtColumn
    <3> QED
      BY <2>4, <3>2, <3>3 DEF IndentCall, IsTextCall, IsHelpCall
  <2>5. CASE call.do = "indent"
    <3>1. call.to \in Nat /\ u = setIndent(w, call.to)
      BY <1>3, <2>5 DEF Called, Calls
    <3>2. /\ WriterInv(AllWords, u) /\ AllLines(L, u) /\ u.position = w.position
          /\ u.indent = IF call.to > Width THEN Width ELSE call.to
      BY <1>2, <3>1, SetIndentLines
    <3>3. call = IndentCall(column) /\ AtColumn(w, column) => Ready(u, column)
      BY <3>2 DEF IndentCall, AtColumn, Ready, Margin
    <3> QED
      BY <2>5, <3>2, <3>3 DEF SkipCall, IsTextCall, IsHelpCall
  <2> QED
    BY <1>3, <2>1, <2>2, <2>3, <2>4, <2>5 DEF Calls
<1>6. Tail(s) \in Seq(Calls) /\ Follows(Tail(s), u, column)
  BY <1>2, <1>3, <1>5, FollowsStep
<1> QED
  BY <1>5, <1>6 DEF ScriptInv, L

-----------------------------------------------------------------------------
(* The words that format writes besides the descriptions.                  *)
PlainWords == WordsOf(Roles)

LEMMA WordTyped ==
  ASSUME NEW n \in Names, NEW role \in Roles
  PROVE  word(n, role) \in PlainWords
  BY SizesAssumption DEF word, PlainWords, WordsOf

LEMMA OwnWordTyped ==
  ASSUME NEW n \in OwnNames, NEW role \in Roles
  PROVE  word(n, role) \in PlainWords
  BY SizesAssumption, WordTyped

LEMMA WordChanged ==
  ASSUME NEW w \in PlainWords, NEW n \in Nat, NEW role \in Roles
  PROVE  /\ opened(w) \in PlainWords /\ closed(w, n) \in PlainWords
         /\ [w EXCEPT !.role = role] \in PlainWords /\ [w EXCEPT !.times = n] \in PlainWords
         /\ [w EXCEPT !.len = @ + 1] \in PlainWords
<1>1. w \in [ text : Names, open : Nat, close : Nat, times : Nat, len : Nat \ {0}, role : Roles ]
  BY DEF PlainWords, WordsOf
<1>2. PICK o \in Nat, c \in Nat, l \in Nat \ {0}, m \in Nat \ {0} :
        o = w.open + 1 /\ c = w.close + n /\ l = w.len + 1 /\ m = w.len + n
  BY <1>1
<1>3. opened(w) = [w EXCEPT !.open = o, !.len = l] /\ closed(w, n) = [w EXCEPT !.close = c, !.len = m]
      /\ [w EXCEPT !.len = @ + 1] = [w EXCEPT !.len = l]
  BY <1>2 DEF opened, closed
<1>4. [w EXCEPT !.open = o, !.len = l] \in PlainWords
  BY <1>1 DEF PlainWords, WordsOf
<1>5. [w EXCEPT !.close = c, !.len = m] \in PlainWords
  BY <1>1 DEF PlainWords, WordsOf
<1>6. [w EXCEPT !.role = role] \in PlainWords
  BY <1>1 DEF PlainWords, WordsOf
<1>7. [w EXCEPT !.times = n] \in PlainWords
  BY <1>1 DEF PlainWords, WordsOf
<1>8. [w EXCEPT !.len = l] \in PlainWords
  BY <1>1 DEF PlainWords, WordsOf
<1> QED
  BY <1>3, <1>4, <1>5, <1>6, <1>7, <1>8

LEMMA ClosedTyped ==
  ASSUME NEW ws \in Seq(PlainWords), ws # <<>>, NEW n \in Nat
  PROVE  closedAtEnd(ws, n) \in Seq(PlainWords)
<1> DEFINE W == PlainWords
<1>1. Len(ws) \in 1..Len(ws)
  BY EmptySeq
<1>2. ws[Len(ws)] \in PlainWords
  BY <1>1, ElementOfSeq
<1>3. closed(ws[Len(ws)], n) \in PlainWords
  BY <1>2, WordChanged, Zenon DEF Roles
<1>4. PICK e \in PlainWords : e = closed(ws[Len(ws)], n)
  BY <1>3
<1>5. closedAtEnd(ws, n) = [ws EXCEPT ![Len(ws)] = e]
  BY <1>4 DEF closedAtEnd
<1> QED
  BY <1>1, <1>4, <1>5, ExceptSeq

LEMMA BracketedTyped ==
  ASSUME NEW ws \in Seq(PlainWords), ws # <<>>
  PROVE  bracketed(ws) \in Seq(PlainWords)
<1>1. 1 \in 1..Len(ws)
  BY EmptySeq
<1>2. ws[1] \in PlainWords
  BY <1>1, ElementOfSeq
<1>3. PICK e \in PlainWords : e = opened(ws[1])
  BY <1>2, WordChanged DEF Roles
<1>4. PICK os : os = [ws EXCEPT ![1] = opened(@)]
  OBVIOUS
<1>5. os = [ws EXCEPT ![1] = e]
  BY <1>3, <1>4
<1>6. os \in Seq(PlainWords) /\ Len(os) = Len(ws)
  BY <1>1, <1>5, ExceptSeq
<1>7. os # <<>>
  BY <1>1, <1>6
<1> QED
  BY <1>4, <1>6, <1>7, ClosedTyped DEF bracketed

LEMMA RoleOfTyped ==
  ASSUME NEW ws \in Seq(PlainWords), NEW role \in Roles
  PROVE  RoleOf(ws, role) \in Seq(PlainWords)
<1> DEFINE f(i) == [ws[i] EXCEPT !.role = role]
<1>1. ASSUME NEW i \in 1..Len(ws) PROVE f(i) \in PlainWords
  <2>1. ws[i] \in PlainWords
    BY ElementOfSeq
  <2> QED
    BY <2>1, WordChanged
<1>2. Len(ws) \in Nat
  BY LenProperties
<1>3. RoleOf(ws, role) = [i \in 1..Len(ws) |-> f(i)]
  BY DEF RoleOf
<1> HIDE DEF f
<1> QED
  BY <1>1, <1>2, <1>3

-----------------------------------------------------------------------------
(* The syntax of the arguments of a parameter.                             *)
TakesArguments(p) == ~isCommand(p) /\ acceptsAnyArguments(p)

LEMMA Metavars ==
  ASSUME NEW p \in Parameters, TakesArguments(p)
  PROVE  getMetavar(p) \in Seq(Names) /\ Len(getMetavar(p)) \in Nat \ {0}
<1>1. getMetavar(p) \in Seq(Names) /\ p.metavar \in Seq(Names)
  BY ParametersAssumption DEF TakesArguments
<1>2. getMetavar(p) # <<>>
  BY DEF getMetavar
<1> QED
  BY <1>1, <1>2, EmptySeq

(* The parts of the syntax: the mandatory values, the optional ones and    *)
(* what shows that there may be more.                                      *)
Variable(p, i) ==
  word(getMetavar(p)[IF i > Len(getMetavar(p)) THEN Len(getMetavar(p)) ELSE i], "argument")

Unlimited(p) == p.maxArgs < p.minArgs
Limit(p)     == IF Unlimited(p) THEN Len(getMetavar(p)) - 1 ELSE optionalLimit(p)
LastNamed(p) == IF Limit(p) > p.minArgs THEN Limit(p) ELSE p.minArgs
Remaining(p) == p.maxArgs - Limit(p)

Mandatory(p) == [i \in 1..p.minArgs |-> Variable(p, i)]
Optional(p)  == [i \in 1..(LastNamed(p) + 1 - p.minArgs) |-> opened(Variable(p, p.minArgs + i))]
Ending(p)    == IF Unlimited(p) THEN <<ellipsis>>
                ELSE IF Remaining(p) = 1 THEN <<>> ELSE <<repetition(Remaining(p))>>

LEMMA SyntaxIs ==
  ASSUME NEW p
  PROVE  describeArguments(p) =
           IF p.maxArgs = p.minArgs
             THEN Mandatory(p)
             ELSE closedAtEnd(Mandatory(p) \o Optional(p) \o Ending(p), Len(Optional(p)))
  BY DEF describeArguments, Mandatory, Optional, Ending, Remaining, LastNamed, Limit, Unlimited, Variable

(* The counts of a parameter whose number of values varies.                *)
LEMMA Counts ==
  ASSUME NEW p \in Parameters, TakesArguments(p), p.maxArgs # p.minArgs
  PROVE  /\ p.minArgs \in Nat /\ Limit(p) \in Nat /\ LastNamed(p) \in Nat /\ p.minArgs <= LastNamed(p)
         /\ IF Unlimited(p) THEN p.maxArgs = -1
            ELSE /\ p.minArgs = 0 /\ LastNamed(p) = Limit(p) /\ p.maxArgs \in Nat
                 /\ Remaining(p) \in Nat \ {0}
<1>1. /\ p.minArgs \in Nat /\ p.maxArgs \in Nat \cup {-1}
      /\ p.maxArgs = -1 \/ p.minArgs = 0
      /\ p.minArgs > 0 \/ p.maxArgs # 0
  BY ParametersAssumption DEF TakesArguments, acceptsAnyArguments
<1>2. PICK n \in Nat \ {0} : n = Len(getMetavar(p))
  BY Metavars
<1>3. Unlimited(p) <=> p.maxArgs = -1
  BY <1>1 DEF Unlimited
<1>4. CASE p.maxArgs = -1
  <2>1. Limit(p) = n - 1
    BY <1>2, <1>3, <1>4 DEF Limit
  <2> QED
    BY <1>1, <1>2, <1>3, <1>4, <2>1 DEF LastNamed
<1>5. CASE p.maxArgs # -1
  <2>1. p.minArgs = 0 /\ p.maxArgs \in Nat \ {0} /\ ~Unlimited(p)
    BY <1>1, <1>3, <1>5
  <2>2. Limit(p) = IF p.maxArgs - 1 < n - 1 THEN p.maxArgs - 1 ELSE n - 1
    BY <1>2, <2>1 DEF Limit, optionalLimit
  <2>3. Limit(p) \in Nat /\ p.maxArgs - Limit(p) \in Nat \ {0}
    BY <1>2, <2>1, <2>2
  <2> QED
    BY <2>1, <2>3 DEF LastNamed, Remaining
<1> QED
  BY <1>4, <1>5

LEMMA VariableTyped ==
  ASSUME NEW p \in Parameters, TakesArguments(p), NEW i \in Nat \ {0}
  PROVE  Variable(p, i) \in PlainWords
<1>1. PICK ms \in Seq(Names) : ms = getMetavar(p) /\ Len(ms) \in Nat \ {0}
  BY Metavars
<1>2. PICK k \in 1..Len(ms) : k = IF i > Len(ms) THEN Len(ms) ELSE i
  BY <1>1
<1>3. ms[k] \in Names
  BY <1>1, ElementOfSeq
<1>4. Variable(p, i) = word(ms[k], "argument")
  BY <1>1, <1>2 DEF Variable
<1> QED
  BY <1>3, <1>4, WordTyped DEF Roles

LEMMA PartsOfSyntaxTyped ==
  ASSUME NEW p \in Parameters, TakesArguments(p)
  PROVE  /\ Mandatory(p) \in Seq(PlainWords) /\ Len(Mandatory(p)) = p.minArgs
         /\ p.maxArgs # p.minArgs =>
              /\ Optional(p) \in Seq(PlainWords) /\ Len(Optional(p)) = LastNamed(p) + 1 - p.minArgs
              /\ Len(Optional(p)) \in Nat \ {0}
              /\ Ending(p) \in Seq(PlainWords)
<1>1. p.minArgs \in Nat
  BY ParametersAssumption
<1>2. \A i \in 1..p.minArgs : Variable(p, i) \in PlainWords
  BY <1>1, VariableTyped
<1>3. Mandatory(p) \in Seq(PlainWords) /\ Len(Mandatory(p)) = p.minArgs
  BY <1>1, <1>2 DEF Mandatory
<1>4. ASSUME p.maxArgs # p.minArgs
      PROVE  /\ Optional(p) \in Seq(PlainWords) /\ Len(Optional(p)) = LastNamed(p) + 1 - p.minArgs
             /\ Len(Optional(p)) \in Nat \ {0}
             /\ Ending(p) \in Seq(PlainWords)
  <2>1. PICK n \in Nat \ {0} : n = LastNamed(p) + 1 - p.minArgs
    BY <1>4, Counts
  <2>2. ASSUME NEW i \in 1..n PROVE opened(Variable(p, p.minArgs + i)) \in PlainWords
    <3>1. p.minArgs + i \in Nat \ {0}
      BY <1>1
    <3> QED
      BY <3>1, VariableTyped, WordChanged DEF Roles
  <2>3. Optional(p) \in Seq(PlainWords) /\ Len(Optional(p)) = n
    <3>1. Optional(p) = [i \in 1..n |-> opened(Variable(p, p.minArgs + i))]
      BY <2>1 DEF Optional
    <3> QED
      BY <2>2, <3>1
  <2>4. ellipsis \in PlainWords
    BY OwnWordTyped DEF ellipsis, OwnNames, Roles
  <2>5. ~Unlimited(p) => repetition(Remaining(p)) \in PlainWords
    <3>1. word("{0..n}", "times") \in PlainWords
      BY OwnWordTyped DEF OwnNames, Roles
    <3>2. ~Unlimited(p) => Remaining(p) \in Nat
      BY <1>4, Counts
    <3> QED
      BY <3>1, <3>2, WordChanged DEF repetition, Roles
  <2>6. Ending(p) \in Seq(PlainWords)
    <3> DEFINE W == PlainWords
    <3>1. \A e \in W : <<e>> \in Seq(W)
      OBVIOUS
    <3>2. <<>> \in Seq(W)
      OBVIOUS
    <3> QED
      BY <2>4, <2>5, <3>1, <3>2, Zenon DEF Ending
  <2> QED
    BY <2>1, <2>3, <2>6
<1> QED
  BY <1>3, <1>4

LEMMA SyntaxTyped ==
  ASSUME NEW p \in Parameters
  PROVE  argumentsOf(p) \in Seq(PlainWords)
<1>1. CASE ~TakesArguments(p)
  <2>1. argumentsOf(p) = <<>>
    BY <1>1 DEF argumentsOf, TakesArguments
  <2> QED
    BY <2>1
<1>2. CASE TakesArguments(p)
  <2>1. argumentsOf(p) = describeArguments(p)
    BY <1>2 DEF argumentsOf, TakesArguments
  <2>2. CASE p.maxArgs = p.minArgs
    BY <1>2, <2>1, <2>2, SyntaxIs, PartsOfSyntaxTyped
  <2>3. CASE p.maxArgs # p.minArgs
    <3>1. PICK m \in Seq(PlainWords), o \in Seq(PlainWords), e \in Seq(PlainWords) :
            m = Mandatory(p) /\ o = Optional(p) /\ e = Ending(p) /\ Len(o) \in Nat \ {0}
      BY <1>2, <2>3, PartsOfSyntaxTyped
    <3>2. m \o o \o e \in Seq(PlainWords) /\ m \o o \o e # <<>>
      <4>1. m \o o \in Seq(PlainWords) /\ Len(m \o o) = Len(m) + Len(o) /\ Len(m) \in Nat
        BY <3>1, ConcatProperties, LenProperties
      <4>2. /\ (m \o o) \o e \in Seq(PlainWords) /\ Len((m \o o) \o e) = Len(m \o o) + Len(e)
            /\ Len(e) \in Nat
        BY <4>1, ConcatProperties, LenProperties
      <4>3. Len((m \o o) \o e) # 0
        BY <3>1, <4>1, <4>2
      <4> QED
        BY <4>2, <4>3
    <3>3. closedAtEnd(m \o o \o e, Len(o)) \in Seq(PlainWords)
      BY <3>1, <3>2, ClosedTyped
    <3> QED
      BY <2>1, <2>3, <3>1, <3>3, SyntaxIs
  <2> QED
    BY <2>2, <2>3
<1> QED
  BY <1>1, <1>2

-----------------------------------------------------------------------------
(* Sums.  sums[i] is the sum of the first i numbers.                       *)
Sums(sums, numbers, n) ==
  /\ sums[0] = 0
  /\ \A i \in 1..n : sums[i] = sums[i - 1] + numbers[i]

LEMMA SumsExist ==
  ASSUME NEW n \in Nat, NEW numbers, \A i \in 1..n : numbers[i] \in Int
  PROVE  \E sums \in [Nat -> Int] : Sums(sums, numbers, n)
<1> DEFINE T == { m \in Nat : m <= n => \E q \in [Nat -> Int] : Sums(q, numbers, m) }
<1>1. 0 \in T
  <2> DEFINE q == [i \in Nat |-> 0]
  <2>1. q \in [Nat -> Int] /\ Sums(q, numbers, 0)
    BY DEF Sums
  <2> QED
    BY <2>1
<1>2. ASSUME NEW m \in Nat, m \in T PROVE m + 1 \in T
  <2> SUFFICES ASSUME m + 1 <= n PROVE \E q \in [Nat -> Int] : Sums(q, numbers, m + 1)
    OBVIOUS
  <2>1. PICK q \in [Nat -> Int] : Sums(q, numbers, m)
    BY <1>2
  <2>2. PICK e \in Int : e = q[m] + numbers[m + 1]
    OBVIOUS
  <2>3. PICK r \in [Nat -> Int] : r = [q EXCEPT ![m + 1] = e]
    OBVIOUS
  <2>4. r[m + 1] = e /\ \A i \in Nat : i # m + 1 => r[i] = q[i]
    BY <2>3
  <2>5. r[0] = 0
    BY <2>1, <2>4 DEF Sums
  <2>6. ASSUME NEW i \in 1..(m + 1) PROVE r[i] = r[i - 1] + numbers[i]
    <3>1. CASE i = m + 1
      <4>1. i - 1 = m /\ r[m] = q[m]
        BY <2>4, <3>1
      <4> QED
        BY <2>2, <2>4, <3>1, <4>1
    <3>2. CASE i # m + 1
      <4>1. i \in 1..m /\ r[i] = q[i] /\ r[i - 1] = q[i - 1]
        BY <2>4, <3>2
      <4> QED
        BY <2>1, <4>1 DEF Sums
    <3> QED
      BY <3>1, <3>2
  <2>7. Sums(r, numbers, m + 1)
    BY <2>5, <2>6, Zenon DEF Sums
  <2> QED
    BY <2>7
<1>3. \A m \in Nat : m \in T
  <2> HIDE DEF T
  <2> QED
    BY <1>1, <1>2, Induction
<1> QED
  BY <1>3

LEMMA SumsUnique ==
  ASSUME NEW n \in Nat, NEW numbers, NEW q, NEW r, Sums(q, numbers, n), Sums(r, numbers, n)
  PROVE  q[n] = r[n]
<1> DEFINE T == { m \in Nat : m <= n => q[m] = r[m] }
<1>1. 0 \in T
  BY DEF Sums
<1>2. ASSUME NEW m \in Nat, m \in T PROVE m + 1 \in T
  <2> SUFFICES ASSUME m + 1 <= n PROVE q[m + 1] = r[m + 1]
    OBVIOUS
  <2>1. PICK i \in 1..n : i = m + 1 /\ i - 1 = m
    OBVIOUS
  <2>2. q[i - 1] = r[i - 1]
    BY <1>2, <2>1
  <2>3. q[i] = r[i]
    BY <2>2 DEF Sums
  <2> QED
    BY <2>1, <2>3
<1>3. \A m \in Nat : m \in T
  <2> HIDE DEF T
  <2> QED
    BY <1>1, <1>2, Induction
<1> QED
  BY <1>3

LEMMA TotalIs ==
  ASSUME NEW numbers, NEW n \in Nat, n = Len(numbers), NEW q, Sums(q, numbers, n)
  PROVE  total(numbers) = q[n]
<1> DEFINE E(f) == f = [i \in 0..n |-> IF i = 0 THEN 0 ELSE f[i - 1] + numbers[i]]
           g == [i \in 0..n |-> q[i]]
           c == CHOOSE h : E(h)
<1>1. E(g)
  <2>1. ASSUME NEW i \in 0..n PROVE q[i] = IF i = 0 THEN 0 ELSE g[i - 1] + numbers[i]
    <3>1. CASE i = 0
      BY <3>1 DEF Sums
    <3>2. CASE i # 0
      <4>1. g[i - 1] = q[i - 1] /\ i \in 1..n
        BY <3>2
      <4> QED
        BY <3>2, <4>1 DEF Sums
    <3> QED
      BY <3>1, <3>2
  <2> QED
    BY <2>1
<1>2. E(c)
  BY <1>1, Zenon
<1>3. total(numbers) = c[n]
  BY Zenon DEF total
<1> HIDE DEF c, g
<1>4. PICK f : E(f) /\ total(numbers) = f[n]
  BY <1>2, <1>3
<1>5. \A i \in 0..n : f[i] = IF i = 0 THEN 0 ELSE f[i - 1] + numbers[i]
  BY <1>4
<1>6. Sums(f, numbers, n)
  <2>1. f[0] = 0
    BY <1>5
  <2>2. \A i \in 1..n : i \in 0..n /\ i # 0
    OBVIOUS
  <2>3. \A i \in 1..n : f[i] = f[i - 1] + numbers[i]
    BY <1>5, <2>2, Zenon
  <2> QED
    BY <2>1, <2>3 DEF Sums
<1> QED
  BY <1>4, <1>6, SumsUnique

LEMMA TotalTyped ==
  ASSUME NEW n \in Nat, NEW numbers, n = Len(numbers), \A i \in 1..n : numbers[i] \in Int
  PROVE  total(numbers) \in Int
<1>1. PICK q \in [Nat -> Int] : Sums(q, numbers, n)
  BY SumsExist
<1>2. total(numbers) = q[n]
  BY <1>1, TotalIs
<1> QED
  BY <1>2

LEMMA LengthTyped ==
  ASSUME NEW ws \in Seq(PlainWords)
  PROVE  lengthOf(ws) \in Int
<1>1. PICK n \in Nat : n = Len(ws)
  BY LenProperties
<1>2. PICK numbers : numbers = [i \in 1..Len(ws) |-> ws[i].len + 1]
  OBVIOUS
<1>3. \A i \in 1..n : numbers[i] \in Int
  <2> SUFFICES ASSUME NEW i \in 1..n PROVE numbers[i] \in Int
    OBVIOUS
  <2>1. ws[i] \in PlainWords
    BY <1>1, ElementOfSeq
  <2>2. ws[i].len \in Nat
    BY <2>1 DEF PlainWords, WordsOf
  <2> QED
    BY <1>1, <1>2, <2>2
<1>4. Len(numbers) = n
  BY <1>1, <1>2
<1>5. total(numbers) \in Int
  BY <1>3, <1>4, TotalTyped
<1> QED
  BY <1>2, <1>5 DEF lengthOf

(* The largest of finitely many numbers.                                   *)
LEMMA LargestExists ==
  ASSUME NEW n \in Nat, NEW f, \A i \in 1..n : f[i] \in Int
  PROVE  \E m \in { f[i] : i \in 1..n } \cup {0} : \A x \in { f[i] : i \in 1..n } \cup {0} : x <= m
<1> DEFINE S(k) == { f[i] : i \in 1..k } \cup {0}
           T == { k \in Nat : k <= n => \E m \in S(k) : \A x \in S(k) : x <= m }
<1>1. 0 \in T
  <2>1. S(0) = {0}
    OBVIOUS
  <2> QED
    BY <2>1
<1>2. ASSUME NEW k \in Nat, k \in T PROVE k + 1 \in T
  <2> SUFFICES ASSUME k + 1 <= n PROVE \E m \in S(k + 1) : \A x \in S(k + 1) : x <= m
    OBVIOUS
  <2>1. PICK m \in S(k) : \A x \in S(k) : x <= m
    BY <1>2
  <2>2. PICK e \in Int : e = f[k + 1]
    OBVIOUS
  <2>3. S(k + 1) = S(k) \cup {e}
    <3>1. \A i : i \in 1..(k + 1) <=> i \in 1..k \/ i = k + 1
      OBVIOUS
    <3> QED
      BY <2>2, <3>1
  <2>4. \A x \in S(k) : x \in Int
    OBVIOUS
  <2> HIDE DEF S
  <2>5. CASE e <= m
    BY <2>1, <2>3, <2>5
  <2>6. CASE ~(e <= m)
    <3>1. \A x \in S(k) : x <= e
      BY <2>1, <2>2, <2>4, <2>6
    <3>2. e <= e
      BY <2>2
    <3> QED
      BY <2>3, <3>1, <3>2
  <2> QED
    BY <2>5, <2>6
<1>3. \A k \in Nat : k \in T
  <2> HIDE DEF T
  <2> QED
    BY <1>1, <1>2, Induction
<1>4. n \in T
  BY <1>3
<1> QED
  BY <1>4

-----------------------------------------------------------------------------
(* The entries, their column and the usage.                                *)
LEMMA NamesTyped ==
  ASSUME NEW p \in Parameters
  PROVE  /\ getHelpName(p) \in Names /\ getName(p) \in Names
         /\ p.kind = "option" /\ p.short # NoName => p.short \in Names
         /\ p.short = NoName \/ p.long # NoName => p.long \in Names
<1>1. /\ p.short \in Names \cup {NoName} /\ getName(p) \in Names /\ p.metavar \in Seq(Names)
  BY ParametersAssumption
<1>2. p.metavar # <<>> => p.metavar[1] \in Names
  <2>1. p.metavar # <<>> => 1 \in 1..Len(p.metavar)
    BY <1>1, EmptySeq
  <2> QED
    BY <1>1, <2>1, ElementOfSeq
<1> QED
  BY <1>1, <1>2 DEF getHelpName, getName

LEMMA EntryTyped ==
  ASSUME NEW p \in Parameters
  PROVE  formatArgument(p) \in Seq(PlainWords)
<1> DEFINE W == PlainWords
           long  == word(p.long, "entry")
           short == word(p.short, "entry")
           names == IF is_positional(p) THEN << word(getHelpName(p), "entry") >>
                    ELSE IF p.short = NoName THEN <<long>>
                    ELSE IF p.long = NoName THEN <<short>>
                    ELSE << [short EXCEPT !.len = @ + 1], [long EXCEPT !.role = "alias"] >>
<1>1. \A a, b \in W : <<a>> \in Seq(W) /\ <<a, b>> \in Seq(W)
  OBVIOUS
<1>2. formatArgument(p) = IF is_positional(p) THEN names ELSE names \o argumentsOf(p)
  BY DEF formatArgument
<1>3. names \in Seq(W)
  <2>1. CASE is_positional(p)
    BY <1>1, <2>1, NamesTyped, WordTyped DEF Roles
  <2>2. CASE ~is_positional(p) /\ p.short = NoName
    BY <1>1, <2>2, NamesTyped, WordTyped DEF Roles
  <2>3. CASE ~is_positional(p) /\ p.short # NoName
    <3>1. p.kind = "option"
      BY <2>3 DEF is_positional
    <3>2. short \in W /\ (p.long # NoName => long \in W)
      BY <2>3, <3>1, NamesTyped, WordTyped DEF Roles
    <3>3. p.long # NoName => [short EXCEPT !.len = @ + 1] \in W /\ [long EXCEPT !.role = "alias"] \in W
      <4> HIDE DEF long, short
      <4> QED
        BY <3>2, WordChanged DEF Roles
    <3> HIDE DEF long, short, W
    <3> QED
      BY <1>1, <2>3, <3>2, <3>3
  <2> QED
    BY <2>1, <2>2, <2>3
<1> HIDE DEF names
<1>4. argumentsOf(p) \in Seq(W)
  BY SyntaxTyped
<1> QED
  BY <1>2, <1>3, <1>4, ConcatProperties

LEMMA WidthTyped ==
  ASSUME NEW p \in Parameters
  PROVE  argumentWidth(p) \in Int
<1>1. lengthOf(formatArgument(p)) \in Int
  BY EntryTyped, LengthTyped
<1> QED
  BY <1>1 DEF argumentWidth

Widths(args) == { argumentWidth(args[i]) : i \in 1..Len(args) } \cup {0}

LEMMA ColumnTyped ==
  ASSUME NEW args \in Seq(Parameters)
  PROVE  descriptionIndent(args) \in Nat
<1>1. PICK n \in Nat : n = Len(args)
  BY LenProperties
<1>0. PICK f : f = [i \in 1..n |-> argumentWidth(args[i])]
  OBVIOUS
<1> DEFINE widths == Widths(args)
           largest == CHOOSE m \in widths : \A x \in widths : x <= m
<1>2. \A i \in 1..n : f[i] \in Int
  <2>1. \A i \in 1..n : args[i] \in Parameters
    BY <1>1, ElementOfSeq
  <2> QED
    BY <1>0, <2>1, WidthTyped
<1>3. descriptionIndent(args) = IF largest + ArgumentIndent + 1 > MaxDescriptionIndent
                                  THEN MaxDescriptionIndent ELSE largest + ArgumentIndent + 1
  BY DEF descriptionIndent, Widths
<1>9. widths = { f[i] : i \in 1..n } \cup {0}
  BY <1>0, <1>1 DEF Widths
<1> HIDE DEF widths
<1>4. \A x \in widths : x \in Int
  BY <1>2, <1>9
<1>5. \E m \in widths : \A x \in widths : x <= m
  <2>1. \E m \in { f[i] : i \in 1..n } \cup {0} : \A x \in { f[i] : i \in 1..n } \cup {0} : x <= m
    BY <1>2, LargestExists
  <2> QED
    BY <1>9, <2>1
<1>6. 0 \in widths
  BY <1>9
<1> HIDE DEF widths
<1>7. largest \in widths /\ \A x \in widths : x <= largest
  BY <1>5
<1>8. largest \in Nat
  BY <1>4, <1>6, <1>7
<1> HIDE DEF largest
<1> QED
  BY <1>3, <1>8, SizesAssumption

LEMMA UsageTyped ==
  ASSUME NEW p \in Parameters
  PROVE  usageOf(p) \in Seq(PlainWords)
<1> DEFINE names == IF is_positional(p) THEN <<>> ELSE << word(getName(p), "usage") >>
           whole == names \o RoleOf(argumentsOf(p), "text")
           W     == PlainWords
<1>1. names \in Seq(W)
  <2>1. word(getName(p), "usage") \in W
    BY NamesTyped, WordTyped DEF Roles
  <2> HIDE DEF W
  <2> QED
    BY <2>1
<1>2. RoleOf(argumentsOf(p), "text") \in Seq(W)
  BY SyntaxTyped, RoleOfTyped DEF Roles
<1>3. whole \in Seq(W)
  <2> HIDE DEF names
  <2> QED
    BY <1>1, <1>2, ConcatProperties
<1>4. usageOf(p) = IF p.required \/ whole = <<>> \/ (names = <<>> /\ whole[1].open > 0)
                     THEN whole
                     ELSE bracketed(whole)
  BY DEF usageOf
<1> HIDE DEF whole
<1> QED
  BY <1>3, <1>4, BracketedTyped

LEMMA FormatUsageTyped ==
  ASSUME NEW args \in Seq(Parameters)
  PROVE  formatUsage(args) \in Seq(PlainWords)
<1> DEFINE u(i) == IF isCommand(args[i]) THEN <<>> ELSE usageOf(args[i])
           W == PlainWords
           subs == IF \E i \in 1..Len(args) : isCommand(args[i])
                     THEN << word("<command>", "text"), word("...", "text") >> ELSE <<>>
<1>1. PICK n \in Nat : n = Len(args)
  BY LenProperties
<1>2. \A i \in 1..n : u(i) \in Seq(W)
  <2>1. \A i \in 1..n : args[i] \in Parameters
    BY <1>1, ElementOfSeq
  <2> QED
    BY <2>1, UsageTyped
<1>3. PICK parts : parts = [i \in 1..Len(args) |-> u(i)]
  OBVIOUS
<1>4. parts \in Seq(Seq(W))
  <2> DEFINE S == Seq(W)
  <2> HIDE DEF u, S
  <2>1. \A i \in 1..n : u(i) \in S
    BY <1>2 DEF S
  <2>2. parts \in Seq(S)
    BY <1>1, <1>3, <2>1
  <2> QED
    BY <2>2 DEF S
<1>5. FlattenSeq(parts) \in Seq(W)
  BY <1>4, FlattenPlaces
<1>6. subs \in Seq(W)
  <2>1. word("<command>", "text") \in W /\ word("...", "text") \in W
    BY OwnWordTyped DEF OwnNames, Roles
  <2> HIDE DEF W
  <2> QED
    BY <2>1
<1>7. formatUsage(args) = FlattenSeq(parts) \o subs
  BY <1>3 DEF formatUsage
<1> HIDE DEF subs
<1> QED
  BY <1>5, <1>6, <1>7, ConcatProperties

-----------------------------------------------------------------------------
(* Every part of the script is sound.                                      *)
LEMMA WriteCalls ==
  ASSUME NEW roles, roles \subseteq Roles \cup {"help"}, NEW text \in Texts(roles)
  PROVE  /\ write(text) \in Seq(Calls) /\ Len(write(text)) = Len(text)
         /\ \A i \in 1..Len(text) :
              \/ write(text)[i].do = "paragraph"
              \/ write(text)[i].do = "word" /\ write(text)[i].word.role \in roles
<1> DEFINE f(i) == IF text[i] = Break THEN [do |-> "paragraph"] ELSE [do |-> "word", word |-> text[i]]
           C == Calls
<1>1. PICK n \in Nat : n = Len(text)
  BY LenProperties DEF Texts
<1>2. ASSUME NEW i \in 1..n
      PROVE  /\ f(i) \in C
             /\ f(i).do = "paragraph" \/ (f(i).do = "word" /\ f(i).word.role \in roles)
  <2>1. text[i] \in WordsOf(roles) \cup {Break}
    BY <1>1, ElementOfSeq DEF Texts
  <2>2. CASE text[i] = Break
    BY <2>2 DEF Calls
  <2>3. CASE text[i] # Break
    <3>1. PICK w \in WordsOf(roles) : w = text[i]
      BY <2>1, <2>3
    <3>2. w \in AllWords /\ w.role \in roles
      BY DEF AllWords, WordsOf
    <3>3. f(i) = [do |-> "word", word |-> w]
      BY <2>3, <3>1
    <3> HIDE DEF f
    <3>4. f(i) \in Calls /\ f(i).do = "word" /\ f(i).word = w
      BY <3>2, <3>3 DEF Calls
    <3> QED
      BY <3>2, <3>4
  <2> QED
    BY <2>2, <2>3
<1>3. write(text) = [i \in 1..n |-> f(i)]
  BY <1>1 DEF write
<1> HIDE DEF f, C
<1>4. write(text) \in Seq(C) /\ Len(write(text)) = n /\ \A i \in 1..n : write(text)[i] = f(i)
  BY <1>2, <1>3
<1> QED
  BY <1>1, <1>2, <1>4 DEF C

LEMMA PlainWriteSound ==
  ASSUME NEW column, NEW text \in Texts(Roles)
  PROVE  write(text) \in Sound(column)
<1>1. /\ write(text) \in Seq(Calls)
      /\ \A i \in 1..Len(write(text)) :
              \/ write(text)[i].do = "paragraph"
              \/ write(text)[i].do = "word" /\ write(text)[i].word.role \in Roles
  BY WriteCalls
<1>2. \A i \in 1..Len(write(text)) : ~IsHelpCall(write(text)[i])
  BY <1>1 DEF IsHelpCall, Roles
<1> QED
  BY <1>1, <1>2, PlainSound

LEMMA PlainWordsSound ==
  ASSUME NEW column, NEW ws \in Seq(PlainWords)
  PROVE  write(ws) \in Sound(column)
<1>1. ws \in Texts(Roles)
  <2>1. PlainWords \subseteq WordsOf(Roles) \cup {Break}
    BY DEF PlainWords
  <2> QED
    BY <2>1, SeqMonotonic DEF Texts
<1> QED
  BY <1>1, PlainWriteSound

LEMMA ClientTextSound ==
  ASSUME NEW column, NEW text \in Texts({"text"})
  PROVE  write(text) \in Sound(column)
<1>1. WordsOf({"text"}) \cup {Break} \subseteq WordsOf(Roles) \cup {Break}
  BY DEF WordsOf, Roles
<1>2. text \in Texts(Roles)
  BY <1>1, SeqMonotonic DEF Texts
<1> QED
  BY <1>2, PlainWriteSound

LEMMA SingleSound ==
  ASSUME NEW column, NEW n \in Nat
  PROVE  /\ line \in Sound(column) /\ paragraph \in Sound(column)
         /\ skip(n) \in Sound(column) /\ indent(n) \in Sound(column)
         /\ <<>> \in Sound(column)
<1> DEFINE C == Calls
<1>1. /\ [do |-> "line"] \in C /\ [do |-> "paragraph"] \in C
      /\ [do |-> "skip", to |-> n] \in C /\ [do |-> "indent", to |-> n] \in C
  BY DEF Calls
<1>2. ASSUME NEW call \in C, ~IsHelpCall(call) PROVE <<call>> \in Sound(column)
  <2> HIDE DEF C
  <2>1. <<call>> \in Seq(C) /\ \A i \in 1..Len(<<call>>) : <<call>>[i] = call
    OBVIOUS
  <2> QED
    BY <1>2, <2>1, PlainSound DEF C
<1>3. /\ ~IsHelpCall([do |-> "line"]) /\ ~IsHelpCall([do |-> "paragraph"])
      /\ ~IsHelpCall([do |-> "skip", to |-> n]) /\ ~IsHelpCall([do |-> "indent", to |-> n])
  BY DEF IsHelpCall
<1>4. <<>> \in Sound(column)
  <2>1. <<>> \in Seq(Calls) /\ \A i \in 1..Len(<<>>) : FALSE
    OBVIOUS
  <2> QED
    BY <2>1 DEF Sound
<1> HIDE DEF C
<1> QED
  BY <1>1, <1>2, <1>3, <1>4 DEF line, paragraph, skip, indent

LEMMA DescriptionSound ==
  ASSUME NEW column \in Nat, NEW text \in Texts({"help"})
  PROVE  (skip(column) \o indent(column)) \o write(text) \in Sound(column)
<1> DEFINE C == Calls
<1>1. /\ write(text) \in Seq(C)
      /\ \A i \in 1..Len(write(text)) : IsTextCall(write(text)[i])
  <2>1. {"help"} \subseteq Roles \cup {"help"}
    OBVIOUS
  <2> QED
    BY <2>1, WriteCalls DEF IsTextCall, IsHelpCall
<1>2. SkipCall(column) \in C /\ IndentCall(column) \in C
  BY DEF Calls, SkipCall, IndentCall
<1>3. skip(column) = <<SkipCall(column)>> /\ indent(column) = <<IndentCall(column)>>
  BY DEF skip, indent, SkipCall, IndentCall
<1> HIDE DEF C
<1>4. PICK a, b, t : /\ a = SkipCall(column) /\ b = IndentCall(column) /\ t = write(text)
                     /\ a \in C /\ b \in C /\ t \in Seq(C)
  BY <1>1, <1>2
<1>5. PICK h : h = <<a>> \o <<b>>
  OBVIOUS
<1>6. h \in Seq(C) /\ Len(h) = 2 /\ h[1] = a /\ h[2] = b
  BY <1>4, <1>5
<1>7. PICK s : s = h \o t
  OBVIOUS
<1>8. /\ s \in Seq(C) /\ Len(s) >= 2 /\ s[1] = a /\ s[2] = b
      /\ \A i \in 3..Len(s) : i - 2 \in 1..Len(t) /\ s[i] = t[i - 2]
  <2>1. t \in Seq(C) /\ h \in Seq(C)
    BY <1>4, <1>6
  <2>2. s \in Seq(C)
    BY <1>7, <2>1, ConcatProperties
  <2>3. Len(h) = 2 => GoesOn(h, t, s)
    BY <1>7, <2>1, AfterTwo
  <2> QED
    BY <1>6, <2>2, <2>3 DEF GoesOn
<1>9. \A i \in 3..Len(s) : IsTextCall(s[i])
  BY <1>1, <1>4, <1>8
<1>10. s \in Sound(column)
  <2>1. Len(s) >= 2
    BY <1>8
  <2> QED
    BY <1>4, <1>8, <1>9, <2>1, HeaderSound DEF C
<1> QED
  BY <1>3, <1>4, <1>5, <1>7, <1>10

LEMMA WriteArgumentSound ==
  ASSUME NEW p \in Parameters, NEW column \in Nat
  PROVE  writeArgument(p, column) \in Sound(column)
<1> DEFINE S == Sound(column)
<1>1. \A s, t \in S : s \o t \in S
  BY SoundConcat
<1>2. S \subseteq Seq(Calls)
  BY DEF Sound
<1>3. /\ indent(ArgumentIndent) \in S /\ write(formatArgument(p)) \in S
      /\ skip(column) \in S /\ indent(column) \in S /\ line \in S
  BY SizesAssumption, SingleSound, EntryTyped, PlainWordsSound
<1>4. (skip(column) \o indent(column)) \o write(p.help) \in S /\ write(p.help) \in Seq(Calls)
  <2>1. p.help \in Texts({"help"}) /\ {"help"} \subseteq Roles \cup {"help"}
    BY ParametersAssumption
  <2> QED
    BY <2>1, DescriptionSound, WriteCalls
<1>5. PICK a \in S, b \in S, c \in S, d \in S, l \in S, t \in Seq(Calls) :
        /\ a = indent(ArgumentIndent) /\ b = write(formatArgument(p)) /\ c = skip(column)
        /\ d = indent(column) /\ l = line /\ t = write(p.help)
        /\ (c \o d) \o t \in S
  BY <1>3, <1>4
<1>6. writeArgument(p, column) = ((((a \o b) \o c) \o d) \o t) \o l
  BY <1>5 DEF writeArgument
<1> HIDE DEF S
<1>7. PICK e \in S : e = a \o b
  BY <1>1
<1>8. (((e \o c) \o d) \o t) = e \o ((c \o d) \o t)
  <2>1. e \in Seq(Calls) /\ c \in Seq(Calls) /\ d \in Seq(Calls)
    BY <1>2
  <2> QED
    BY <2>1, Regrouped, SMTT(60)
<1>10. PICK x \in S : x = (c \o d) \o t
  BY <1>5
<1>11. e \o x \in S
  BY <1>1
<1>12. (e \o x) \o l \in S
  BY <1>1, <1>11
<1> QED
  BY <1>6, <1>7, <1>8, <1>10, <1>12 DEF S

LEMMA FlattenSound ==
  ASSUME NEW column, NEW n \in Nat, NEW ss \in [1..n -> Sound(column)]
  PROVE  FlattenSeq(ss) \in Sound(column)
<1> DEFINE S == Sound(column)
<1>1. S \subseteq Seq(Calls) /\ <<>> \in S /\ \A x, y \in S : x \o y \in S
  BY SingleSound, SoundConcat DEF Sound
<1>2. ss \in [1..n -> S]
  OBVIOUS
<1> HIDE DEF S
<1>3. FlattenSeq(ss) \in S
  BY <1>1, <1>2, FlattenClosed
<1> QED
  BY <1>3 DEF S

LEMMA WriteArgumentsSound ==
  ASSUME NEW args \in Seq(Parameters), NEW column \in Nat
  PROVE  writeArguments(args, column) \in Sound(column)
<1> DEFINE S == Sound(column)
<1>1. \A s, t \in S : s \o t \in S
  BY SoundConcat
<1>2. line \in S /\ paragraph \in S /\ indent(0) \in S
  BY SingleSound
<1>3. PICK n \in Nat : n = Len(args)
  BY LenProperties
<1>4. PICK ss : ss = [i \in 1..Len(args) |-> writeArgument(args[i], column)]
  OBVIOUS
<1>5. ss \in [1..n -> S]
  <2>1. \A i \in 1..n : args[i] \in Parameters
    BY <1>3, ElementOfSeq
  <2>2. \A i \in 1..n : writeArgument(args[i], column) \in S
    BY <2>1, WriteArgumentSound
  <2> HIDE DEF S
  <2> QED
    BY <1>3, <1>4, <2>2
<1>6. FlattenSeq(ss) \in S
  BY <1>5, FlattenSound
<1>7. PICK a \in S, b \in S, c \in S, d \in S :
        a = line /\ b = FlattenSeq(ss) /\ c = paragraph /\ d = indent(0)
  BY <1>2, <1>6
<1>8. writeArguments(args, column) = ((a \o b) \o c) \o d
  BY <1>4, <1>7 DEF writeArguments
<1> HIDE DEF S
<1> QED
  BY <1>1, <1>8 DEF S

LEMMA WritePartSound ==
  ASSUME NEW args \in Seq(Parameters), NEW heading \in Seq(PlainWords), NEW column \in Nat
  PROVE  writePart(args, heading, column) \in Sound(column)
<1> DEFINE S == Sound(column)
<1>1. \A s, t \in S : s \o t \in S
  BY SoundConcat
<1>2. <<>> \in S /\ write(heading) \in S /\ writeArguments(args, column) \in S
  BY SingleSound, PlainWordsSound, WriteArgumentsSound
<1> HIDE DEF S
<1>3. (IF args[1].group = NoGroup THEN write(heading) ELSE <<>>) \in S
  BY <1>2
<1> QED
  BY <1>1, <1>2, <1>3 DEF writePart, S

LEMMA HeadingTyped ==
  ASSUME NEW part \in {"positional", "required", "optional"}
  PROVE  headingOf(part) \in Seq(PlainWords)
<1> DEFINE W == PlainWords
<1>1. word(part, "heading") \in W /\ word("arguments:", "text") \in W
  BY OwnWordTyped DEF OwnNames, Roles
<1> HIDE DEF W
<1>2. << word(part, "heading"), word("arguments:", "text") >> \in Seq(W)
  BY <1>1
<1> QED
  BY <1>2 DEF headingOf, W

LEMMA OneWordSound ==
  ASSUME NEW column, NEW w \in PlainWords
  PROVE  <<w>> \in Seq(PlainWords) /\ write(<<w>>) \in Sound(column)
<1> DEFINE W == PlainWords
<1>1. <<w>> \in Seq(W)
  OBVIOUS
<1> QED
  BY <1>1, PlainWordsSound

Title(group) ==
  write(<< word(Groups[group[1].group].title, "heading") >>) \o line
    \o indent(ArgumentIndent)
    \o write(Groups[group[1].group].description)
    \o paragraph \o indent(0)

LEMMA TitleSound ==
  ASSUME NEW group \in NonEmpty, NEW column, group[1].group # NoGroup
  PROVE  Title(group) \in Sound(column)
<1> DEFINE S == Sound(column)
<1>1. \A s, t \in S : s \o t \in S
  BY SoundConcat
<1>2. group[1] \in Parameters
  <2>1. group \in Seq(Parameters) /\ 1 \in 1..Len(group)
    BY EmptySeq DEF NonEmpty
  <2> QED
    BY <2>1, ElementOfSeq
<1>3. /\ Groups[group[1].group].title \in Names
      /\ Groups[group[1].group].description \in Texts({"text"})
  BY <1>2, ParametersAssumption
<1>4. write(<< word(Groups[group[1].group].title, "heading") >>) \in S
  BY <1>3, WordTyped, OneWordSound DEF Roles
<1>5. write(Groups[group[1].group].description) \in S
  BY <1>3, ClientTextSound
<1>6. line \in S /\ paragraph \in S /\ indent(0) \in S /\ indent(ArgumentIndent) \in S
  BY SizesAssumption, SingleSound
<1>7. PICK a \in S, b \in S, c \in S, d \in S, e \in S, f \in S :
        /\ a = write(<< word(Groups[group[1].group].title, "heading") >>) /\ b = line
        /\ c = indent(ArgumentIndent) /\ d = write(Groups[group[1].group].description)
        /\ e = paragraph /\ f = indent(0)
  BY <1>4, <1>5, <1>6
<1>8. Title(group) = ((((a \o b) \o c) \o d) \o e) \o f
  BY <1>7 DEF Title
<1> HIDE DEF S
<1> QED
  BY <1>1, <1>8 DEF S

LEMMA WriteGroupSound ==
  ASSUME NEW group \in NonEmpty, NEW column \in Nat
  PROVE  writeGroup(group, column) \in Sound(column)
<1> DEFINE S     == Sound(column)
           parts == reorderOptions(group)
           commands == writePart(parts.positional, << word("commands:", "heading") >>, column)
           positional == writePart(parts.positional, headingOf("positional"), column)
           required == writePart(parts.required, headingOf("required"), column)
           optional == writePart(parts.optional, headingOf("optional"), column)
           title == IF group[1].group = NoGroup THEN <<>> ELSE Title(group)
<1>1. \A s, t \in S : s \o t \in S
  BY SoundConcat
<1>2. /\ parts.positional \in Seq(Parameters) /\ parts.required \in Seq(Parameters)
      /\ parts.optional \in Seq(Parameters)
  BY PartsTyped DEF NonEmpty
<1>3. commands \in S
  <2>1. << word("commands:", "heading") >> \in Seq(PlainWords)
    BY OwnWordTyped, OneWordSound DEF OwnNames, Roles
  <2> QED
    BY <1>2, <2>1, WritePartSound
<1>4. positional \in S /\ required \in S /\ optional \in S
  BY <1>2, HeadingTyped, WritePartSound
<1>5. title \in S
  BY SingleSound, TitleSound
<1>6. writeGroup(group, column) =
        title \o (IF isCommand(group[1]) THEN commands ELSE positional \o required \o optional)
  BY DEF writeGroup, Title
<1> HIDE DEF S, commands, positional, required, optional, title
<1>7. (positional \o required) \o optional \in S
  BY <1>1, <1>4
<1> QED
  BY <1>1, <1>3, <1>5, <1>6, <1>7 DEF S

Definitions == [options : Seq(Parameters), positional : Seq(Parameters), commands : Seq(Parameters)]

LEMMA DescribedTyped ==
  ASSUME NEW d \in Definitions
  PROVE  describe_arguments(d) \in Seq(Parameters)
<1>1. d.options \in Seq(Parameters) /\ d.positional \in Seq(Parameters) /\ d.commands \in Seq(Parameters)
  BY DEF Definitions
<1>2. d.options \o d.positional \in Seq(Parameters)
  BY <1>1, ConcatProperties
<1> QED
  BY <1>1, <1>2, ConcatProperties DEF describe_arguments

LEMMA WriteUsageSound ==
  ASSUME NEW args \in Seq(Parameters), NEW c \in Configs, NEW column
  PROVE  write(IF c.usage # <<>> THEN c.usage ELSE c.program \o formatUsage(args)) \in Sound(column)
<1>1. c.usage \in Texts({"text"}) /\ c.program \in Texts({"text"})
  BY ConfigsAssumption
<1>2. CASE c.usage # <<>>
  BY <1>1, <1>2, ClientTextSound
<1>3. CASE ~(c.usage # <<>>)
  <2> DEFINE T == WordsOf(Roles) \cup {Break}
  <2>1. c.program \in Seq(T)
    <3>1. WordsOf({"text"}) \cup {Break} \subseteq T
      BY DEF WordsOf, Roles
    <3> QED
      BY <1>1, <3>1, SeqMonotonic DEF Texts
  <2>2. formatUsage(args) \in Seq(T)
    <3>1. PlainWords \subseteq T
      BY DEF PlainWords
    <3> QED
      BY <3>1, FormatUsageTyped, SeqMonotonic
  <2> HIDE DEF T
  <2>3. c.program \o formatUsage(args) \in Seq(T)
    BY <2>1, <2>2, ConcatProperties
  <2>4. c.program \o formatUsage(args) \in Texts(Roles)
    BY <2>3 DEF Texts, T
  <2> QED
    BY <1>3, <2>4, PlainWriteSound
<1> QED
  BY <1>2, <1>3

LEMMA WriteBlockSound ==
  ASSUME NEW text \in Texts({"text"}), NEW column
  PROVE  writeBlock(text) \in Sound(column)
<1>1. write(text) \in Sound(column) /\ paragraph \in Sound(column) /\ <<>> \in Sound(column)
  BY ClientTextSound, SingleSound
<1>2. write(text) \o paragraph \in Sound(column)
  BY <1>1, SoundConcat
<1> QED
  BY <1>1, <1>2 DEF writeBlock

LEMMA FormatSound ==
  ASSUME NEW d \in Definitions, NEW c \in Configs, NEW column,
         column = descriptionIndent(describe_arguments(d))
  PROVE  column \in Nat /\ format(d, c) \in Sound(column)
<1> DEFINE S == Sound(column)
<1>1. PICK args \in Seq(Parameters) : args = describe_arguments(d)
  BY DescribedTyped
<1>2. column \in Nat
  BY <1>1, ColumnTyped
<1>3. \A s, t \in S : s \o t \in S
  BY SoundConcat
<1>4. PICK m \in Nat : m = Len(reorderGroups(args)) /\ reorderGroups(args) \in [1..m -> NonEmpty]
  BY GroupsTyped
<1>5. PICK groups : groups = reorderGroups(args)
  OBVIOUS
<1>6. PICK ss : ss = [i \in 1..Len(groups) |-> writeGroup(groups[i], column)]
  OBVIOUS
<1>7. ss \in [1..m -> S]
  <2>1. \A i \in 1..m : groups[i] \in NonEmpty
    BY <1>4, <1>5
  <2>2. \A i \in 1..m : writeGroup(groups[i], column) \in S
    BY <1>2, <2>1, WriteGroupSound
  <2> HIDE DEF S
  <2> QED
    BY <1>4, <1>5, <1>6, <2>2
<1>8. FlattenSeq(ss) \in S
  BY <1>7, FlattenSound
<1>9. write(<< word("usage:", "text") >>) \in S
  BY OwnWordTyped, OneWordSound DEF OwnNames, Roles
<1>10. write(IF c.usage # <<>> THEN c.usage ELSE c.program \o formatUsage(args)) \in S
  BY WriteUsageSound
<1>11. paragraph \in S /\ writeBlock(c.description) \in S /\ writeBlock(c.epilog) \in S
  BY ConfigsAssumption, SingleSound, WriteBlockSound
<1>12. PICK u \in S, v \in S, w \in S, x \in S, y \in S, z \in S :
         /\ u = write(<< word("usage:", "text") >>)
         /\ v = write(IF c.usage # <<>> THEN c.usage ELSE c.program \o formatUsage(args))
         /\ w = paragraph /\ x = writeBlock(c.description) /\ y = FlattenSeq(ss)
         /\ z = writeBlock(c.epilog)
  BY <1>8, <1>9, <1>10, <1>11
<1>13. format(d, c) = ((((u \o v) \o w) \o x) \o y) \o z
  BY <1>1, <1>5, <1>6, <1>12 DEF format
<1> HIDE DEF S
<1> QED
  BY <1>2, <1>3, <1>13 DEF S

-----------------------------------------------------------------------------
HelpInv ==
  /\ definition \in Definitions /\ config \in Configs
  /\ descriptionIndent(describe_arguments(definition)) \in Nat
  /\ ScriptInv(script, writer, descriptionIndent(describe_arguments(definition)))

LEMMA NewScript ==
  ASSUME NEW column \in Nat, NEW s \in Sound(column)
  PROVE  ScriptInv(s, newWriter, column)
<1>1. s \in Seq(Calls) /\ Follows(s, newWriter, column)
  BY DEF Sound, Follows
<1>2. WriterInv(AllWords, newWriter)
  <2>1. newWriter \in Writers(AllWords)
    BY WidthAssumption DEF newWriter, Writers, Typed
  <2> QED
    BY <2>1, EmptyReadable DEF newWriter, WriterInv, LastEnd
<1>3. AllLines(AlignedLines(column), newWriter)
  <2>1. <<>> \in Seq(Pieces(AllWords)) /\ \A k \in 1..Len(<<>>) : FALSE
    OBVIOUS
  <2> QED
    BY <2>1 DEF AlignedLines, AlignedLine, AllLines, newWriter
<1> QED
  BY <1>1, <1>2, <1>3 DEF ScriptInv

LEMMA HelpInvInit == HelpInit => HelpInv
<1> SUFFICES ASSUME HelpInit PROVE HelpInv
  OBVIOUS
<1>1. definition \in Definitions /\ config \in Configs /\ script = <<>> /\ writer = newWriter
  BY DEF HelpInit, Nothing, Definitions
<1>2. PICK column : column = descriptionIndent(describe_arguments(definition))
  OBVIOUS
<1>3. column \in Nat /\ <<>> \in Sound(column)
  BY <1>1, <1>2, DescribedTyped, ColumnTyped, SingleSound
<1> QED
  BY <1>1, <1>2, <1>3, NewScript DEF HelpInv

LEMMA HelpInvNext == HelpInv /\ [HelpNext]_helpVars => HelpInv'
<1> SUFFICES ASSUME HelpInv, [HelpNext]_helpVars PROVE HelpInv'
  OBVIOUS
<1>1. ASSUME NEW p \in Parameters, Define(p) PROVE HelpInv'
  <2>1. /\ script = <<>> /\ writer = newWriter /\ definition \in Definitions
        /\ UNCHANGED <<config, script, writer>> /\ config \in Configs
    BY <1>1 DEF Define, HelpInv
  <2>2. /\ p.kind \in {"option", "positional", "command"}
        /\ definition' =
             CASE p.kind = "option"     -> [definition EXCEPT !.options = Append(@, p)]
               [] p.kind = "positional" -> [definition EXCEPT !.positional = Append(@, p)]
               [] p.kind = "command"    -> [definition EXCEPT !.commands = Append(@, p)]
    BY <1>1, ParametersAssumption DEF Define
  <2>3. definition' \in Definitions
    <3>1. PICK o \in Seq(Parameters), q \in Seq(Parameters), c \in Seq(Parameters) :
            /\ o = Append(definition.options, p) /\ q = Append(definition.positional, p)
            /\ c = Append(definition.commands, p)
      <4>1. /\ definition.options \in Seq(Parameters) /\ definition.positional \in Seq(Parameters)
            /\ definition.commands \in Seq(Parameters)
        BY <2>1 DEF Definitions
      <4> QED
        BY <4>1, AppendProperties
    <3>2. CASE p.kind = "option"
      <4>1. definition' = [definition EXCEPT !.options = o]
        BY <2>2, <3>1, <3>2
      <4> QED
        BY <2>1, <4>1 DEF Definitions
    <3>3. CASE p.kind = "positional"
      <4>1. definition' = [definition EXCEPT !.positional = q]
        BY <2>2, <3>1, <3>3
      <4> QED
        BY <2>1, <4>1 DEF Definitions
    <3>4. CASE p.kind = "command"
      <4>1. definition' = [definition EXCEPT !.commands = c]
        BY <2>2, <3>1, <3>4
      <4> QED
        BY <2>1, <4>1 DEF Definitions
    <3> QED
      BY <2>2, <3>2, <3>3, <3>4
  <2>4. PICK column : column = descriptionIndent(describe_arguments(definition'))
    OBVIOUS
  <2>5. column \in Nat /\ <<>> \in Sound(column)
    BY <2>3, <2>4, DescribedTyped, ColumnTyped, SingleSound
  <2>6. ScriptInv(script', writer', column)
    BY <2>1, <2>5, NewScript
  <2> QED
    BY <2>1, <2>3, <2>4, <2>5, <2>6 DEF HelpInv
<1>2. CASE Format
  <2>1. /\ writer = newWriter /\ definition \in Definitions /\ config \in Configs
        /\ UNCHANGED <<definition, config, writer>> /\ script' = format(definition, config)
    BY <1>2 DEF Format, HelpInv
  <2>2. PICK column : column = descriptionIndent(describe_arguments(definition))
    OBVIOUS
  <2>3. column \in Nat /\ script' \in Sound(column)
    BY <2>1, <2>2, FormatSound
  <2>4. ScriptInv(script', writer', column)
    BY <2>1, <2>3, NewScript
  <2> QED
    BY <2>1, <2>2, <2>3, <2>4 DEF HelpInv
<1>3. CASE CallWriter
  <2>1. /\ definition \in Definitions /\ config \in Configs /\ script # <<>>
        /\ UNCHANGED <<definition, config>> /\ script' = Tail(script)
        /\ writer' = Called(writer, Head(script))
    BY <1>3 DEF CallWriter, HelpInv, Called
  <2>2. PICK column : column = descriptionIndent(describe_arguments(definition))
    OBVIOUS
  <2>3. column \in Nat /\ ScriptInv(script, writer, column)
    BY <2>2 DEF HelpInv
  <2>4. Head(script) = script[1]
    OBVIOUS
  <2>5. ScriptInv(script', writer', column)
    BY <2>1, <2>3, <2>4, CallKeeps
  <2> QED
    BY <2>1, <2>2, <2>3, <2>5 DEF HelpInv
<1>4. CASE UNCHANGED helpVars
  BY <1>4 DEF helpVars, HelpInv
<1> QED
  BY <1>1, <1>2, <1>3, <1>4 DEF HelpNext

LEMMA LinesOf ==
  ASSUME NEW L, writer.lines \in Seq(Seq(Pieces(AllWords))), AllLines(L, writer)
  PROVE  \A i \in 1..Len(Lines) : Lines[i] \in L
<1> SUFFICES ASSUME NEW i \in 1..Len(Lines) PROVE Lines[i] \in L
  OBVIOUS
<1>1. CASE i \in 1..Len(writer.lines)
  <2>1. Lines[i] = writer.lines[i]
    BY <1>1 DEF Lines
  <2> QED
    BY <1>1, <2>1 DEF AllLines
<1>2. CASE i \notin 1..Len(writer.lines)
  <2>1. Lines[i] = writer.line
    BY <1>2 DEF Lines
  <2> QED
    BY <2>1 DEF AllLines
<1> QED
  BY <1>1, <1>2

(* Every help that is formatted has its descriptions in one column.        *)
THEOREM EveryDescriptionAligned == HelpSpec => []DescriptionsAligned
<1>1. HelpInv => DescriptionsAligned
  <2> SUFFICES ASSUME HelpInv PROVE DescriptionsAligned
    OBVIOUS
  <2>1. PICK column : column = descriptionIndent(describe_arguments(definition))
    OBVIOUS
  <2>2. /\ WriterInv(AllWords, writer) /\ AllLines(AlignedLines(column), writer)
    BY <2>1 DEF HelpInv, ScriptInv
  <2>3. writer.lines \in Seq(Seq(Pieces(AllWords)))
    BY <2>2, Members DEF WriterInv
  <2>4. \A i \in 1..Len(Lines) : Lines[i] \in AlignedLines(column)
    BY <2>2, <2>3, LinesOf
  <2>5. \A i \in 1..Len(Lines) : AlignedLine(Lines[i], column)
    BY <2>4 DEF AlignedLines
  <2> QED
    BY <2>1, <2>5 DEF DescriptionsAligned, AlignedLine, Margin
<1> QED
  BY <1>1, HelpInvInit, HelpInvNext, PTL DEF HelpSpec

(* Every help that is formatted can be read.                               *)
THEOREM EveryHelpReadable == HelpSpec => []LinesReadable
<1>1. HelpInv => LinesReadable
  <2> SUFFICES ASSUME HelpInv PROVE LinesReadable
    OBVIOUS
  <2>1. WriterInv(AllWords, writer)
    BY DEF HelpInv, ScriptInv
  <2> DEFINE L == { l \in Seq(Pieces(AllWords)) : Readable(l) }
  <2>2. AllLines(L, writer) /\ writer.lines \in Seq(Seq(Pieces(AllWords)))
    <3>1. writer \in Writers(AllWords)
      BY <2>1 DEF WriterInv
    <3>2. /\ writer.lines \in Seq(Seq(Pieces(AllWords))) /\ writer.line \in Seq(Pieces(AllWords))
      BY <3>1, Members
    <3>3. \A i \in 1..Len(writer.lines) : writer.lines[i] \in Seq(Pieces(AllWords))
      BY <3>2, ElementOfSeq
    <3> QED
      BY <2>1, <3>2, <3>3 DEF AllLines, WriterInv
  <2>3. \A i \in 1..Len(Lines) : Lines[i] \in L
    <3> HIDE DEF L
    <3> QED
      BY <2>2, LinesOf
  <2> QED
    BY <2>3 DEF LinesReadable
<1> QED
  BY <1>1, HelpInvInit, HelpInvNext, PTL DEF HelpSpec

-----------------------------------------------------------------------------
(* What the syntax promises.  One step of the recursion of promised, from  *)
(* the last word to the first.                                             *)
Ahead(ws, i, next, bound) ==
  LET more == IF i = Len(ws) THEN {1}
              ELSE CASE ws[i + 1].role = "forever" -> 1..bound
                     [] ws[i + 1].role = "times"   -> 0..ws[i + 1].times
                     [] OTHER -> { n + 1 : n \in next }
  IN  IF ws[i].open > 0 THEN more \cup {0} ELSE more

Promises(f, ws, n, bound) ==
  /\ f[n + 1] = {0}
  /\ \A i \in 1..n : f[i] = Ahead(ws, i, f[i + 1], bound)

LEMMA PromisesUnique ==
  ASSUME NEW ws, NEW n \in Nat, NEW bound, NEW f, NEW g,
         Promises(f, ws, n, bound), Promises(g, ws, n, bound)
  PROVE  \A i \in 1..(n + 1) : f[i] = g[i]
<1> DEFINE T == { k \in Nat : k <= n => f[n + 1 - k] = g[n + 1 - k] }
<1>1. 0 \in T
  <2>1. n + 1 - 0 = n + 1
    OBVIOUS
  <2> QED
    BY <2>1 DEF Promises
<1>2. ASSUME NEW k \in Nat, k \in T PROVE k + 1 \in T
  <2> SUFFICES ASSUME k + 1 <= n PROVE f[n + 1 - (k + 1)] = g[n + 1 - (k + 1)]
    OBVIOUS
  <2>1. PICK i \in 1..n : i = n + 1 - (k + 1) /\ i + 1 = n + 1 - k
    <3>1. n + 1 - (k + 1) \in 1..n /\ (n + 1 - (k + 1)) + 1 = n + 1 - k
      OBVIOUS
    <3> QED
      BY <3>1
  <2>2. f[i + 1] = g[i + 1]
    BY <1>2, <2>1
  <2>3. f[i] = g[i]
    BY <2>2 DEF Promises
  <2> QED
    BY <2>1, <2>3
<1>3. \A k \in Nat : k \in T
  <2> HIDE DEF T
  <2> QED
    BY <1>1, <1>2, Induction
<1>4. ASSUME NEW i \in 1..(n + 1) PROVE f[i] = g[i]
  <2>1. n + 1 - i \in T /\ n + 1 - i <= n /\ n + 1 - (n + 1 - i) = i
    BY <1>3
  <2> QED
    BY <2>1
<1> QED
  BY <1>4

LEMMA PromisedIs ==
  ASSUME NEW ws, NEW n \in Nat, n = Len(ws), NEW bound, NEW f, Promises(f, ws, n, bound)
  PROVE  promised(ws, bound) = f[1] \cap 0..bound
<1> DEFINE E(h) ==
             h = [i \in 1..(Len(ws) + 1) |->
                    IF i = Len(ws) + 1 THEN {0}
                    ELSE LET more == IF i + 1 = Len(ws) + 1 THEN {1}
                                     ELSE CASE ws[i + 1].role = "forever" -> 1..bound
                                            [] ws[i + 1].role = "times"   -> 0..ws[i + 1].times
                                            [] OTHER -> { x + 1 : x \in h[i + 1] }
                         IN  IF ws[i].open > 0 THEN more \cup {0} ELSE more]
           D(h) == h = [i \in 1..(n + 1) |-> IF i = n + 1 THEN {0} ELSE Ahead(ws, i, h[i + 1], bound)]
           g == [i \in 1..(n + 1) |-> f[i]]
           c == CHOOSE h : E(h)
<1>1. D(g)
  <2>1. ASSUME NEW i \in 1..(n + 1)
        PROVE  f[i] = IF i = n + 1 THEN {0} ELSE Ahead(ws, i, g[i + 1], bound)
    <3>1. CASE i = n + 1
      BY <3>1 DEF Promises
    <3>2. CASE i # n + 1
      <4>1. g[i + 1] = f[i + 1] /\ i \in 1..n
        BY <3>2
      <4> QED
        BY <3>2, <4>1 DEF Promises
    <3> QED
      BY <3>1, <3>2
  <2> QED
    BY <2>1
<1>2. \A h : D(h) <=> E(h)
  <2> SUFFICES ASSUME NEW h PROVE D(h) <=> E(h)
    OBVIOUS
  <2>1. \A i \in 1..(n + 1) : i # n + 1 => (i + 1 = Len(ws) + 1 <=> i = Len(ws))
    OBVIOUS
  <2> QED
    BY <2>1 DEF Ahead
<1>3. promised(ws, bound) = c[1] \cap 0..bound
  BY Zenon DEF promised
<1> HIDE DEF E
<1>4. E(c)
  BY <1>1, <1>2, Zenon
<1> HIDE DEF c, g
<1>5. PICK h : D(h) /\ promised(ws, bound) = h[1] \cap 0..bound
  BY <1>2, <1>3, <1>4
<1>6. \A i \in 1..(n + 1) : h[i] = IF i = n + 1 THEN {0} ELSE Ahead(ws, i, h[i + 1], bound)
  BY <1>5
<1>7. Promises(h, ws, n, bound)
  <2>1. h[n + 1] = {0}
    <3>1. n + 1 \in 1..(n + 1)
      OBVIOUS
    <3> QED
      BY <1>6, <3>1, Zenon
  <2>2. \A i \in 1..n : i \in 1..(n + 1) /\ i # n + 1
    OBVIOUS
  <2>3. \A i \in 1..n : h[i] = Ahead(ws, i, h[i + 1], bound)
    BY <1>6, <2>2, Zenon
  <2> QED
    BY <2>1, <2>3 DEF Promises
<1>8. h[1] = f[1]
  <2>1. 1 \in 1..(n + 1)
    OBVIOUS
  <2> QED
    BY <1>7, <2>1, PromisesUnique
<1> QED
  BY <1>5, <1>8

-----------------------------------------------------------------------------
(* A syntax of n words: m mandatory values, l optional ones in brackets,   *)
(* and in the last word what shows that there may be more.                 *)
Shape(ws, n, m, l, role, t) ==
  /\ Len(ws) = n
  /\ \A i \in 1..n : /\ ws[i].open = IF m < i /\ i <= m + l THEN 1 ELSE 0
                     /\ ws[i].close = IF i = n THEN l ELSE 0
                     /\ ws[i].role = IF i <= m + l THEN "argument" ELSE role
                     /\ i > m + l => ws[i].times = t

Low(m, i) == IF i <= m THEN m + 1 - i ELSE 0

LEMMA PlusOne ==
  ASSUME NEW a \in Int, NEW b \in Int
  PROVE  { x + 1 : x \in a..b } = (a + 1)..(b + 1)
<1>1. \A y \in (a + 1)..(b + 1) : y - 1 \in a..b /\ y = (y - 1) + 1
  OBVIOUS
<1>2. \A x \in a..b : x + 1 \in (a + 1)..(b + 1)
  OBVIOUS
<1> QED
  BY <1>1, <1>2

(* Before a value stands one value more, or none in brackets.              *)
LEMMA AheadOfArgument ==
  ASSUME NEW ws, NEW i \in Nat, i # Len(ws), ws[i + 1].role = "argument",
         NEW a \in Nat, NEW b \in Int, NEW next, next = a..b, NEW bound
  PROVE  /\ ws[i].open = 0 => Ahead(ws, i, next, bound) = (a + 1)..(b + 1)
         /\ ws[i].open = 1 => Ahead(ws, i, next, bound) = (a + 1)..(b + 1) \cup {0}
<1>1. PICK more : more = { n + 1 : n \in next }
  OBVIOUS
<1>2. more = (a + 1)..(b + 1)
  <2>1. { x + 1 : x \in a..b } = (a + 1)..(b + 1)
    BY PlusOne
  <2> QED
    BY <1>1, <2>1
<1>3. Ahead(ws, i, next, bound) = IF ws[i].open > 0 THEN more \cup {0} ELSE more
  BY <1>1 DEF Ahead
<1> QED
  BY <1>2, <1>3

Promised(ws, bound, low, high) == promised(ws, bound) = (low..high) \cap 0..bound

(* Without an ending the syntax promises between m and m + l values.       *)
LEMMA PromisedWithoutEnding ==
  ASSUME NEW ws, NEW role, NEW t, NEW m, NEW l, NEW n, NEW bound,
         Shape(ws, n, m, l, role, t), m \in Nat, l \in Nat, n \in Nat, bound \in Nat, n = m + l
  PROVE  Promised(ws, bound, m, n)
<1>1. PICK f : f = [i \in 1..(n + 1) |-> Low(m, i)..(n + 1 - i)]
  OBVIOUS
<1>2. \A i \in 1..(n + 1) : f[i] = Low(m, i)..(n + 1 - i)
  BY <1>1
<1>3. f[n + 1] = {0}
  <2>1. n + 1 \in 1..(n + 1) /\ Low(m, n + 1) = 0 /\ n + 1 - (n + 1) = 0 /\ 0..0 = {0}
    BY DEF Low
  <2> QED
    BY <1>2, <2>1
<1>4. ASSUME NEW i \in 1..n PROVE f[i] = Ahead(ws, i, f[i + 1], bound)
  <2>1. /\ i \in 1..(n + 1) /\ i + 1 \in 1..(n + 1) /\ Low(m, i) \in Nat /\ Low(m, i + 1) \in Nat
        /\ i <= m => Low(m, i) = Low(m, i + 1) + 1
        /\ i > m => Low(m, i) = 0 /\ Low(m, i + 1) = 0
    BY DEF Low
  <2>2. ws[i].open = IF i > m THEN 1 ELSE 0
    BY DEF Shape
  <2>3. CASE i = n
    <3>1. Len(ws) = n
      BY DEF Shape
    <3>2. Ahead(ws, i, f[i + 1], bound) = IF i > m THEN {1} \cup {0} ELSE {1}
      <4>1. ws[i].open > 0 <=> i > m
        BY <2>2
      <4>2. i = Len(ws)
        BY <2>3, <3>1
      <4> QED
        BY <4>1, <4>2 DEF Ahead
    <3>3. i <= m => Low(m, i) = 1
      BY <2>3 DEF Low
    <3>4. 0..1 = {1} \cup {0} /\ 1..1 = {1} /\ n + 1 - i = 1
      BY <2>3
    <3>5. f[i] = Low(m, i)..1
      BY <1>2, <2>1, <3>4
    <3>6. CASE i > m
      BY <2>1, <3>2, <3>4, <3>5, <3>6
    <3>7. CASE ~(i > m)
      <4>1. i <= m
        BY <3>7
      <4> QED
        BY <3>2, <3>3, <3>4, <3>5, <3>7, <4>1
    <3> QED
      BY <3>6, <3>7
  <2>4. CASE i # n
    <3>1. i + 1 \in 1..n /\ i + 1 <= m + l /\ Len(ws) = n
      BY <2>4 DEF Shape
    <3>2. ws[i + 1].role = "argument"
      BY <3>1 DEF Shape
    <3>3. PICK a \in Nat, b \in Int : a = Low(m, i + 1) /\ b = n + 1 - (i + 1) /\ b >= 1
      BY <2>1, <3>1
    <3>4. f[i + 1] = a..b
      BY <1>2, <2>1, <3>3
    <3>5. /\ ws[i].open = 0 => Ahead(ws, i, f[i + 1], bound) = (a + 1)..(b + 1)
          /\ ws[i].open = 1 => Ahead(ws, i, f[i + 1], bound) = (a + 1)..(b + 1) \cup {0}
      <4>1. i \in Nat /\ i # Len(ws)
        BY <2>4, <3>1
      <4>2. \A s : s = f[i + 1] => s = a..b
        BY <3>4
      <4> QED
        BY <3>2, <4>1, <4>2, AheadOfArgument
    <3>6. f[i] = Low(m, i)..(b + 1)
      <4>1. n + 1 - i = b + 1
        BY <3>3
      <4> QED
        BY <1>2, <2>1, <4>1
    <3>7. CASE i <= m
      <4>1. Low(m, i) = a + 1 /\ ws[i].open = 0
        BY <2>1, <2>2, <3>3, <3>7
      <4> QED
        BY <3>5, <3>6, <4>1
    <3>8. CASE i > m
      <4>1. Low(m, i) = 0 /\ a = 0 /\ ws[i].open = 1
        BY <2>1, <2>2, <3>3, <3>8
      <4>2. 0..(b + 1) = (0 + 1)..(b + 1) \cup {0}
        BY <3>3
      <4> QED
        BY <3>5, <3>6, <4>1, <4>2
    <3> QED
      BY <3>7, <3>8
  <2> QED
    BY <2>3, <2>4
<1>5. promised(ws, bound) = f[1] \cap 0..bound
  <2>1. Promises(f, ws, n, bound)
    BY <1>3, <1>4 DEF Promises
  <2>2. n = Len(ws)
    BY DEF Shape
  <2> QED
    BY <2>1, <2>2, PromisedIs
<1>6. f[1] = m..n
  <2>1. 1 \in 1..(n + 1) /\ Low(m, 1) = m /\ n + 1 - 1 = n
    BY DEF Low
  <2> QED
    BY <1>2, <2>1
<1> QED
  BY <1>5, <1>6 DEF Promised

(* An ending stands for up to h more values in the innermost bracket.      *)
StandsFor(role, t, bound, h) ==
  \/ role = "forever" /\ h = bound
  \/ role = "times" /\ h = t

LEMMA PromisedWithEnding ==
  ASSUME NEW ws, NEW role, NEW t, NEW m, NEW l, NEW n, NEW bound, NEW h, NEW k,
         Shape(ws, n, m, l, role, t), StandsFor(role, t, bound, h),
         m \in Nat, l \in Nat \ {0}, n \in Nat, bound \in Nat, h \in Nat,
         n = m + l + 1, k = h + m + l - 1
  PROVE  Promised(ws, bound, m, k)
<1>1. PICK f : f = [i \in 1..(n + 1) |-> IF i = n + 1 THEN {0} ELSE IF i = n THEN {1}
                                         ELSE Low(m, i)..(h + m + l - i)]
  OBVIOUS
<1>2. /\ f[n + 1] = {0} /\ f[n] = {1}
      /\ \A i \in 1..(m + l) : f[i] = Low(m, i)..(h + m + l - i)
  <2>1. n + 1 \in 1..(n + 1) /\ n \in 1..(n + 1) /\ n # n + 1
    OBVIOUS
  <2>2. \A i \in 1..(m + l) : i \in 1..(n + 1) /\ i # n /\ i # n + 1
    OBVIOUS
  <2> QED
    BY <1>1, <2>1, <2>2
<1>3. ASSUME NEW i \in 1..n PROVE f[i] = Ahead(ws, i, f[i + 1], bound)
  <2>0. Len(ws) = n
    BY DEF Shape
  <2>1. CASE i = n
    <3>1. ws[i].open = 0
      BY <2>1 DEF Shape
    <3> QED
      BY <1>2, <2>0, <2>1, <3>1 DEF Ahead
  <2>2. CASE i = m + l
    <3>1. ws[i].open = 1
      BY <2>2 DEF Shape
    <3>2. i + 1 = n /\ i # n /\ n \in 1..n /\ ~(n <= m + l) /\ n > m + l
      BY <2>2
    <3>3. ws[i + 1].role = role /\ ws[i + 1].times = t
      BY <3>2 DEF Shape
    <3>4. Low(m, i) = 0 /\ h + m + l - i = h /\ i \in 1..(m + l)
      BY <2>2 DEF Low
    <3>5. f[i] = 0..h
      BY <1>2, <3>4
    <3>6. CASE role = "forever" /\ h = bound
      <4>1. Ahead(ws, i, f[i + 1], bound) = 1..bound \cup {0}
        BY <2>0, <3>1, <3>2, <3>3, <3>6 DEF Ahead
      <4>2. 0..h = 1..bound \cup {0}
        BY <3>6
      <4> QED
        BY <3>5, <4>1, <4>2
    <3>7. CASE role = "times" /\ h = t
      <4>1. Ahead(ws, i, f[i + 1], bound) = 0..t \cup {0}
        BY <2>0, <3>1, <3>2, <3>3, <3>7 DEF Ahead
      <4>2. 0..h = 0..t \cup {0}
        BY <3>7
      <4> QED
        BY <3>5, <4>1, <4>2
    <3> QED
      BY <3>6, <3>7 DEF StandsFor
  <2>3. CASE i # n /\ i # m + l
    <3>1. i \in 1..(m + l) /\ i + 1 \in 1..(m + l) /\ i + 1 \in 1..n
      BY <2>3
    <3>2. /\ Low(m, i) \in Nat /\ Low(m, i + 1) \in Nat
          /\ i <= m => Low(m, i) = Low(m, i + 1) + 1
          /\ i > m => Low(m, i) = 0 /\ Low(m, i + 1) = 0
      BY DEF Low
    <3>3. ws[i].open = (IF i > m THEN 1 ELSE 0) /\ ws[i + 1].role = "argument"
      BY <3>1 DEF Shape
    <3>4. PICK a \in Nat, b \in Int : a = Low(m, i + 1) /\ b = h + m + l - (i + 1) /\ b >= 0
      BY <3>1, <3>2
    <3>5. f[i + 1] = a..b
      BY <1>2, <3>1, <3>4
    <3>6. /\ ws[i].open = 0 => Ahead(ws, i, f[i + 1], bound) = (a + 1)..(b + 1)
          /\ ws[i].open = 1 => Ahead(ws, i, f[i + 1], bound) = (a + 1)..(b + 1) \cup {0}
      <4>1. i \in Nat /\ i # Len(ws)
        BY <2>0, <2>3
      <4> QED
        BY <3>3, <3>4, <3>5, <4>1, AheadOfArgument
    <3>7. f[i] = Low(m, i)..(b + 1)
      <4>1. h + m + l - i = b + 1
        BY <3>4
      <4> QED
        BY <1>2, <3>1, <4>1
    <3>8. CASE i <= m
      <4>1. Low(m, i) = a + 1 /\ ws[i].open = 0
        BY <3>2, <3>3, <3>4, <3>8
      <4> QED
        BY <3>6, <3>7, <4>1
    <3>9. CASE i > m
      <4>1. Low(m, i) = 0 /\ a = 0 /\ ws[i].open = 1
        BY <3>2, <3>3, <3>4, <3>9
      <4>2. 0..(b + 1) = (0 + 1)..(b + 1) \cup {0}
        BY <3>4
      <4> QED
        BY <3>6, <3>7, <4>1, <4>2
    <3> QED
      BY <3>8, <3>9
  <2> QED
    BY <2>1, <2>2, <2>3
<1>4. promised(ws, bound) = f[1] \cap 0..bound
  <2>1. Promises(f, ws, n, bound)
    BY <1>2, <1>3 DEF Promises
  <2>2. n = Len(ws)
    BY DEF Shape
  <2> QED
    BY <2>1, <2>2, PromisedIs
<1>5. f[1] = m..(h + m + l - 1)
  <2>1. 1 \in 1..(m + l) /\ Low(m, 1) = m
    BY DEF Low
  <2> QED
    BY <1>2, <2>1
<1> QED
  BY <1>4, <1>5 DEF Promised

(* Every bracket that is opened is closed.                                 *)
LEMMA BracketsClosed ==
  ASSUME NEW ws, NEW m \in Nat, NEW l \in Nat, NEW n \in Nat, n = m + l \/ n = m + l + 1,
         NEW role, NEW t, Shape(ws, n, m, l, role, t)
  PROVE  total([i \in 1..Len(ws) |-> ws[i].open]) = total([i \in 1..Len(ws) |-> ws[i].close])
<1>1. Len(ws) = n
  BY DEF Shape
<1>2. PICK opens : opens = [i \in 1..Len(ws) |-> ws[i].open]
  OBVIOUS
<1>3. PICK closes : closes = [i \in 1..Len(ws) |-> ws[i].close]
  OBVIOUS
<1>4. Len(opens) = n /\ \A i \in 1..n : opens[i] = IF m < i /\ i <= m + l THEN 1 ELSE 0
  BY <1>1, <1>2 DEF Shape
<1>5. Len(closes) = n /\ \A i \in 1..n : closes[i] = IF i = n THEN l ELSE 0
  BY <1>1, <1>3 DEF Shape
<1> DEFINE o(i) == IF i <= m THEN 0 ELSE IF i <= m + l THEN i - m ELSE l
           c(i) == IF i = n THEN l ELSE 0
<1>6. PICK q : q = [i \in 0..n |-> o(i)]
  OBVIOUS
<1>7. PICK r : r = [i \in 0..n |-> c(i)]
  OBVIOUS
<1>8. Sums(q, opens, n)
  <2>1. \A i \in 0..n : q[i] = o(i)
    BY <1>6
  <2>2. \A i \in 1..n : i \in 0..n /\ i - 1 \in 0..n
    OBVIOUS
  <2>3. \A i \in 1..n : o(i) = o(i - 1) + opens[i]
    BY <1>4
  <2>4. 0 \in 0..n /\ o(0) = 0
    OBVIOUS
  <2> HIDE DEF o
  <2> QED
    BY <2>1, <2>2, <2>3, <2>4 DEF Sums
<1>9. total(opens) = l
  <2>1. q[n] = o(n) /\ o(n) = l
    BY <1>6
  <2> QED
    BY <1>4, <1>8, <2>1, TotalIs
<1>10. CASE n = 0
  <2>1. l = 0
    BY <1>10
  <2>2. PICK z : z = [i \in 0..0 |-> 0]
    OBVIOUS
  <2>3. Sums(z, closes, n)
    BY <1>10, <2>2 DEF Sums
  <2>4. total(closes) = z[n]
    BY <1>5, <2>3, TotalIs
  <2> QED
    BY <1>2, <1>3, <1>9, <1>10, <2>1, <2>2, <2>4
<1>11. CASE n # 0
  <2>1. \A i \in 0..n : r[i] = c(i)
    BY <1>7
  <2>2. \A i \in 1..n : i \in 0..n /\ i - 1 \in 0..n
    OBVIOUS
  <2>3. \A i \in 1..n : c(i) = c(i - 1) + closes[i]
    BY <1>5, <1>11
  <2>4. 0 \in 0..n /\ c(0) = 0 /\ n \in 0..n /\ c(n) = l
    BY <1>11
  <2> HIDE DEF c
  <2>5. Sums(r, closes, n)
    BY <2>1, <2>2, <2>3, <2>4 DEF Sums
  <2>6. total(closes) = r[n]
    BY <1>5, <2>5, TotalIs
  <2> QED
    BY <1>2, <1>3, <1>9, <2>1, <2>4, <2>6
<1> QED
  BY <1>10, <1>11

-----------------------------------------------------------------------------
(* The syntax has this shape.                                              *)
Unclosed(w, open, role) ==
  w \in PlainWords /\ w.open = open /\ w.close = 0 /\ w.role = role

LEMMA ThreeParts ==
  ASSUME NEW S, NEW a \in Seq(S), NEW b \in Seq(S), NEW c \in Seq(S), NEW x, x = (a \o b) \o c,
         NEW m \in Nat, m = Len(a), NEW l \in Nat, l = Len(b), NEW e \in Nat, e = Len(c)
  PROVE  /\ x \in Seq(S) /\ Len(x) = m + l + e
         /\ \A i \in 1..(m + l + e) :
              x[i] = IF i <= m THEN a[i] ELSE IF i <= m + l THEN b[i - m] ELSE c[i - (m + l)]
<1>1. PICK y : y = a \o b
  OBVIOUS
<1>2. /\ y \in Seq(S) /\ Len(y) = m + l
      /\ \A i \in 1..(m + l) : y[i] = IF i <= m THEN a[i] ELSE b[i - m]
  BY <1>1, ConcatProperties
<1>3. /\ x \in Seq(S) /\ Len(x) = (m + l) + e
      /\ \A i \in 1..((m + l) + e) : x[i] = IF i <= m + l THEN y[i] ELSE c[i - (m + l)]
  <2>1. x = y \o c /\ y \in Seq(S)
    BY <1>1, <1>2
  <2>2. /\ x \in Seq(S) /\ Len(x) = Len(y) + Len(c)
        /\ \A i \in 1..(Len(y) + Len(c)) : x[i] = IF i <= Len(y) THEN y[i] ELSE c[i - Len(y)]
    BY <2>1, ConcatProperties
  <2> QED
    BY <1>2, <2>2
<1>4. ASSUME NEW i \in 1..(m + l + e)
      PROVE  x[i] = IF i <= m THEN a[i] ELSE IF i <= m + l THEN b[i - m] ELSE c[i - (m + l)]
  BY <1>2, <1>3
<1> QED
  BY <1>3, <1>4

LEMMA ClosedShape ==
  ASSUME NEW x \in Seq(PlainWords), NEW n \in Nat \ {0}, n = Len(x), NEW m \in Nat, NEW l \in Nat,
         NEW role, NEW t,
         \A i \in 1..n : /\ x[i].open = IF m < i /\ i <= m + l THEN 1 ELSE 0
                         /\ x[i].close = 0
                         /\ x[i].role = IF i <= m + l THEN "argument" ELSE role
                         /\ i > m + l => x[i].times = t
  PROVE  Shape(closedAtEnd(x, l), n, m, l, role, t)
<1>1. PICK w : w = x[n]
  OBVIOUS
<1>2. w \in PlainWords
  BY <1>1, ElementOfSeq
<1>3. PICK e : e = closed(w, l)
  OBVIOUS
<1>4. e \in PlainWords /\ e.open = w.open /\ e.close = w.close + l /\ e.role = w.role /\ e.times = w.times
  <2>1. e \in PlainWords
    BY <1>2, <1>3, WordChanged DEF Roles
  <2>2. e.open = w.open /\ e.close = w.close + l /\ e.role = w.role /\ e.times = w.times
    BY <1>2, <1>3 DEF closed, PlainWords, WordsOf
  <2> QED
    BY <2>1, <2>2
<1>5. PICK y : y = closedAtEnd(x, l)
  OBVIOUS
<1>6. /\ Len(y) = n /\ y[n] = e
      /\ \A i \in 1..n : i # n => y[i] = x[i]
  <2>1. y = [x EXCEPT ![n] = e]
    BY <1>1, <1>3, <1>5 DEF closedAtEnd
  <2> QED
    BY <1>4, <2>1, ExceptSeq
<1>7. ASSUME NEW i \in 1..n
      PROVE  /\ y[i].open = IF m < i /\ i <= m + l THEN 1 ELSE 0
             /\ y[i].close = IF i = n THEN l ELSE 0
             /\ y[i].role = IF i <= m + l THEN "argument" ELSE role
             /\ i > m + l => y[i].times = t
  <2>1. CASE i = n
    BY <1>1, <1>4, <1>6, <2>1
  <2>2. CASE i # n
    BY <1>6, <2>2
  <2> QED
    BY <2>1, <2>2
<1> QED
  BY <1>5, <1>6, <1>7 DEF Shape

LEMMA VariableUnclosed ==
  ASSUME NEW p \in Parameters, TakesArguments(p), NEW i \in Nat \ {0}
  PROVE  /\ Unclosed(Variable(p, i), 0, "argument")
         /\ Unclosed(opened(Variable(p, i)), 1, "argument")
<1>1. PICK w : w = Variable(p, i)
  OBVIOUS
<1>2. w.open = 0 /\ w.close = 0 /\ w.role = "argument" /\ w \in PlainWords
  BY <1>1, VariableTyped DEF Variable, word
<1>3. opened(w) \in PlainWords
  BY <1>2, WordChanged DEF Roles
<1>4. opened(w).open = 1 /\ opened(w).close = 0 /\ opened(w).role = "argument"
  BY <1>2 DEF opened, PlainWords, WordsOf
<1> QED
  BY <1>1, <1>2, <1>3, <1>4 DEF Unclosed

EndingRole(p) == IF Unlimited(p) THEN "forever" ELSE "times"
Endings(p)    == IF ~Unlimited(p) /\ Remaining(p) = 1 THEN 0 ELSE 1

LEMMA EndingIs ==
  ASSUME NEW p \in Parameters, TakesArguments(p), p.maxArgs # p.minArgs
  PROVE  /\ Len(Ending(p)) = Endings(p)
         /\ Endings(p) = 1 => /\ Unclosed(Ending(p)[1], 0, EndingRole(p))
                              /\ ~Unlimited(p) => Ending(p)[1].times = Remaining(p)
<1>1. Unclosed(ellipsis, 0, "forever")
  <2>1. ellipsis \in PlainWords
    BY OwnWordTyped DEF ellipsis, OwnNames, Roles
  <2> QED
    BY <2>1 DEF ellipsis, word, Unclosed
<1>2. CASE Unlimited(p)
  <2>1. Ending(p) = <<ellipsis>>
    BY <1>2 DEF Ending
  <2> QED
    BY <1>1, <1>2, <2>1 DEF EndingRole, Endings
<1>3. CASE ~Unlimited(p)
  <2>1. PICK r \in Nat \ {0} : r = Remaining(p)
    BY <1>3, Counts
  <2>2. Unclosed(repetition(r), 0, "times") /\ repetition(r).times = r
    <3>1. PICK w \in PlainWords : w = word("{0..n}", "times")
      BY OwnWordTyped DEF OwnNames, Roles
    <3>2. repetition(r) = [w EXCEPT !.times = r]
      BY <3>1 DEF repetition
    <3>3. repetition(r) \in PlainWords
      BY <3>2, WordChanged DEF Roles
    <3>4. w.open = 0 /\ w.close = 0 /\ w.role = "times"
      BY <3>1 DEF word
    <3>5. repetition(r).open = 0 /\ repetition(r).close = 0 /\ repetition(r).role = "times"
          /\ repetition(r).times = r
      BY <3>2, <3>4 DEF PlainWords, WordsOf
    <3> QED
      BY <3>3, <3>5 DEF Unclosed
  <2>3. Ending(p) = IF r = 1 THEN <<>> ELSE <<repetition(r)>>
    BY <1>3, <2>1 DEF Ending
  <2> QED
    BY <1>3, <2>1, <2>2, <2>3 DEF EndingRole, Endings
<1> QED
  BY <1>2, <1>3

Brackets(p) == LastNamed(p) + 1 - p.minArgs

Varies(ws, p, m, l, e) ==
  \E t : /\ Shape(ws, m + l + e, m, l, EndingRole(p), t)
         /\ e = 1 /\ ~Unlimited(p) => t = Remaining(p)

LEMMA VaryingShape ==
  ASSUME NEW p \in Parameters, TakesArguments(p), p.maxArgs # p.minArgs
  PROVE  Varies(argumentsOf(p), p, p.minArgs, Brackets(p), Endings(p))
<1>1. PICK m \in Nat, l \in Nat \ {0}, e \in {0, 1} : m = p.minArgs /\ l = Brackets(p) /\ e = Endings(p)
  BY Counts DEF Brackets, Endings
<1>2. PICK a, b, c : /\ a = Mandatory(p) /\ b = Optional(p) /\ c = Ending(p)
                     /\ a \in Seq(PlainWords) /\ b \in Seq(PlainWords) /\ c \in Seq(PlainWords)
                     /\ Len(a) = m /\ Len(b) = l /\ Len(c) = e
  BY <1>1, PartsOfSyntaxTyped, EndingIs DEF Brackets
<1>3. \A i \in 1..m : Unclosed(a[i], 0, "argument")
  <2>1. \A i \in 1..m : a[i] = Variable(p, i)
    BY <1>1, <1>2 DEF Mandatory
  <2> QED
    BY <2>1, VariableUnclosed
<1>4. \A i \in 1..l : Unclosed(b[i], 1, "argument")
  <2>1. \A i \in 1..l : b[i] = opened(Variable(p, m + i)) /\ m + i \in Nat \ {0}
    BY <1>1, <1>2 DEF Optional, Brackets
  <2> QED
    BY <2>1, VariableUnclosed
<1>5. PICK t : e = 1 => Unclosed(c[1], 0, EndingRole(p)) /\ c[1].times = t /\ (~Unlimited(p) => t = Remaining(p))
  BY <1>1, <1>2, EndingIs
<1>6. PICK x : x = (a \o b) \o c
  OBVIOUS
<1>7. PICK n \in Nat \ {0} : n = m + l + e
  BY <1>1
<1>8. /\ x \in Seq(PlainWords) /\ Len(x) = n
      /\ \A i \in 1..n :
           x[i] = IF i <= m THEN a[i] ELSE IF i <= m + l THEN b[i - m] ELSE c[i - (m + l)]
  <2>1. a \in Seq(PlainWords) /\ b \in Seq(PlainWords) /\ c \in Seq(PlainWords)
    BY <1>2
  <2>2. m = Len(a) /\ l = Len(b) /\ e = Len(c) /\ l \in Nat /\ e \in Nat
    BY <1>1, <1>2
  <2>3. x \in Seq(PlainWords) /\ Len(x) = m + l + e
    BY <1>6, <2>1, <2>2, ThreeParts
  <2>4. \A i \in 1..(m + l + e) :
          x[i] = IF i <= m THEN a[i] ELSE IF i <= m + l THEN b[i - m] ELSE c[i - (m + l)]
    BY <1>6, <2>1, <2>2, ThreeParts
  <2> QED
    BY <1>7, <2>3, <2>4
<1>9. ASSUME NEW i \in 1..n
      PROVE  /\ x[i].open = IF m < i /\ i <= m + l THEN 1 ELSE 0
             /\ x[i].close = 0
             /\ x[i].role = IF i <= m + l THEN "argument" ELSE EndingRole(p)
             /\ i > m + l => x[i].times = t
  <2>1. CASE i <= m
    <3>1. Unclosed(x[i], 0, "argument") /\ ~(m < i) /\ i <= m + l
      BY <1>3, <1>8, <2>1
    <3> QED
      BY <3>1 DEF Unclosed
  <2>2. CASE m < i /\ i <= m + l
    <3>1. i - m \in 1..l /\ ~(i <= m)
      BY <2>2
    <3>2. Unclosed(x[i], 1, "argument")
      BY <1>4, <1>8, <2>2, <3>1
    <3> QED
      BY <2>2, <3>2 DEF Unclosed
  <2>3. CASE i > m + l
    <3>1. e = 1 /\ i - (m + l) = 1 /\ ~(i <= m) /\ ~(i <= m + l)
      BY <1>1, <1>7, <2>3
    <3>2. x[i] = c[1]
      BY <1>8, <3>1
    <3> QED
      BY <1>5, <3>1, <3>2 DEF Unclosed
  <2> QED
    BY <2>1, <2>2, <2>3
<1>10. Shape(closedAtEnd(x, l), n, m, l, EndingRole(p), t)
  BY <1>8, <1>9, ClosedShape
<1>11. argumentsOf(p) = closedAtEnd(x, l)
  BY <1>2, <1>6, SyntaxIs DEF argumentsOf, TakesArguments
<1>12. e = 1 /\ ~Unlimited(p) => t = Remaining(p)
  BY <1>5
<1> QED
  BY <1>1, <1>7, <1>10, <1>11, <1>12 DEF Varies

Plainly(ws, n, m, l) == \E role, t : Shape(ws, n, m, l, role, t)

LEMMA PlainPromise ==
  ASSUME NEW ws, NEW m, NEW l, NEW n, NEW bound, Plainly(ws, n, m, l),
         m \in Nat, l \in Nat, n \in Nat, bound \in Nat, n = m + l
  PROVE  Promised(ws, bound, m, n)
<1>1. PICK role, t : Shape(ws, n, m, l, role, t)
  BY DEF Plainly
<1> QED
  BY <1>1, PromisedWithoutEnding

LEMMA EndlessPromise ==
  ASSUME NEW ws, NEW t, NEW m, NEW l, NEW n, NEW bound, NEW k, Shape(ws, n, m, l, "forever", t),
         m \in Nat, l \in Nat \ {0}, n \in Nat, bound \in Nat, n = m + l + 1,
         k = bound + m + l - 1
  PROVE  Promised(ws, bound, m, k)
<1>1. PICK role : role = "forever"
  OBVIOUS
<1>2. PICK h \in Nat : h = bound
  OBVIOUS
<1>3. Shape(ws, n, m, l, role, t) /\ StandsFor(role, t, bound, h)
  BY <1>1, <1>2 DEF StandsFor
<1>4. k = h + m + l - 1
  BY <1>2
<1> QED
  BY <1>3, <1>4, PromisedWithEnding

LEMMA CountedPromise ==
  ASSUME NEW ws, NEW t, NEW m, NEW l, NEW n, NEW bound, NEW k, Shape(ws, n, m, l, "times", t),
         m \in Nat, l \in Nat \ {0}, n \in Nat, t \in Nat, bound \in Nat, n = m + l + 1,
         k = t + m + l - 1
  PROVE  Promised(ws, bound, m, k)
<1>1. PICK role : role = "times"
  OBVIOUS
<1>2. Shape(ws, n, m, l, role, t) /\ StandsFor(role, t, bound, t)
  BY <1>1 DEF StandsFor
<1> QED
  BY <1>2, PromisedWithEnding

LEMMA NoSyntax ==
  ASSUME NEW p \in Parameters, ~TakesArguments(p)
  PROVE  /\ Shape(argumentsOf(p), 0, 0, 0, "argument", 0)
         /\ ~isCommand(p) => p.minArgs = 0 /\ p.maxArgs = 0
<1>1. argumentsOf(p) = <<>>
  BY DEF argumentsOf, TakesArguments
<1>2. p.minArgs \in Nat
  BY ParametersAssumption
<1>3. ~isCommand(p) => p.minArgs = 0 /\ p.maxArgs = 0
  BY <1>2 DEF TakesArguments, acceptsAnyArguments
<1>4. Len(<<>>) = 0 /\ \A i \in 1..0 : FALSE
  OBVIOUS
<1> QED
  BY <1>1, <1>3, <1>4 DEF Shape

LEMMA FixedShape ==
  ASSUME NEW p \in Parameters, TakesArguments(p), p.maxArgs = p.minArgs
  PROVE  Shape(argumentsOf(p), p.minArgs, p.minArgs, 0, "argument", 0)
<1>1. PICK m \in Nat : m = p.minArgs
  BY ParametersAssumption
<1>2. PICK ws : ws = Mandatory(p) /\ Len(ws) = m
  BY <1>1, PartsOfSyntaxTyped
<1>3. argumentsOf(p) = ws
  BY <1>2, SyntaxIs DEF argumentsOf, TakesArguments
<1>4. ASSUME NEW i \in 1..m PROVE Unclosed(ws[i], 0, "argument")
  <2>1. ws[i] = Variable(p, i) /\ i \in Nat \ {0}
    BY <1>1, <1>2 DEF Mandatory
  <2> QED
    BY <2>1, VariableUnclosed
<1>5. \A i \in 1..m : i <= m + 0 /\ ~(m < i)
  BY <1>1
<1> QED
  BY <1>1, <1>2, <1>3, <1>4, <1>5 DEF Shape, Unclosed

(* For every parameter, whatever its bounds and metavars, and every bound  *)
(* on what an ellipsis stands for: describeArguments shows the numbers of  *)
(* arguments that willAcceptArgument allows, in balanced brackets          *)
(* (argdescriber_impl.h:84-141).                                           *)
THEOREM CountsDenoted ==
  ASSUME NEW p \in Parameters, NEW bound \in Nat
  PROVE  LET ws == argumentsOf(p)
         IN  /\ promised(ws, bound) = accepted(p, bound) \/ isCommand(p)
             /\ total([i \in 1..Len(ws) |-> ws[i].open]) = total([i \in 1..Len(ws) |-> ws[i].close])
<1> DEFINE ws == argumentsOf(p)
           Closed == total([i \in 1..Len(ws) |-> ws[i].open]) = total([i \in 1..Len(ws) |-> ws[i].close])
<1>0. p.minArgs \in Nat /\ p.maxArgs \in Nat \cup {-1}
  BY ParametersAssumption
<1> HIDE DEF ws
<1>1. CASE ~TakesArguments(p)
  <2>1. Shape(ws, 0, 0, 0, "argument", 0)
    BY <1>1, NoSyntax DEF ws
  <2>2. 0 \in Nat /\ 0 = 0 + 0
    OBVIOUS
  <2>3. Closed
    BY <2>1, <2>2, BracketsClosed
  <2>4. promised(ws, bound) = (0..0) \cap 0..bound
    <3>1. PICK z \in Nat : z = 0
      OBVIOUS
    <3>2. Plainly(ws, z, z, z) /\ z = z + z
      BY <2>1, <3>1 DEF Plainly
    <3>3. Promised(ws, bound, z, z)
      BY <3>2, PlainPromise
    <3> QED
      BY <3>1, <3>3 DEF Promised
  <2>5. ~isCommand(p) => accepted(p, bound) = (0..0) \cap 0..bound
    <3> SUFFICES ASSUME ~isCommand(p) PROVE accepted(p, bound) = (0..0) \cap 0..bound
      OBVIOUS
    <3>1. p.minArgs = 0 /\ p.maxArgs = 0
      BY <1>1, NoSyntax
    <3> QED
      BY <3>1 DEF accepted
  <2> QED
    BY <2>3, <2>4, <2>5 DEF ws
<1>2. CASE TakesArguments(p) /\ p.maxArgs = p.minArgs
  <2>1. PICK m \in Nat : m = p.minArgs /\ m = p.maxArgs
    BY <1>0, <1>2
  <2>2. Shape(ws, m, m, 0, "argument", 0) /\ 0 \in Nat /\ m = m + 0
    BY <1>2, <2>1, FixedShape DEF ws
  <2>3. Closed
    BY <2>2, BracketsClosed
  <2>4. promised(ws, bound) = (m..m) \cap 0..bound
    <3>1. PICK z \in Nat : z = 0
      OBVIOUS
    <3>2. Plainly(ws, m, m, z) /\ m = m + z
      BY <2>2, <3>1 DEF Plainly
    <3>3. Promised(ws, bound, m, m)
      BY <3>2, PlainPromise
    <3> QED
      BY <3>3 DEF Promised
  <2>5. accepted(p, bound) = (m..m) \cap 0..bound
    BY <2>1 DEF accepted
  <2> QED
    BY <2>3, <2>4, <2>5 DEF ws
<1>3. CASE TakesArguments(p) /\ p.maxArgs # p.minArgs
  <2>1. PICK m \in Nat, l \in Nat \ {0}, e \in {0, 1} : m = p.minArgs /\ l = Brackets(p) /\ e = Endings(p)
    BY <1>3, Counts DEF Brackets, Endings
  <2>2. PICK n \in Nat : n = m + l + e
    BY <2>1
  <2>3. PICK role, t : /\ role = EndingRole(p) /\ Shape(ws, n, m, l, role, t)
                       /\ e = 1 /\ ~Unlimited(p) => t = Remaining(p)
    <3>1. Varies(argumentsOf(p), p, p.minArgs, Brackets(p), Endings(p))
      BY <1>3, VaryingShape
    <3>2. Varies(ws, p, m, l, e)
      BY <2>1, <3>1, Zenon DEF ws
    <3>3. PICK t : /\ Shape(ws, m + l + e, m, l, EndingRole(p), t)
                   /\ e = 1 /\ ~Unlimited(p) => t = Remaining(p)
      BY <3>2, Zenon DEF Varies
    <3>4. \E role : role = EndingRole(p)
      OBVIOUS
    <3> QED
      BY <2>2, <3>3, <3>4, Zenon
  <2>4. Closed
    <3>1. n = m + l \/ n = m + l + 1
      BY <2>1, <2>2
    <3> QED
      BY <2>1, <2>2, <2>3, <3>1, BracketsClosed
  <2>5. CASE Unlimited(p)
    <3>1. e = 1 /\ EndingRole(p) = "forever" /\ p.maxArgs = -1
      BY <1>3, <2>1, <2>5, Counts DEF Endings, EndingRole
    <3>2. n = m + l + 1 /\ Shape(ws, n, m, l, "forever", t)
      BY <2>2, <2>3, <3>1
    <3>3. PICK k \in Nat : k = bound + m + l - 1 /\ k >= bound
      BY <2>1
    <3>4. Promised(ws, bound, m, k)
      BY <3>2, <3>3, EndlessPromise
    <3>5. accepted(p, bound) = (m..bound) \cap 0..bound
      BY <2>1, <3>1 DEF accepted
    <3>6. (m..bound) \cap 0..bound = (m..k) \cap 0..bound
      BY <3>3
    <3> QED
      BY <2>4, <3>4, <3>5, <3>6 DEF ws, Promised
  <2>6. CASE ~Unlimited(p)
    <3>1. PICK r \in Nat \ {0}, k \in Nat : /\ r = Remaining(p) /\ k = p.maxArgs /\ m = 0
                                            /\ r + l - 1 = k
      <4>1. /\ p.minArgs = 0 /\ LastNamed(p) = Limit(p) /\ p.maxArgs \in Nat /\ Limit(p) \in Nat
            /\ Remaining(p) \in Nat \ {0}
        BY <1>3, <2>6, Counts
      <4>2. l = Limit(p) + 1 /\ Remaining(p) + l - 1 = p.maxArgs
        BY <2>1, <4>1 DEF Brackets, Remaining
      <4> QED
        BY <2>1, <4>1, <4>2
    <3>2. accepted(p, bound) = (0..k) \cap 0..bound
      BY <2>1, <3>1 DEF accepted
    <3>3. CASE e = 0
      <4>1. r = 1
        BY <2>1, <2>6, <3>1, <3>3 DEF Endings
      <4>2. n = m + l /\ m = 0 /\ n = k
        BY <2>2, <3>1, <3>3, <4>1
      <4>3. promised(ws, bound) = (m..n) \cap 0..bound
        <5>1. Plainly(ws, n, m, l)
          BY <2>3 DEF Plainly
        <5>2. Promised(ws, bound, m, n)
          BY <4>2, <5>1, PlainPromise
        <5> QED
          BY <5>2 DEF Promised
      <4> QED
        BY <2>4, <3>2, <4>2, <4>3 DEF ws
    <3>4. CASE e = 1
      <4>1. t = r /\ EndingRole(p) = "times"
        BY <2>3, <2>6, <3>1, <3>4 DEF EndingRole
      <4>2. n = m + l + 1 /\ Shape(ws, n, m, l, "times", t) /\ r \in Nat
        BY <2>2, <2>3, <3>4, <4>1
      <4>3. promised(ws, bound) = (m..k) \cap 0..bound
        <5>1. t \in Nat /\ k = t + m + l - 1
          BY <3>1, <4>1
        <5>2. Promised(ws, bound, m, k)
          BY <4>2, <5>1, CountedPromise
        <5> QED
          BY <5>2 DEF Promised
      <4> QED
        BY <2>4, <3>1, <3>2, <4>3 DEF ws
    <3> QED
      BY <2>1, <3>3, <3>4
  <2> QED
    BY <2>5, <2>6
<1> QED
  BY <1>1, <1>2, <1>3

(* In every help the syntax of every defined parameter denotes what the    *)
(* parser accepts (argdescriber_impl.h:84-141).                            *)
THEOREM EveryCountDenoted == HelpSpec => []ArgumentsDenoteCounts
<1>1. HelpInv => ArgumentsDenoteCounts
  <2> SUFFICES ASSUME HelpInv, NEW p \in Defined
               PROVE  LET ws == argumentsOf(p)
                      IN  /\ promised(ws, 7) = accepted(p, 7) \/ isCommand(p)
                          /\ total([i \in 1..Len(ws) |-> ws[i].open])
                               = total([i \in 1..Len(ws) |-> ws[i].close])
    BY DEF ArgumentsDenoteCounts
  <2>1. describe_arguments(definition) \in Seq(Parameters)
    BY DescribedTyped DEF HelpInv
  <2>2. p \in Parameters
    BY <2>1, ElementOfSeq DEF Defined
  <2>3. 7 \in Nat
    OBVIOUS
  <2> QED
    BY <2>2, <2>3, CountsDenoted
<1> QED
  BY <1>1, HelpInvInit, HelpInvNext, PTL DEF HelpSpec

-----------------------------------------------------------------------------
(***************************************************************************)
(* The help shows what was defined, for every definition.                  *)
(*                                                                         *)
(* A listing L says which elements of a sequence are entries or headings,  *)
(* what an entry shows, over what a heading stands, and the order of what  *)
(* is shown.  Listed(L, s, D, H): s shows each thing in D once, in order,  *)
(* and only things in H may lack a heading.  Listed is closed under        *)
(* concatenation, so the script is followed through format part by part:   *)
(* argument, part of a group, group, help, and likewise the usage.         *)
(*                                                                         *)
(* The invariant ShowInv says that what the Writer has printed so far are  *)
(* the words of the calls that it has had, in the order of the calls.      *)
(***************************************************************************)

(* Lists of things in a sequence of calls.  L says which calls are entries,*)
(* which thing an entry shows, which calls are headings, over which things *)
(* a heading stands, and the order of the things.                          *)
ShownAt(L, s) == { i \in 1..Len(s) : s[i] \in L.entries }

NoHeads(L, s) == \A k \in 1..Len(s) : s[k] \notin L.heads

HeadAt(L, s, i, h) == s[h] \in L.heads /\ \A k \in (h + 1)..(i - 1) : s[k] \notin L.heads

HeadedAs(L, s, i, d) == \E h \in 1..(i - 1) : HeadAt(L, s, i, h) /\ <<s[h], d>> \in L.over

Unheaded(L, s, i) == \A k \in 1..(i - 1) : s[k] \notin L.heads

(* f tells what the entries of s show: everything in D, and nothing else.  *)
(* An entry has a heading in s, unless it shows something in H.            *)
Lists(L, s, D, H, f) ==
  /\ \A d \in D : \E i \in ShownAt(L, s) : f[i] = d
  /\ \A i \in ShownAt(L, s) :
       /\ f[i] \in D /\ <<s[i], f[i]>> \in L.shows
       /\ HeadedAs(L, s, i, f[i]) \/ (f[i] \in H /\ Unheaded(L, s, i))
  /\ \A i, j \in ShownAt(L, s) : i < j => <<f[i], f[j]>> \in L.order

Listed(L, s, D, H) == \E f : Lists(L, s, D, H, f)

(* u is s, of length n, and then t, of length m.                           *)
Parts(s, t, u, n, m) ==
  /\ n \in Nat /\ m \in Nat /\ n = Len(s) /\ m = Len(t) /\ Len(u) = n + m
  /\ \A x \in 1..n : x \in 1..(n + m) /\ u[x] = s[x]
  /\ \A x \in 1..m : n + x \in 1..(n + m) /\ u[n + x] = t[x]
  /\ \A i \in 1..(n + m) : i \in 1..n \/ \E x \in 1..m : i = n + x

LEMMA ConcatParts ==
  ASSUME NEW S, NEW s \in Seq(S), NEW t \in Seq(S)
  PROVE  \E n \in Nat, m \in Nat : Parts(s, t, s \o t, n, m)
<1>1. PICK n \in Nat, m \in Nat : n = Len(s) /\ m = Len(t)
  BY LenProperties
<1>2. PICK u : u = s \o t
  OBVIOUS
<1>3. /\ \A x \in 1..n : u[x] = s[x]
      /\ \A x \in 1..m : u[n + x] = t[x]
  BY <1>1, <1>2, ConcatPlaces DEF Begins
<1>4. ASSUME NEW x \in 1..m PROVE n + x \in 1..(n + m)
  BY <1>1
<1>5. ASSUME NEW x \in 1..n PROVE x \in 1..(n + m)
  BY <1>1
<1>6. ASSUME NEW i \in 1..(n + m) PROVE i \in 1..n \/ \E x \in 1..m : i = n + x
  <2>1. i \in 1..n \/ (i - n \in 1..m /\ i = n + (i - n))
    BY <1>1
  <2> QED
    BY <2>1
<1>7. Parts(s, t, u, n, m)
  <2>1. \A x \in 1..n : x \in 1..(n + m) /\ u[x] = s[x]
    BY <1>3, <1>5
  <2>2. \A x \in 1..m : n + x \in 1..(n + m) /\ u[n + x] = t[x]
    BY <1>3, <1>4
  <2>3. Len(u) = n + m
    BY <1>1, <1>2, ConcatPlaces
  <2> QED
    BY <1>1, <1>6, <2>1, <2>2, <2>3, Zenon DEF Parts
<1> QED
  BY <1>2, <1>7

(* The headings of the places in both parts of a sequence.                 *)
LEMMA HeadsAhead ==
  ASSUME NEW L, NEW s, NEW t, NEW u, NEW n \in Nat, NEW m \in Nat, Parts(s, t, u, n, m)
  PROVE  /\ \A i \in 1..n : \A d : HeadedAs(L, s, i, d) => HeadedAs(L, u, i, d)
         /\ \A i \in 1..n : Unheaded(L, s, i) => Unheaded(L, u, i)
         /\ \A i \in 1..m : \A d : HeadedAs(L, t, i, d) => HeadedAs(L, u, n + i, d)
         /\ \A i \in 1..m : NoHeads(L, s) /\ Unheaded(L, t, i) => Unheaded(L, u, n + i)
<1>1. n \in Nat /\ m \in Nat
  BY DEF Parts
<1>2. /\ \A x \in 1..n : u[x] = s[x]
      /\ \A x \in 1..m : u[n + x] = t[x]
  BY DEF Parts
<1>3. ASSUME NEW i \in 1..n, NEW d, HeadedAs(L, s, i, d) PROVE HeadedAs(L, u, i, d)
  <2>1. PICK h \in 1..(i - 1) : HeadAt(L, s, i, h) /\ <<s[h], d>> \in L.over
    BY <1>3 DEF HeadedAs
  <2>2. h \in 1..n /\ u[h] = s[h] /\ \A k \in (h + 1)..(i - 1) : k \in 1..n /\ u[k] = s[k]
    BY <1>1, <1>2
  <2> QED
    BY <2>1, <2>2 DEF HeadedAs, HeadAt
<1>4. ASSUME NEW i \in 1..n, Unheaded(L, s, i) PROVE Unheaded(L, u, i)
  <2>1. \A k \in 1..(i - 1) : k \in 1..n /\ u[k] = s[k]
    BY <1>1, <1>2
  <2> QED
    BY <1>4, <2>1 DEF Unheaded
<1>5. ASSUME NEW i \in 1..m, NEW d, HeadedAs(L, t, i, d) PROVE HeadedAs(L, u, n + i, d)
  <2>1. PICK h \in 1..(i - 1) : HeadAt(L, t, i, h) /\ <<t[h], d>> \in L.over
    BY <1>5 DEF HeadedAs
  <2>2. n + h \in 1..(n + i - 1) /\ u[n + h] = t[h]
    BY <1>1, <1>2
  <2>3. ASSUME NEW k \in (n + h + 1)..(n + i - 1) PROVE u[k] \notin L.heads
    <3>1. PICK x \in (h + 1)..(i - 1) : k = n + x
      <4>1. k - n \in (h + 1)..(i - 1) /\ k = n + (k - n)
        BY <1>1
      <4> QED
        BY <4>1
    <3>2. x \in 1..m
      BY <1>1
    <3>3. u[k] = t[x]
      BY <1>2, <3>1, <3>2
    <3>4. t[x] \notin L.heads
      BY <2>1, <3>1 DEF HeadAt
    <3> QED
      BY <3>3, <3>4
  <2>4. HeadAt(L, u, n + i, n + h) /\ <<u[n + h], d>> \in L.over
    <3>1. u[n + h] \in L.heads /\ <<u[n + h], d>> \in L.over
      BY <2>1, <2>2 DEF HeadAt
    <3> QED
      BY <2>3, <3>1 DEF HeadAt
  <2> QED
    BY <2>2, <2>4 DEF HeadedAs
<1>6. ASSUME NEW i \in 1..m, NoHeads(L, s), Unheaded(L, t, i) PROVE Unheaded(L, u, n + i)
  <2> SUFFICES ASSUME NEW k \in 1..(n + i - 1) PROVE u[k] \notin L.heads
    BY DEF Unheaded
  <2>1. CASE k <= n
    <3>1. k \in 1..n
      BY <1>1, <2>1
    <3>2. n = Len(s)
      BY DEF Parts
    <3> QED
      BY <1>2, <1>6, <3>1, <3>2 DEF NoHeads
  <2>2. CASE ~(k <= n)
    <3>1. PICK x \in 1..(i - 1) : k = n + x
      <4>1. k - n \in 1..(i - 1) /\ k = n + (k - n)
        BY <1>1, <2>2
      <4> QED
        BY <4>1
    <3>2. x \in 1..m
      BY <1>1
    <3>3. u[k] = t[x]
      BY <1>2, <3>1, <3>2
    <3>4. t[x] \notin L.heads
      BY <1>6, <3>1 DEF Unheaded
    <3> QED
      BY <3>3, <3>4
  <2> QED
    BY <2>1, <2>2
<1> QED
  BY <1>1, <1>3, <1>4, <1>5, <1>6

(* What a sequence shows in two parts.                                     *)
LEMMA ListedParts ==
  ASSUME NEW L, NEW s, NEW t, NEW u, NEW n \in Nat, NEW m \in Nat, Parts(s, t, u, n, m), NEW D, NEW E, NEW H,
         Listed(L, s, D, H), Listed(L, t, E, H), NoHeads(L, s) \/ H = {},
         \A d \in D, e \in E : <<d, e>> \in L.order
  PROVE  Listed(L, u, D \cup E, H)
<1>1. n \in Nat /\ m \in Nat /\ n = Len(s) /\ m = Len(t)
  BY DEF Parts
<1>2. Len(u) = n + m
  BY DEF Parts
<1>3. /\ \A x \in 1..n : u[x] = s[x]
      /\ \A x \in 1..m : u[n + x] = t[x]
  BY DEF Parts
<1>4. PICK f, g : Lists(L, s, D, H, f) /\ Lists(L, t, E, H, g)
  BY DEF Listed
<1>5. PICK w : w = [i \in 1..(n + m) |-> IF i <= n THEN f[i] ELSE g[i - n]]
  OBVIOUS
<1>6. /\ \A x \in 1..n : x \in 1..(n + m) /\ w[x] = f[x]
      /\ \A x \in 1..m : n + x \in 1..(n + m) /\ w[n + x] = g[x]
  <2>1. ASSUME NEW x \in 1..n PROVE x \in 1..(n + m) /\ w[x] = f[x]
    BY <1>1, <1>5
  <2>2. ASSUME NEW x \in 1..m PROVE n + x \in 1..(n + m) /\ w[n + x] = g[x]
    <3>1. n + x \in 1..(n + m) /\ ~(n + x <= n) /\ n + x - n = x
      BY <1>1
    <3> QED
      BY <1>5, <3>1
  <2> QED
    BY <2>1, <2>2
<1>7. \A i \in 1..(n + m) : i \in 1..n \/ \E x \in 1..m : i = n + x
  BY DEF Parts
<1>8. /\ \A x \in 1..n : x \in ShownAt(L, u) <=> x \in ShownAt(L, s)
      /\ \A x \in 1..m : n + x \in ShownAt(L, u) <=> x \in ShownAt(L, t)
  <2>1. ASSUME NEW x \in 1..n PROVE x \in ShownAt(L, u) <=> x \in ShownAt(L, s)
    BY <1>1, <1>2, <1>3, <1>6 DEF ShownAt
  <2>2. ASSUME NEW x \in 1..m PROVE n + x \in ShownAt(L, u) <=> x \in ShownAt(L, t)
    <3>1. u[n + x] = t[x]
      BY <1>3
    <3>2. n + x \in 1..Len(u) /\ x \in 1..Len(t)
      BY <1>1, <1>2, <1>6
    <3> QED
      BY <3>1, <3>2 DEF ShownAt
  <2> QED
    BY <2>1, <2>2
<1>9. ShownAt(L, s) \subseteq 1..n /\ ShownAt(L, t) \subseteq 1..m /\ ShownAt(L, u) \subseteq 1..(n + m)
  BY <1>1, <1>2 DEF ShownAt
<1>10. ASSUME NEW d \in D \cup E PROVE \E i \in ShownAt(L, u) : w[i] = d
  <2>1. CASE d \in D
    <3>1. PICK x \in ShownAt(L, s) : f[x] = d
      BY <1>4, <2>1 DEF Lists
    <3> QED
      BY <1>6, <1>8, <1>9, <3>1
  <2>2. CASE d \in E
    <3>1. PICK x \in ShownAt(L, t) : g[x] = d
      BY <1>4, <2>2 DEF Lists
    <3> QED
      BY <1>6, <1>8, <1>9, <3>1
  <2> QED
    BY <2>1, <2>2
<1>11. ASSUME NEW i \in ShownAt(L, u)
       PROVE  /\ w[i] \in D \cup E /\ <<u[i], w[i]>> \in L.shows
              /\ HeadedAs(L, u, i, w[i]) \/ (w[i] \in H /\ Unheaded(L, u, i))
  <2>1. CASE i \in 1..n
    <3>1. i \in ShownAt(L, s) /\ w[i] = f[i] /\ u[i] = s[i]
      BY <1>3, <1>6, <1>8, <2>1
    <3>2. /\ f[i] \in D /\ <<s[i], f[i]>> \in L.shows
          /\ HeadedAs(L, s, i, f[i]) \/ (f[i] \in H /\ Unheaded(L, s, i))
      BY <1>4, <3>1 DEF Lists
    <3>3. /\ HeadedAs(L, s, i, f[i]) => HeadedAs(L, u, i, f[i])
          /\ Unheaded(L, s, i) => Unheaded(L, u, i)
      BY <1>1, <2>1, HeadsAhead
    <3> QED
      BY <3>1, <3>2, <3>3
  <2>2. ASSUME NEW x \in 1..m, i = n + x
        PROVE  /\ w[i] \in D \cup E /\ <<u[i], w[i]>> \in L.shows
               /\ HeadedAs(L, u, i, w[i]) \/ (w[i] \in H /\ Unheaded(L, u, i))
    <3>1. x \in ShownAt(L, t) /\ w[i] = g[x] /\ u[i] = t[x]
      <4>1. n + x \in ShownAt(L, u)
        BY <2>2
      <4> QED
        BY <1>3, <1>6, <1>8, <2>2, <4>1
    <3>2. /\ g[x] \in E /\ <<t[x], g[x]>> \in L.shows
          /\ HeadedAs(L, t, x, g[x]) \/ (g[x] \in H /\ Unheaded(L, t, x))
      BY <1>4, <3>1 DEF Lists
    <3>3. /\ HeadedAs(L, t, x, g[x]) => HeadedAs(L, u, i, g[x])
          /\ NoHeads(L, s) /\ Unheaded(L, t, x) => Unheaded(L, u, i)
      BY <1>1, <2>2, HeadsAhead
    <3> QED
      BY <3>1, <3>2, <3>3
  <2> QED
    BY <1>7, <1>9, <2>1, <2>2
<1>12. ASSUME NEW i \in ShownAt(L, u), NEW j \in ShownAt(L, u), i < j PROVE <<w[i], w[j]>> \in L.order
  <2>1. CASE i \in 1..n /\ j \in 1..n
    BY <1>4, <1>6, <1>8, <1>12, <2>1 DEF Lists
  <2>2. ASSUME i \in 1..n, NEW y \in 1..m, j = n + y PROVE <<w[i], w[j]>> \in L.order
    <3>1. i \in ShownAt(L, s) /\ y \in ShownAt(L, t) /\ w[i] = f[i] /\ w[j] = g[y]
      BY <1>6, <1>8, <2>2
    <3>2. f[i] \in D /\ g[y] \in E
      BY <1>4, <3>1 DEF Lists
    <3> QED
      BY <3>1, <3>2
  <2>3. ASSUME NEW x \in 1..m, NEW y \in 1..m, i = n + x, j = n + y PROVE <<w[i], w[j]>> \in L.order
    <3>1. x \in ShownAt(L, t) /\ y \in ShownAt(L, t) /\ w[i] = g[x] /\ w[j] = g[y] /\ x < y
      BY <1>1, <1>6, <1>8, <1>12, <2>3
    <3> QED
      BY <1>4, <3>1 DEF Lists
  <2>4. ASSUME NEW x \in 1..m, i = n + x PROVE j \notin 1..n
    BY <1>1, <1>12, <2>4
  <2>5. /\ i \in 1..n \/ \E x \in 1..m : i = n + x
        /\ j \in 1..n \/ \E x \in 1..m : j = n + x
    BY <1>7, <1>9
  <2> QED
    BY <2>1, <2>2, <2>3, <2>4, <2>5
<1>13. Lists(L, u, D \cup E, H, w)
  BY <1>10, <1>11, <1>12 DEF Lists
<1> QED
  BY <1>13 DEF Listed

LEMMA ListedConcat ==
  ASSUME NEW L, NEW S, NEW s \in Seq(S), NEW t \in Seq(S), NEW D, NEW E, NEW H,
         Listed(L, s, D, H), Listed(L, t, E, H), NoHeads(L, s) \/ H = {},
         \A d \in D, e \in E : <<d, e>> \in L.order
  PROVE  Listed(L, s \o t, D \cup E, H)
<1>1. PICK n \in Nat, m \in Nat : Parts(s, t, s \o t, n, m)
  BY ConcatParts
<1>2. Listed(L, s \o t, D \cup E, H)
  BY <1>1, ListedParts
<1> QED
  BY <1>1, <1>2

LEMMA NoHeadsParts ==
  ASSUME NEW L, NEW s, NEW t, NEW u, NEW n \in Nat, NEW m \in Nat, Parts(s, t, u, n, m), NoHeads(L, s), NoHeads(L, t)
  PROVE  NoHeads(L, u)
<1> SUFFICES ASSUME NEW i \in 1..(n + m) PROVE u[i] \notin L.heads
  BY DEF NoHeads, Parts
<1>1. CASE i \in 1..n
  BY <1>1 DEF Parts, NoHeads
<1>2. ASSUME NEW x \in 1..m, i = n + x PROVE u[i] \notin L.heads
  BY <1>2 DEF Parts, NoHeads
<1> QED
  BY <1>1, <1>2 DEF Parts

LEMMA NoHeadsConcat ==
  ASSUME NEW L, NEW S, NEW s \in Seq(S), NEW t \in Seq(S), NoHeads(L, s), NoHeads(L, t)
  PROVE  NoHeads(L, s \o t)
<1>1. PICK n \in Nat, m \in Nat : Parts(s, t, s \o t, n, m)
  BY ConcatParts
<1>2. NoHeads(L, s \o t)
  BY <1>1, NoHeadsParts
<1> QED
  BY <1>1, <1>2

(* Sequences without entries and headings.                                 *)
Silent(L) ==
  { s \in Seq(Calls) : \A k \in 1..Len(s) : s[k] \notin L.entries /\ s[k] \notin L.heads }

LEMMA QuietListed ==
  ASSUME NEW L, NEW H, NEW s, \A k \in 1..Len(s) : s[k] \notin L.entries /\ s[k] \notin L.heads
  PROVE  Listed(L, s, {}, H) /\ NoHeads(L, s)
<1>1. ShownAt(L, s) = {}
  BY DEF ShownAt
<1>2. Lists(L, s, {}, H, s)
  BY <1>1 DEF Lists
<1> QED
  BY <1>2 DEF Listed, NoHeads

LEMMA SilentListed ==
  ASSUME NEW L, NEW H, NEW s \in Silent(L)
  PROVE  s \in Seq(Calls) /\ Listed(L, s, {}, H) /\ NoHeads(L, s)
BY QuietListed DEF Silent

LEMMA SilentParts ==
  ASSUME NEW L, NEW s, NEW t, NEW u, NEW n \in Nat, NEW m \in Nat, Parts(s, t, u, n, m),
         \A k \in 1..Len(s) : s[k] \notin L.entries /\ s[k] \notin L.heads,
         \A k \in 1..Len(t) : t[k] \notin L.entries /\ t[k] \notin L.heads
  PROVE  \A k \in 1..Len(u) : u[k] \notin L.entries /\ u[k] \notin L.heads
<1> SUFFICES ASSUME NEW k \in 1..(n + m) PROVE u[k] \notin L.entries /\ u[k] \notin L.heads
  BY DEF Parts
<1>1. CASE k \in 1..n
  BY <1>1 DEF Parts
<1>2. ASSUME NEW x \in 1..m, k = n + x PROVE u[k] \notin L.entries /\ u[k] \notin L.heads
  BY <1>2 DEF Parts
<1> QED
  BY <1>1, <1>2 DEF Parts

LEMMA SilentConcat ==
  ASSUME NEW L, NEW s \in Silent(L), NEW t \in Silent(L)
  PROVE  s \o t \in Silent(L)
<1> DEFINE C == Calls
<1>1. /\ s \in Seq(C) /\ t \in Seq(C)
      /\ \A k \in 1..Len(s) : s[k] \notin L.entries /\ s[k] \notin L.heads
      /\ \A k \in 1..Len(t) : t[k] \notin L.entries /\ t[k] \notin L.heads
  BY DEF Silent
<1> HIDE DEF C
<1>2. PICK n \in Nat, m \in Nat : Parts(s, t, s \o t, n, m)
  BY <1>1, ConcatParts
<1>3. \A k \in 1..Len(s \o t) : (s \o t)[k] \notin L.entries /\ (s \o t)[k] \notin L.heads
  BY <1>1, <1>2, SilentParts
<1>4. s \o t \in Seq(C)
  BY <1>1, ConcatProperties
<1> QED
  BY <1>3, <1>4 DEF Silent, C

LEMMA AfterSilent ==
  ASSUME NEW L, NEW H, NEW D, NEW s \in Silent(L), NEW t \in Seq(Calls), Listed(L, t, D, H)
  PROVE  /\ s \o t \in Seq(Calls) /\ Listed(L, s \o t, D, H)
         /\ NoHeads(L, t) => NoHeads(L, s \o t)
<1> DEFINE C == Calls
<1>1. s \in Seq(C) /\ Listed(L, s, {}, H) /\ NoHeads(L, s) /\ t \in Seq(C)
  BY SilentListed
<1> HIDE DEF C
<1>2. Listed(L, s \o t, {} \cup D, H)
  BY <1>1, ListedConcat
<1>3. {} \cup D = D
  OBVIOUS
<1>4. NoHeads(L, t) => NoHeads(L, s \o t)
  BY <1>1, NoHeadsConcat
<1>5. s \o t \in Seq(C)
  BY <1>1, ConcatProperties
<1> QED
  BY <1>2, <1>3, <1>4, <1>5 DEF C

LEMMA BeforeSilent ==
  ASSUME NEW L, NEW H, NEW D, NEW s \in Seq(Calls), NEW t \in Silent(L), Listed(L, s, D, H),
         NoHeads(L, s) \/ H = {}
  PROVE  /\ s \o t \in Seq(Calls) /\ Listed(L, s \o t, D, H)
         /\ NoHeads(L, s) => NoHeads(L, s \o t)
<1> DEFINE C == Calls
<1>1. s \in Seq(C) /\ Listed(L, t, {}, H) /\ NoHeads(L, t) /\ t \in Seq(C)
  BY SilentListed
<1> HIDE DEF C
<1>2. Listed(L, s \o t, D \cup {}, H)
  BY <1>1, ListedConcat
<1>3. D \cup {} = D
  OBVIOUS
<1>4. NoHeads(L, s) => NoHeads(L, s \o t)
  BY <1>1, NoHeadsConcat
<1>5. s \o t \in Seq(C)
  BY <1>1, ConcatProperties
<1> QED
  BY <1>2, <1>3, <1>4, <1>5 DEF C

(* Many parts.                                                             *)
Together(DD, k) == UNION { DD[i] : i \in 1..k }

LEMMA InTogether ==
  ASSUME NEW DD, NEW k, NEW d
  PROVE  d \in Together(DD, k) <=> \E i \in 1..k : d \in DD[i]
BY Zenon DEF Together

LEMMA OneMoreSet ==
  ASSUME NEW k \in Nat, NEW DD
  PROVE  Together(DD, k + 1) = Together(DD, k) \cup DD[k + 1]
<1>1. \A i : i \in 1..(k + 1) <=> (i \in 1..k \/ i = k + 1)
  OBVIOUS
<1>2. ASSUME NEW d PROVE d \in Together(DD, k + 1) <=> (d \in Together(DD, k) \/ d \in DD[k + 1])
  <2>1. (\E i \in 1..(k + 1) : d \in DD[i]) <=> ((\E i \in 1..k : d \in DD[i]) \/ d \in DD[k + 1])
    BY <1>1, Zenon
  <2> QED
    BY <2>1, InTogether, Zenon
<1> QED
  BY <1>2

LEMMA ListedFlatten ==
  ASSUME NEW L, NEW H, NEW DD, NEW C, NEW n \in Nat, NEW ss \in [1..n -> Seq(C)],
         \A i \in 1..n : Listed(L, ss[i], DD[i], H),
         (\A i \in 1..n : NoHeads(L, ss[i])) \/ H = {},
         \A i, j \in 1..n : i < j => \A d \in DD[i], e \in DD[j] : <<d, e>> \in L.order
  PROVE  /\ FlattenSeq(ss) \in Seq(C)
         /\ Listed(L, FlattenSeq(ss), Together(DD, n), H)
         /\ (\A i \in 1..n : NoHeads(L, ss[i])) => NoHeads(L, FlattenSeq(ss))
<1> DEFINE Free == \A i \in 1..n : NoHeads(L, ss[i])
           U(k) == Together(DD, k)
<1>1. ss \in [1..n -> Seq(C)] /\ Listed(L, <<>>, {}, H) /\ NoHeads(L, <<>>)
  <2>1. Len(<<>>) = 0
    OBVIOUS
  <2> QED
    BY <2>1, QuietListed
<1> HIDE DEF Free
<1>2. <<>> \in Seq(C) /\ \A x, y \in Seq(C) : x \o y \in Seq(C)
  BY ConcatProperties
<1>3. PICK p \in [Nat -> Seq(C)] : Joins(p, ss, n)
  BY <1>1, <1>2, JoinsExist
<1>4. FlattenSeq(ss) = p[n]
  <2>1. ss \in Seq(Seq(C)) /\ Len(ss) = n
    BY <1>1
  <2> QED
    BY <1>3, <2>1, FlattenJoins
<1>5. /\ \A k \in Nat : p[k] \in Seq(C)
      /\ \A i \in 1..n : ss[i] \in Seq(C)
      /\ p[0] = <<>>
      /\ \A i \in 1..n : p[i] = p[i - 1] \o ss[i]
  BY <1>1, <1>3 DEF Joins
<1>6. \A i \in 1..n : Free => NoHeads(L, ss[i])
  BY DEF Free
<1>7. Free \/ H = {}
  BY DEF Free
<1> DEFINE Q(k) == Listed(L, p[k], U(k), H) /\ (Free => NoHeads(L, p[k]))
<1>8. Q(0)
  <2>1. U(0) = {}
    <3>1. ASSUME NEW d PROVE d \notin U(0)
      BY InTogether
    <3> QED
      BY <3>1
  <2>2. Listed(L, <<>>, {}, H) /\ NoHeads(L, <<>>)
    BY <1>1
  <2> QED
    BY <1>5, <2>1, <2>2
<1>9. ASSUME NEW k \in Nat, k + 1 <= n, Q(k) PROVE Q(k + 1)
  <2> HIDE DEF Q
  <2>1. k + 1 \in 1..n /\ (k + 1) - 1 = k
    BY <1>9
  <2>2. PICK s, t : s = p[k] /\ t = ss[k + 1] /\ s \in Seq(C) /\ t \in Seq(C) /\ p[k + 1] = s \o t
    BY <1>5, <2>1
  <2>3. U(k + 1) = U(k) \cup DD[k + 1]
    BY OneMoreSet
  <2>4. ASSUME NEW d \in U(k), NEW e \in DD[k + 1] PROVE <<d, e>> \in L.order
    <3>1. PICK i \in 1..k : d \in DD[i]
      BY InTogether
    <3>2. i \in 1..n /\ i < k + 1
      BY <1>9
    <3> QED
      BY <2>1, <3>1, <3>2
  <2>5. PICK D, E : D = U(k) /\ E = DD[k + 1]
    OBVIOUS
  <2>6. /\ Listed(L, s, D, H) /\ Listed(L, t, E, H) /\ (Free => NoHeads(L, s) /\ NoHeads(L, t))
        /\ \A d \in D, e \in E : <<d, e>> \in L.order
    BY <1>6, <1>9, <2>1, <2>2, <2>4, <2>5 DEF Q
  <2>7. Listed(L, s \o t, D \cup E, H)
    BY <1>7, <2>2, <2>6, ListedConcat
  <2>8. Free => NoHeads(L, s \o t)
    BY <2>2, <2>6, NoHeadsConcat
  <2> QED
    BY <2>2, <2>3, <2>5, <2>7, <2>8 DEF Q
<1> DEFINE T == { k \in Nat : k <= n => Q(k) }
<1>10. 0 \in T
  BY <1>8
<1>11. ASSUME NEW k \in Nat, k \in T PROVE k + 1 \in T
  <2> HIDE DEF Q
  <2>1. k + 1 <= n => k <= n
    OBVIOUS
  <2>2. k + 1 <= n => Q(k + 1)
    BY <1>9, <1>11, <2>1
  <2> QED
    BY <2>2
<1>12. n \in T
  <2> HIDE DEF T
  <2> QED
    BY <1>10, <1>11, Induction
<1>13. Q(n)
  <2> HIDE DEF Q
  <2> QED
    BY <1>12
<1> QED
  BY <1>4, <1>5, <1>13 DEF Free

(* A heading, perhaps with other calls, and what stands under it.          *)
IsHead(L, s) ==
  /\ Len(s) \in Nat \ {0} /\ s[1] \in L.heads
  /\ \A k \in 2..Len(s) : s[k] \notin L.heads
  /\ \A k \in 1..Len(s) : s[k] \notin L.entries

LEMMA UnderParts ==
  ASSUME NEW L, NEW s, NEW t, NEW u, NEW n \in Nat, NEW m \in Nat, Parts(s, t, u, n, m), NEW E, NEW H,
         IsHead(L, s), Listed(L, t, E, H), \A e \in E : <<s[1], e>> \in L.over
  PROVE  Listed(L, u, E, {})
<1>1. PICK g : Lists(L, t, E, H, g)
  BY DEF Listed
<1>2. n = Len(s) /\ m = Len(t)
  BY DEF Parts
<1>3. Len(u) = n + m
  BY DEF Parts
<1>4. /\ \A x \in 1..n : u[x] = s[x]
      /\ \A x \in 1..m : u[n + x] = t[x]
  BY DEF Parts
<1>5. \A i \in 1..(n + m) : i \in 1..n \/ \E x \in 1..m : i = n + x
  BY DEF Parts
<1>6. PICK w : w = [i \in 1..(n + m) |-> g[i - n]]
  OBVIOUS
<1>7. ASSUME NEW x \in 1..m PROVE n + x \in 1..(n + m) /\ w[n + x] = g[x]
  <2>1. n + x \in 1..(n + m) /\ n + x - n = x
    OBVIOUS
  <2> QED
    BY <1>6, <2>1
<1>8. ASSUME NEW x \in 1..m PROVE n + x \in ShownAt(L, u) <=> x \in ShownAt(L, t)
  <2>1. u[n + x] = t[x]
    BY <1>4
  <2>2. n + x \in 1..Len(u) /\ x \in 1..Len(t)
    BY <1>2, <1>3, <1>7
  <2> QED
    BY <2>1, <2>2 DEF ShownAt
<1>9. ASSUME NEW i \in ShownAt(L, u) PROVE \E x \in 1..m : i = n + x /\ x \in ShownAt(L, t)
  <2>1. i \in 1..(n + m) /\ u[i] \in L.entries
    BY <1>3 DEF ShownAt
  <2>2. i \notin 1..n
    BY <1>2, <1>4, <2>1 DEF IsHead
  <2>3. PICK x \in 1..m : i = n + x
    BY <1>5, <2>1, <2>2
  <2>4. n + x \in ShownAt(L, u)
    BY <2>3
  <2> QED
    BY <1>8, <2>3, <2>4
<1>10. ShownAt(L, t) \subseteq 1..m
  BY <1>2 DEF ShownAt
<1>11. ASSUME NEW e \in E PROVE \E i \in ShownAt(L, u) : w[i] = e
  <2>1. PICK x \in ShownAt(L, t) : g[x] = e
    BY <1>1 DEF Lists
  <2>2. n + x \in ShownAt(L, u) /\ w[n + x] = g[x]
    BY <1>7, <1>8, <1>10
  <2> QED
    BY <2>1, <2>2
<1>12. ASSUME NEW i \in ShownAt(L, u)
       PROVE  w[i] \in E /\ <<u[i], w[i]>> \in L.shows /\ HeadedAs(L, u, i, w[i])
  <2>1. PICK x \in 1..m : i = n + x /\ x \in ShownAt(L, t)
    BY <1>9
  <2>2. w[i] = g[x] /\ u[i] = t[x]
    <3>1. w[n + x] = g[x] /\ u[n + x] = t[x]
      BY <1>4, <1>7
    <3> QED
      BY <2>1, <3>1
  <2>3. /\ g[x] \in E /\ <<t[x], g[x]>> \in L.shows
        /\ HeadedAs(L, t, x, g[x]) \/ Unheaded(L, t, x)
    BY <1>1, <2>1 DEF Lists
  <2>4. HeadedAs(L, t, x, g[x]) => HeadedAs(L, u, i, w[i])
    BY <2>1, <2>2, HeadsAhead
  <2>5. ASSUME Unheaded(L, t, x) PROVE HeadedAs(L, u, i, w[i])
    <3>1. 1 \in 1..n /\ 1 \in 1..(i - 1) /\ n \in Nat \ {0}
      BY <1>2, <2>1 DEF IsHead
    <3>2. u[1] = s[1] /\ u[1] \in L.heads
      BY <1>4, <3>1 DEF IsHead
    <3>3. ASSUME NEW k \in 2..(i - 1) PROVE u[k] \notin L.heads
      <4>1. CASE k \in 1..n
        <5>1. u[k] = s[k] /\ k \in 2..Len(s)
          BY <1>2, <1>4, <4>1
        <5> QED
          BY <5>1 DEF IsHead
      <4>2. CASE k \notin 1..n
        <5>1. k - n \in 1..(x - 1) /\ k = n + (k - n)
          BY <2>1, <4>2
        <5>2. PICK y \in 1..(x - 1) : k = n + y
          BY <5>1
        <5>3. y \in 1..m
          OBVIOUS
        <5>4. u[k] = t[y]
          BY <1>4, <5>2, <5>3
        <5>5. t[y] \notin L.heads
          BY <2>5, <5>2 DEF Unheaded
        <5> QED
          BY <5>4, <5>5
      <4> QED
        BY <4>1, <4>2
    <3>4. HeadAt(L, u, i, 1)
      <4>1. 1 + 1 = 2
        OBVIOUS
      <4> QED
        BY <3>2, <3>3, <4>1 DEF HeadAt
    <3>5. <<u[1], w[i]>> \in L.over
      BY <2>2, <2>3, <3>2
    <3> QED
      BY <3>1, <3>4, <3>5 DEF HeadedAs
  <2> QED
    BY <2>2, <2>3, <2>4, <2>5
<1>13. ASSUME NEW i \in ShownAt(L, u), NEW j \in ShownAt(L, u), i < j PROVE <<w[i], w[j]>> \in L.order
  <2>1. PICK x \in 1..m : i = n + x /\ x \in ShownAt(L, t)
    BY <1>9
  <2>2. PICK y \in 1..m : j = n + y /\ y \in ShownAt(L, t)
    BY <1>9
  <2>3. x < y
    BY <1>13, <2>1, <2>2
  <2>4. <<g[x], g[y]>> \in L.order
    BY <1>1, <2>1, <2>2, <2>3 DEF Lists
  <2>5. w[n + x] = g[x] /\ w[n + y] = g[y]
    BY <1>7
  <2> QED
    BY <2>1, <2>2, <2>4, <2>5
<1>14. Lists(L, u, E, {}, w)
  BY <1>11, <1>12, <1>13 DEF Lists
<1> QED
  BY <1>14 DEF Listed

LEMMA ListedUnder ==
  ASSUME NEW L, NEW E, NEW H, NEW s \in Seq(Calls), NEW t \in Seq(Calls), IsHead(L, s),
         Listed(L, t, E, H), \A e \in E : <<s[1], e>> \in L.over
  PROVE  s \o t \in Seq(Calls) /\ Listed(L, s \o t, E, {})
<1> DEFINE C == Calls
<1>1. s \in Seq(C) /\ t \in Seq(C)
  OBVIOUS
<1> HIDE DEF C
<1>2. PICK n \in Nat, m \in Nat : Parts(s, t, s \o t, n, m)
  BY <1>1, ConcatParts
<1>3. Listed(L, s \o t, E, {})
  BY <1>2, UnderParts
<1>4. s \o t \in Seq(C)
  BY <1>1, ConcatProperties
<1> QED
  BY <1>3, <1>4 DEF C

-----------------------------------------------------------------------------
(* The roles of the words that a part of the script writes.                *)
CallsOf(R) == { call \in Calls : call.do = "word" => call.word.role \in R }

Spoken(R) == Seq(CallsOf(R))

LEMMA SpokenTyped ==
  ASSUME NEW R, NEW S, R \subseteq S
  PROVE  Spoken(R) \subseteq Seq(Calls) /\ Spoken(R) \subseteq Spoken(S)
<1>1. CallsOf(R) \subseteq Calls /\ CallsOf(R) \subseteq CallsOf(S)
  BY DEF CallsOf
<1> QED
  BY <1>1, SeqMonotonic DEF Spoken

LEMMA SpokenConcat ==
  ASSUME NEW R, NEW s \in Spoken(R), NEW t \in Spoken(R)
  PROVE  s \o t \in Spoken(R)
<1> DEFINE T == CallsOf(R)
<1>1. s \in Seq(T) /\ t \in Seq(T)
  BY DEF Spoken
<1> HIDE DEF T
<1>2. s \o t \in Seq(T)
  BY <1>1, ConcatProperties
<1> QED
  BY <1>2 DEF Spoken, T

LEMMA SpokenSingles ==
  ASSUME NEW R, NEW n \in Nat
  PROVE  /\ line \in Spoken(R) /\ paragraph \in Spoken(R)
         /\ skip(n) \in Spoken(R) /\ indent(n) \in Spoken(R)
         /\ <<>> \in Spoken(R)
<1> DEFINE C == CallsOf(R)
<1>1. /\ [do |-> "line"] \in C /\ [do |-> "paragraph"] \in C
      /\ [do |-> "skip", to |-> n] \in C /\ [do |-> "indent", to |-> n] \in C
  BY DEF Calls, CallsOf
<1> HIDE DEF C
<1>2. ASSUME NEW call \in C PROVE <<call>> \in Seq(C)
  OBVIOUS
<1>3. <<>> \in Seq(C)
  OBVIOUS
<1> QED
  BY <1>1, <1>2, <1>3 DEF line, paragraph, skip, indent, Spoken, C

LEMMA WriteSpoken ==
  ASSUME NEW R, R \subseteq Roles \cup {"help"}, NEW text \in Texts(R)
  PROVE  write(text) \in Spoken(R)
<1> DEFINE w == write(text)
           C == Calls
           D == CallsOf(R)
<1>1. /\ w \in Seq(C) /\ Len(w) = Len(text)
      /\ \A i \in 1..Len(text) : w[i].do = "paragraph" \/ (w[i].do = "word" /\ w[i].word.role \in R)
  BY WriteCalls
<1>2. PICK n \in Nat : n = Len(text)
  BY LenProperties DEF Texts
<1>3. \A i \in 1..n : w[i] \in D
  <2> HIDE DEF w
  <2>1. \A i \in 1..n : w[i] \in C
    BY <1>1, <1>2, ElementOfSeq
  <2> QED
    BY <1>1, <1>2, <2>1 DEF CallsOf
<1> HIDE DEF w, C, D
<1>4. w = [i \in 1..n |-> w[i]]
  BY <1>1, <1>2
<1>5. w \in Seq(D)
  BY <1>3, <1>4
<1> QED
  BY <1>5 DEF Spoken, D, w

LEMMA WordsSpoken ==
  ASSUME NEW R, R \subseteq Roles \cup {"help"}, NEW ws \in Seq(WordsOf(R))
  PROVE  write(ws) \in Spoken(R)
<1>1. WordsOf(R) \subseteq WordsOf(R) \cup {Break}
  OBVIOUS
<1>2. ws \in Texts(R)
  BY <1>1, SeqMonotonic DEF Texts
<1> QED
  BY <1>2, WriteSpoken

LEMMA SpokenSilent ==
  ASSUME NEW L, NEW R, NEW s \in Spoken(R),
         \A call \in CallsOf(R) : call \notin L.entries /\ call \notin L.heads
  PROVE  s \in Silent(L)
<1>1. \A k \in 1..Len(s) : s[k] \in CallsOf(R)
  BY ElementOfSeq DEF Spoken
<1>2. s \in Seq(Calls)
  BY SpokenTyped
<1> QED
  BY <1>1, <1>2 DEF Silent

LEMMA FlattenSpoken ==
  ASSUME NEW R, NEW n \in Nat, NEW ss \in [1..n -> Spoken(R)]
  PROVE  FlattenSeq(ss) \in Spoken(R)
<1> DEFINE S == Spoken(R)
           C == CallsOf(R)
<1>1. S \subseteq Seq(C) /\ <<>> \in S /\ \A x, y \in S : x \o y \in S
  BY SpokenSingles, SpokenConcat DEF Spoken
<1>2. ss \in [1..n -> S]
  OBVIOUS
<1> HIDE DEF S, C
<1>3. FlattenSeq(ss) \in S
  BY <1>1, <1>2, FlattenClosed
<1> QED
  BY <1>3 DEF S

(* write turns words into calls one by one.                                *)
SaidAs(w) == [do |-> "word", word |-> w]

LEMMA WordWritten ==
  ASSUME NEW ws \in Seq(PlainWords)
  PROVE  /\ Len(write(ws)) = Len(ws) /\ write(ws) \in Seq(Calls)
         /\ \A k \in 1..Len(ws) : write(ws)[k] = SaidAs(ws[k])
<1>1. PICK n \in Nat : n = Len(ws)
  BY LenProperties
<1>2. ASSUME NEW k \in 1..n PROVE ws[k] # Break
  <2>1. ws[k] \in PlainWords
    BY <1>1, ElementOfSeq
  <2> QED
    BY <2>1 DEF PlainWords, WordsOf, Break
<1>3. PICK s : s = write(ws)
  OBVIOUS
<1>4. s = [k \in 1..n |-> IF ws[k] = Break THEN [do |-> "paragraph"]
                                           ELSE [do |-> "word", word |-> ws[k]]]
  BY <1>1, <1>3 DEF write
<1>5. \A k \in 1..n : s[k] = SaidAs(ws[k])
  BY <1>2, <1>4 DEF SaidAs
<1>6. s \in Seq(Calls) /\ Len(s) = Len(ws)
  <2>1. ws \in Texts(Roles)
    <3>1. PlainWords \subseteq WordsOf(Roles) \cup {Break}
      BY DEF PlainWords
    <3> QED
      BY <3>1, SeqMonotonic DEF Texts
  <2> QED
    BY <1>3, <2>1, WriteCalls
<1> QED
  BY <1>1, <1>3, <1>5, <1>6

-----------------------------------------------------------------------------
(* Entries, and the name of an option in the usage, stand first.           *)
Syntax == {"argument", "forever", "times"}

LEMMA ArgumentRoles ==
  ASSUME NEW p \in Parameters
  PROVE  \A k \in 1..Len(argumentsOf(p)) : argumentsOf(p)[k].role \in Syntax
<1>1. ASSUME NEW ws, NEW n, NEW m, NEW l, NEW role, NEW t, Shape(ws, n, m, l, role, t),
             role \in Syntax
      PROVE  \A k \in 1..Len(ws) : ws[k].role \in Syntax
  BY <1>1 DEF Shape, Syntax
<1>2. CASE ~TakesArguments(p)
  <2>1. "argument" \in Syntax
    BY DEF Syntax
  <2> QED
    BY <1>1, <1>2, <2>1, NoSyntax
<1>3. CASE TakesArguments(p) /\ p.maxArgs = p.minArgs
  <2>1. "argument" \in Syntax
    BY DEF Syntax
  <2> QED
    BY <1>1, <1>3, <2>1, FixedShape
<1>4. CASE TakesArguments(p) /\ p.maxArgs # p.minArgs
  <2>1. EndingRole(p) \in Syntax
    BY DEF Syntax, EndingRole
  <2>2. Varies(argumentsOf(p), p, p.minArgs, Brackets(p), Endings(p))
    BY <1>4, VaryingShape
  <2> QED
    BY <1>1, <2>1, <2>2 DEF Varies
<1> QED
  BY <1>2, <1>3, <1>4

(* A first word, perhaps a second one, and what follows.                   *)
Leads(ws, R, role) ==
  /\ ws \in Seq(PlainWords) /\ Len(ws) \in Nat \ {0} /\ ws[1].role = role
  /\ \A k \in 2..Len(ws) : ws[k].role \in R

LEMMA LeadsOn ==
  ASSUME NEW R, NEW role, NEW names, Leads(names, R, role), NEW rest \in Seq(PlainWords),
         \A k \in 1..Len(rest) : rest[k].role \in R
  PROVE  Leads(names \o rest, R, role) /\ (names \o rest)[1] = names[1]
<1> DEFINE W == PlainWords
<1>1. names \in Seq(W) /\ rest \in Seq(W) /\ Len(names) \in Nat \ {0}
  BY DEF Leads
<1> HIDE DEF W
<1>2. PICK n \in Nat \ {0}, m \in Nat : n = Len(names) /\ m = Len(rest)
  BY <1>1, LenProperties
<1>3. PICK ws : n = Len(names) /\ m = Len(rest) /\ ws = names \o rest
  BY <1>2
<1>4. ws \in Seq(W) /\ Len(ws) = n + m
  BY <1>1, <1>3, ConcatProperties
<1>5. \A k \in 1..(n + m) : ws[k] = IF k <= n THEN names[k] ELSE rest[k - n]
  BY <1>1, <1>3, ConcatProperties
<1>6. ws[1] = names[1]
  BY <1>5
<1>7. ASSUME NEW k \in 2..(n + m) PROVE ws[k].role \in R
  <2>1. CASE k <= n
    <3>1. k \in 2..n /\ ws[k] = names[k]
      BY <1>5, <2>1
    <3> QED
      BY <1>3, <3>1 DEF Leads
  <2>2. CASE ~(k <= n)
    <3>1. k - n \in 1..m /\ ws[k] = rest[k - n]
      BY <1>5, <2>2
    <3> QED
      BY <1>3, <3>1
  <2> QED
    BY <2>1, <2>2
<1>8. n + m \in Nat \ {0}
  OBVIOUS
<1> QED
  BY <1>3, <1>4, <1>6, <1>7, <1>8 DEF Leads, W

LEMMA OneLeads ==
  ASSUME NEW R, NEW role, NEW w \in PlainWords, w.role = role
  PROVE  Leads(<<w>>, R, role)
<1>1. <<w>> \in Seq(PlainWords) /\ Len(<<w>>) = 1 /\ <<w>>[1] = w
  OBVIOUS
<1> QED
  BY <1>1 DEF Leads

Following == {"alias"} \cup Syntax

LEMMA EntryLeads ==
  ASSUME NEW p \in Parameters
  PROVE  Leads(formatArgument(p), Following, "entry")
<1> DEFINE long  == word(p.long, "entry")
           short == word(p.short, "entry")
           named == word(getHelpName(p), "entry")
           names == IF is_positional(p) THEN <<named>>
                    ELSE IF p.short = NoName THEN <<long>>
                    ELSE IF p.long = NoName THEN <<short>>
                    ELSE << [short EXCEPT !.len = @ + 1], [long EXCEPT !.role = "alias"] >>
<1>1. formatArgument(p) = IF is_positional(p) THEN names ELSE names \o argumentsOf(p)
  BY DEF formatArgument
<1>2. \A n \in Names : word(n, "entry") \in PlainWords /\ word(n, "entry").role = "entry"
  <2>1. "entry" \in Roles
    BY DEF Roles
  <2>2. \A n \in Names : word(n, "entry").role = "entry"
    BY DEF word
  <2> QED
    BY <2>1, <2>2, WordTyped
<1>3. Leads(names, Following, "entry")
  <2>1. CASE is_positional(p)
    <3>1. named \in PlainWords /\ named.role = "entry"
      BY <1>2, NamesTyped
    <3> QED
      BY <2>1, <3>1, OneLeads
  <2>2. CASE ~is_positional(p) /\ p.short = NoName
    <3>1. long \in PlainWords /\ long.role = "entry"
      BY <1>2, <2>2, NamesTyped
    <3> QED
      BY <2>2, <3>1, OneLeads
  <2>3. CASE ~is_positional(p) /\ p.short # NoName
    <3>1. p.kind = "option"
      BY <2>3 DEF is_positional
    <3>2. short \in PlainWords /\ short.role = "entry"
      BY <1>2, <2>3, <3>1, NamesTyped
    <3>3. CASE p.long = NoName
      BY <2>3, <3>2, <3>3, OneLeads
    <3>4. CASE p.long # NoName
      <4>1. long \in PlainWords
        BY <1>2, <3>4, NamesTyped
      <4>2. PICK a, b : a = [short EXCEPT !.len = @ + 1] /\ b = [long EXCEPT !.role = "alias"]
        OBVIOUS
      <4> HIDE DEF short, long
      <4>3. a \in PlainWords /\ b \in PlainWords
        BY <3>2, <4>1, <4>2, WordChanged DEF Roles
      <4>4. a.role = "entry" /\ b.role = "alias"
        BY <3>2, <4>1, <4>2 DEF PlainWords, WordsOf
      <4>5. Leads(<<a, b>>, Following, "entry")
        <5> DEFINE W == PlainWords
        <5>1. a \in W /\ b \in W
          BY <4>3
        <5> HIDE DEF W
        <5>2. PICK c : c = <<a, b>>
          OBVIOUS
        <5>3. c \in Seq(W) /\ Len(c) = 2 /\ c[1] = a /\ c[2] = b
          BY <5>1, <5>2
        <5>4. \A k \in 2..Len(c) : c[k].role \in Following
          BY <4>4, <5>3 DEF Following
        <5>5. Leads(c, Following, "entry")
          BY <4>4, <5>3, <5>4 DEF Leads, W
        <5> QED
          BY <5>2, <5>5
      <4> QED
        BY <2>3, <3>4, <4>2, <4>5
    <3> QED
      BY <3>3, <3>4
  <2> QED
    BY <2>1, <2>2, <2>3
<1> HIDE DEF names
<1>4. \A k \in 1..Len(argumentsOf(p)) : argumentsOf(p)[k].role \in Following
  BY ArgumentRoles DEF Following
<1>5. Leads(names \o argumentsOf(p), Following, "entry")
  BY <1>3, <1>4, SyntaxTyped, LeadsOn
<1> QED
  BY <1>1, <1>3, <1>5

-----------------------------------------------------------------------------
(* Brackets do not change what a word is.                                  *)
LEMMA WordMarked ==
  ASSUME NEW w \in PlainWords, NEW n \in Nat
  PROVE  /\ opened(w).role = w.role /\ opened(w).text = w.text /\ opened(w).open = w.open + 1
         /\ closed(w, n).role = w.role /\ closed(w, n).text = w.text /\ closed(w, n).open = w.open
<1>1. w \in [ text : Names, open : Nat, close : Nat, times : Nat, len : Nat \ {0}, role : Roles ]
  BY DEF PlainWords, WordsOf
<1>2. PICK o \in Nat, c \in Nat, l \in Nat, m \in Nat :
        o = w.open + 1 /\ c = w.close + n /\ l = w.len + 1 /\ m = w.len + n
  BY <1>1
<1>3. opened(w) = [w EXCEPT !.open = o, !.len = l] /\ closed(w, n) = [w EXCEPT !.close = c, !.len = m]
  BY <1>2 DEF opened, closed
<1> QED
  BY <1>1, <1>2, <1>3

SameWords(ws, vs) ==
  Len(vs) = Len(ws) /\ \A k \in 1..Len(ws) : vs[k].role = ws[k].role /\ vs[k].text = ws[k].text

LEMMA ClosedWords ==
  ASSUME NEW ws \in Seq(PlainWords), ws # <<>>, NEW n \in Nat
  PROVE  SameWords(ws, closedAtEnd(ws, n)) /\ closedAtEnd(ws, n)[1].open = ws[1].open
<1>1. Len(ws) \in 1..Len(ws) /\ 1 \in 1..Len(ws)
  BY EmptySeq
<1>2. PICK e : e = closed(ws[Len(ws)], n)
  OBVIOUS
<1>3. e \in PlainWords /\ e.role = ws[Len(ws)].role /\ e.text = ws[Len(ws)].text
      /\ e.open = ws[Len(ws)].open
  BY <1>1, <1>2, ElementOfSeq, WordMarked, WordChanged DEF Roles
<1>4. closedAtEnd(ws, n) = [ws EXCEPT ![Len(ws)] = e]
  BY <1>2 DEF closedAtEnd
<1>5. PICK vs : vs = closedAtEnd(ws, n)
  OBVIOUS
<1>6. Len(vs) = Len(ws) /\ \A k \in 1..Len(ws) : vs[k] = IF k = Len(ws) THEN e ELSE ws[k]
  BY <1>1, <1>3, <1>4, <1>5, ExceptSeq
<1>7. \A k \in 1..Len(ws) : vs[k].role = ws[k].role /\ vs[k].text = ws[k].text /\ vs[k].open = ws[k].open
  BY <1>3, <1>6
<1> QED
  BY <1>1, <1>5, <1>6, <1>7 DEF SameWords

LEMMA BracketedWords ==
  ASSUME NEW ws \in Seq(PlainWords), ws # <<>>
  PROVE  SameWords(ws, bracketed(ws)) /\ bracketed(ws)[1].open = ws[1].open + 1
<1>1. 1 \in 1..Len(ws)
  BY EmptySeq
<1>2. ws[1] \in PlainWords
  BY <1>1, ElementOfSeq
<1>3. PICK e : e = opened(ws[1])
  OBVIOUS
<1>4. e \in PlainWords /\ e.role = ws[1].role /\ e.text = ws[1].text /\ e.open = ws[1].open + 1
  BY <1>2, <1>3, WordMarked, WordChanged DEF Roles
<1>5. PICK os : os = [ws EXCEPT ![1] = opened(@)]
  OBVIOUS
<1>6. os = [ws EXCEPT ![1] = e]
  BY <1>3, <1>5
<1>7. os \in Seq(PlainWords) /\ Len(os) = Len(ws) /\ \A k \in 1..Len(ws) : os[k] = IF k = 1 THEN e ELSE ws[k]
  BY <1>1, <1>4, <1>6, ExceptSeq
<1>8. os # <<>>
  BY <1>1, <1>7
<1>9. SameWords(os, closedAtEnd(os, 1)) /\ closedAtEnd(os, 1)[1].open = os[1].open
  BY <1>7, <1>8, ClosedWords
<1>10. SameWords(ws, closedAtEnd(os, 1))
  BY <1>4, <1>7, <1>9 DEF SameWords
<1> QED
  BY <1>1, <1>4, <1>5, <1>7, <1>9, <1>10 DEF bracketed

-----------------------------------------------------------------------------
(* The words of the usage.                                                 *)
LEMMA PlainUsage ==
  ASSUME NEW p \in Parameters
  PROVE  /\ RoleOf(argumentsOf(p), "text") \in Seq(PlainWords)
         /\ \A k \in 1..Len(RoleOf(argumentsOf(p), "text")) :
              RoleOf(argumentsOf(p), "text")[k].role = "text"
<1>1. PICK ws : ws = argumentsOf(p)
  OBVIOUS
<1>2. ws \in Seq(PlainWords)
  BY <1>1, SyntaxTyped
<1>3. PICK n \in Nat : n = Len(ws)
  BY <1>2, LenProperties
<1>4. PICK vs : vs = RoleOf(ws, "text")
  OBVIOUS
<1>5. vs = [k \in 1..n |-> [ws[k] EXCEPT !.role = "text"]]
  BY <1>3, <1>4 DEF RoleOf
<1>6. vs \in Seq(PlainWords)
  BY <1>2, <1>4, RoleOfTyped DEF Roles
<1>7. ASSUME NEW k \in 1..n PROVE vs[k].role = "text"
  <2>1. ws[k] \in PlainWords
    BY <1>2, <1>3, ElementOfSeq
  <2>2. ws[k] \in [ text : Names, open : Nat, close : Nat, times : Nat, len : Nat \ {0}, role : Roles ]
    BY <2>1 DEF PlainWords, WordsOf
  <2>3. vs[k] = [ws[k] EXCEPT !.role = "text"]
    BY <1>5
  <2> QED
    BY <2>2, <2>3
<1>8. Len(vs) = n
  BY <1>5
<1> QED
  BY <1>1, <1>4, <1>6, <1>7, <1>8

UsageHead(w, p) == w.text = getName(p) /\ (w.open > 0 <=> ~p.required)

LEMMA OptionUsage ==
  ASSUME NEW p \in Parameters, p.kind = "option"
  PROVE  Leads(usageOf(p), {"text"}, "usage") /\ UsageHead(usageOf(p)[1], p)
<1> DEFINE w == word(getName(p), "usage")
<1>1. PICK rest : rest = RoleOf(argumentsOf(p), "text")
  OBVIOUS
<1>2. rest \in Seq(PlainWords) /\ \A k \in 1..Len(rest) : rest[k].role \in {"text"}
  BY <1>1, PlainUsage
<1>3. w \in PlainWords /\ w.role = "usage" /\ w.text = getName(p) /\ w.open = 0
  <2>1. w \in PlainWords
    BY NamesTyped, WordTyped DEF Roles
  <2> QED
    BY <2>1 DEF word
<1>4. PICK names, whole : names = <<w>> /\ whole = names \o rest
  OBVIOUS
<1>5. Leads(names, {"text"}, "usage") /\ names[1] = w /\ names # <<>>
  BY <1>3, <1>4, OneLeads
<1>6. Leads(whole, {"text"}, "usage") /\ whole[1] = w
  BY <1>2, <1>4, <1>5, LeadsOn
<1>7. whole \in Seq(PlainWords) /\ Len(whole) \in Nat \ {0} /\ whole # <<>>
  BY <1>6 DEF Leads
<1>8. usageOf(p) = IF p.required THEN whole ELSE bracketed(whole)
  <2>1. ~is_positional(p)
    BY DEF is_positional
  <2> QED
    BY <1>1, <1>4, <1>5, <1>7, <2>1 DEF usageOf
<1> HIDE DEF w
<1>9. CASE p.required
  BY <1>3, <1>6, <1>8, <1>9 DEF UsageHead
<1>10. CASE ~p.required
  <2>1. PICK b : b = bracketed(whole)
    OBVIOUS
  <2>2. b \in Seq(PlainWords) /\ SameWords(whole, b) /\ b[1].open = whole[1].open + 1
    BY <1>7, <2>1, BracketedTyped, BracketedWords
  <2>3. Len(b) = Len(whole) /\ 1 \in 1..Len(whole) /\ \A k \in 2..Len(b) : k \in 1..Len(whole)
    BY <1>7, <2>2 DEF SameWords
  <2>4. b[1].role = "usage" /\ b[1].text = getName(p) /\ b[1].open = 1
    BY <1>3, <1>6, <2>2, <2>3 DEF SameWords
  <2>5. \A k \in 2..Len(b) : b[k].role \in {"text"}
    BY <1>6, <2>2, <2>3 DEF SameWords, Leads
  <2> QED
    BY <1>7, <1>8, <1>10, <2>1, <2>2, <2>3, <2>4, <2>5 DEF Leads, UsageHead
<1>11. p.required \in BOOLEAN
  BY ParametersAssumption
<1> QED
  BY <1>9, <1>10

LEMMA OtherUsage ==
  ASSUME NEW p \in Parameters, is_positional(p)
  PROVE  /\ usageOf(p) \in Seq(PlainWords)
         /\ \A k \in 1..Len(usageOf(p)) : usageOf(p)[k].role = "text"
<1>1. PICK rest, none : rest = RoleOf(argumentsOf(p), "text") /\ none = <<>>
  OBVIOUS
<1>2. rest \in Seq(PlainWords) /\ \A k \in 1..Len(rest) : rest[k].role = "text"
  BY <1>1, PlainUsage
<1>3. none \o rest = rest
  BY <1>1, <1>2, ConcatEmptySeq
<1>4. usageOf(p) = rest \/ (rest # <<>> /\ usageOf(p) = bracketed(rest))
  BY <1>1, <1>3 DEF usageOf
<1>5. CASE usageOf(p) = rest
  BY <1>2, <1>5
<1>6. CASE rest # <<>> /\ usageOf(p) = bracketed(rest)
  <2>1. PICK b : b = bracketed(rest)
    OBVIOUS
  <2>2. b \in Seq(PlainWords) /\ SameWords(rest, b)
    BY <1>2, <1>6, <2>1, BracketedTyped, BracketedWords
  <2>3. \A k \in 1..Len(b) : b[k].role = "text"
    BY <1>2, <2>2 DEF SameWords
  <2> QED
    BY <1>6, <2>1, <2>2, <2>3
<1> QED
  BY <1>4, <1>5, <1>6

-----------------------------------------------------------------------------
(* t is what is left of s, read as M instead of L; place x of t was place  *)
(* h[x] of s.                                                              *)
Along(L, M, s, t, h) ==
  /\ Len(s) \in Nat /\ Len(t) \in Nat /\ h \in [1..Len(t) -> 1..Len(s)]
  /\ \A x, y \in 1..Len(t) : x < y => h[x] < h[y]
  /\ \A x \in 1..Len(t) :
       /\ (t[x] \in M.entries <=> s[h[x]] \in L.entries)
       /\ (t[x] \in M.heads <=> s[h[x]] \in L.heads)
       /\ \A d : /\ <<s[h[x]], d>> \in L.shows => <<t[x], d>> \in M.shows
                 /\ <<s[h[x]], d>> \in L.over => <<t[x], d>> \in M.over
  /\ \A y \in 1..Len(s) : s[y] \in L.entries \/ s[y] \in L.heads => \E x \in 1..Len(t) : h[x] = y
  /\ L.order = M.order

LEMMA ListedAlong ==
  ASSUME NEW L, NEW M, NEW s, NEW t, NEW h, Along(L, M, s, t, h), NEW D, NEW H, Listed(L, s, D, H)
  PROVE  Listed(M, t, D, H)
<1>1. PICK n \in Nat, m \in Nat : n = Len(s) /\ m = Len(t)
  BY DEF Along
<1>2. /\ \A x \in 1..m : h[x] \in 1..n
      /\ \A x, y \in 1..m : x < y => h[x] < h[y]
      /\ \A x, y \in 1..m : h[x] < h[y] => x < y
  <2>1. \A x \in 1..m : h[x] \in 1..n
    BY <1>1 DEF Along
  <2>2. \A x, y \in 1..m : x < y => h[x] < h[y]
    BY <1>1 DEF Along
  <2>3. ASSUME NEW x \in 1..m, NEW y \in 1..m, h[x] < h[y] PROVE x < y
    <3>1. CASE x = y
      BY <2>1, <2>3, <3>1
    <3>2. CASE y < x
      BY <2>1, <2>2, <2>3, <3>2
    <3> QED
      BY <3>1, <3>2
  <2> QED
    BY <2>1, <2>2, <2>3
<1>3. \A x \in 1..m :
        /\ (t[x] \in M.entries <=> s[h[x]] \in L.entries)
        /\ (t[x] \in M.heads <=> s[h[x]] \in L.heads)
        /\ \A d : /\ <<s[h[x]], d>> \in L.shows => <<t[x], d>> \in M.shows
                  /\ <<s[h[x]], d>> \in L.over => <<t[x], d>> \in M.over
  BY <1>1 DEF Along
<1>4. \A y \in 1..n : s[y] \in L.entries \/ s[y] \in L.heads => \E x \in 1..m : h[x] = y
  BY <1>1 DEF Along
<1>5. PICK f : Lists(L, s, D, H, f)
  BY DEF Listed
<1>6. PICK g : g = [x \in 1..m |-> f[h[x]]]
  OBVIOUS
<1>7. \A x \in 1..m : g[x] = f[h[x]]
  BY <1>6
<1>8. \A x \in ShownAt(M, t) : x \in 1..m /\ h[x] \in ShownAt(L, s)
  BY <1>1, <1>2, <1>3 DEF ShownAt
<1>9. ASSUME NEW d \in D PROVE \E x \in ShownAt(M, t) : g[x] = d
  <2>1. PICK y \in ShownAt(L, s) : f[y] = d
    BY <1>5 DEF Lists
  <2>2. y \in 1..n /\ s[y] \in L.entries
    BY <1>1 DEF ShownAt
  <2>3. PICK x \in 1..m : h[x] = y
    BY <1>4, <2>2
  <2>4. x \in ShownAt(M, t)
    BY <1>1, <1>3, <2>2, <2>3 DEF ShownAt
  <2> QED
    BY <1>7, <2>1, <2>3, <2>4
<1>10. ASSUME NEW x \in ShownAt(M, t), NEW d, HeadedAs(L, s, h[x], d) PROVE HeadedAs(M, t, x, d)
  <2>1. PICK i \in 1..(h[x] - 1) : HeadAt(L, s, h[x], i) /\ <<s[i], d>> \in L.over
    BY <1>10 DEF HeadedAs
  <2>2. x \in 1..m /\ h[x] \in 1..n
    BY <1>2, <1>8
  <2>3. i \in 1..n /\ s[i] \in L.heads
    BY <2>1, <2>2 DEF HeadAt
  <2>4. PICK z \in 1..m : h[z] = i
    BY <1>4, <2>3
  <2>5. z < x
    BY <1>2, <2>2, <2>4
  <2>6. t[z] \in M.heads /\ <<t[z], d>> \in M.over
    BY <1>3, <2>1, <2>3, <2>4
  <2>7. ASSUME NEW k \in (z + 1)..(x - 1) PROVE t[k] \notin M.heads
    <3>1. k \in 1..m /\ z < k /\ k < x
      BY <2>2
    <3>2. h[k] \in (i + 1)..(h[x] - 1)
      <4>1. h[z] < h[k] /\ h[k] < h[x] /\ h[k] \in 1..n
        BY <1>2, <2>2, <3>1
      <4> QED
        BY <2>2, <2>4, <4>1
    <3>3. s[h[k]] \notin L.heads
      BY <2>1, <3>2 DEF HeadAt
    <3> QED
      BY <1>3, <3>1, <3>3
  <2>8. HeadAt(M, t, x, z)
    BY <2>6, <2>7 DEF HeadAt
  <2>9. z \in 1..(x - 1)
    BY <2>2, <2>5
  <2> QED
    BY <2>6, <2>8, <2>9 DEF HeadedAs
<1>11. ASSUME NEW x \in ShownAt(M, t), Unheaded(L, s, h[x]) PROVE Unheaded(M, t, x)
  <2> SUFFICES ASSUME NEW k \in 1..(x - 1) PROVE t[k] \notin M.heads
    BY DEF Unheaded
  <2>1. x \in 1..m /\ h[x] \in 1..n
    BY <1>2, <1>8
  <2>2. k \in 1..m /\ k < x
    BY <2>1
  <2>3. h[k] \in 1..(h[x] - 1)
    BY <1>2, <2>1, <2>2
  <2>4. s[h[k]] \notin L.heads
    BY <1>11, <2>3 DEF Unheaded
  <2> QED
    BY <1>3, <2>2, <2>4
<1>12. ASSUME NEW x \in ShownAt(M, t)
       PROVE  /\ g[x] \in D /\ <<t[x], g[x]>> \in M.shows
              /\ HeadedAs(M, t, x, g[x]) \/ (g[x] \in H /\ Unheaded(M, t, x))
  <2>1. x \in 1..m /\ h[x] \in ShownAt(L, s) /\ g[x] = f[h[x]]
    BY <1>7, <1>8
  <2>2. /\ f[h[x]] \in D /\ <<s[h[x]], f[h[x]]>> \in L.shows
        /\ HeadedAs(L, s, h[x], f[h[x]]) \/ (f[h[x]] \in H /\ Unheaded(L, s, h[x]))
    BY <1>5, <2>1 DEF Lists
  <2>3. <<t[x], g[x]>> \in M.shows
    BY <1>3, <2>1, <2>2
  <2> QED
    BY <1>10, <1>11, <2>1, <2>2, <2>3
<1>13. ASSUME NEW x \in ShownAt(M, t), NEW y \in ShownAt(M, t), x < y PROVE <<g[x], g[y]>> \in M.order
  <2>1. x \in 1..m /\ y \in 1..m /\ h[x] \in ShownAt(L, s) /\ h[y] \in ShownAt(L, s)
    BY <1>8
  <2>2. h[x] < h[y] /\ g[x] = f[h[x]] /\ g[y] = f[h[y]]
    BY <1>2, <1>7, <1>13, <2>1
  <2>3. <<f[h[x]], f[h[y]]>> \in L.order
    BY <1>5, <2>1, <2>2 DEF Lists
  <2>4. L.order = M.order
    BY DEF Along
  <2> QED
    BY <2>2, <2>3, <2>4
<1>14. Lists(M, t, D, H, g)
  BY <1>9, <1>12, <1>13 DEF Lists
<1> QED
  BY <1>14 DEF Listed

-----------------------------------------------------------------------------
(* What words list is listed by the calls that write them.                 *)
WordCalls == { call \in Calls : call.do = "word" }

Written(L) ==
  [ entries |-> { call \in WordCalls : call.word \in L.entries },
    heads   |-> { call \in WordCalls : call.word \in L.heads },
    shows   |-> { x \in WordCalls \X L.things : <<x[1].word, x[2]>> \in L.shows },
    over    |-> { x \in WordCalls \X L.things : <<x[1].word, x[2]>> \in L.over },
    order   |-> L.order, things |-> L.things ]

LEMMA InWritten ==
  ASSUME NEW L
  PROVE  /\ \A call : call \in Written(L).entries <=> call \in WordCalls /\ call.word \in L.entries
         /\ \A call : call \in Written(L).heads <=> call \in WordCalls /\ call.word \in L.heads
         /\ \A call, d : <<call, d>> \in Written(L).shows <=>
              call \in WordCalls /\ d \in L.things /\ <<call.word, d>> \in L.shows
         /\ \A call, d : <<call, d>> \in Written(L).over <=>
              call \in WordCalls /\ d \in L.things /\ <<call.word, d>> \in L.over
         /\ Written(L).order = L.order
<1>1. /\ Written(L).entries = { call \in WordCalls : call.word \in L.entries }
      /\ Written(L).heads = { call \in WordCalls : call.word \in L.heads }
      /\ Written(L).shows = { x \in WordCalls \X L.things : <<x[1].word, x[2]>> \in L.shows }
      /\ Written(L).over = { x \in WordCalls \X L.things : <<x[1].word, x[2]>> \in L.over }
      /\ Written(L).order = L.order
  BY DEF Written
<1> QED
  BY <1>1

(* A listing of words: only words of the help are entries or headings, and *)
(* what is shown or headed is one of the things.                           *)
OfWords(L) ==
  /\ L.entries \subseteq AllWords /\ L.heads \subseteq AllWords
  /\ \A w, d : <<w, d>> \in L.shows \/ <<w, d>> \in L.over => w \in AllWords /\ d \in L.things

LEMMA WriteListed ==
  ASSUME NEW L, OfWords(L), NEW D, NEW H, NEW text \in Texts(Roles \cup {"help"}), Listed(L, text, D, H)
  PROVE  Listed(Written(L), write(text), D, H)
<1>0. PICK n \in Nat : n = Len(text)
  BY LenProperties DEF Texts
<1>1. PICK s : n = Len(text) /\ s = write(text)
  BY <1>0
<1>2. \A k \in 1..n : text[k] \in AllWords \cup {Break}
  BY <1>1, ElementOfSeq DEF Texts, AllWords
<1>3. s = [k \in 1..n |-> IF text[k] = Break THEN [do |-> "paragraph"]
                                             ELSE [do |-> "word", word |-> text[k]]]
  BY <1>1 DEF write
<1>4. Len(s) = n
  BY <1>3
<1>5. PICK h : h = [k \in 1..n |-> k]
  OBVIOUS
<1>6. Break \notin AllWords
  BY DEF Break, AllWords, WordsOf
<1>7. ASSUME NEW k \in 1..n
      PROVE  /\ (s[k] \in Written(L).entries <=> text[k] \in L.entries)
             /\ (s[k] \in Written(L).heads <=> text[k] \in L.heads)
             /\ \A d : /\ <<text[k], d>> \in L.shows => <<s[k], d>> \in Written(L).shows
                       /\ <<text[k], d>> \in L.over => <<s[k], d>> \in Written(L).over
  <2>1. CASE text[k] = Break
    <3>1. s[k] = [do |-> "paragraph"]
      BY <1>3, <2>1
    <3>2. s[k] \notin WordCalls
      BY <3>1 DEF WordCalls
    <3> QED
      BY <1>6, <2>1, <3>2, InWritten DEF OfWords
  <2>2. CASE text[k] # Break
    <3>1. s[k] = [do |-> "word", word |-> text[k]] /\ text[k] \in AllWords
      BY <1>2, <1>3, <2>2
    <3>2. s[k] \in WordCalls /\ s[k].word = text[k]
      BY <3>1 DEF WordCalls, Calls
    <3> QED
      BY <3>2, InWritten DEF OfWords
  <2> QED
    BY <2>1, <2>2
<1>8. Along(L, Written(L), text, s, h)
  <2>1. Len(text) = n /\ Len(s) = n /\ h \in [1..n -> 1..n] /\ \A k \in 1..n : h[k] = k
    BY <1>1, <1>4, <1>5
  <2>2. Written(L).order = L.order
    BY InWritten
  <2>3. \A x \in 1..n :
          /\ (s[x] \in Written(L).entries <=> text[h[x]] \in L.entries)
          /\ (s[x] \in Written(L).heads <=> text[h[x]] \in L.heads)
          /\ \A d : /\ <<text[h[x]], d>> \in L.shows => <<s[x], d>> \in Written(L).shows
                    /\ <<text[h[x]], d>> \in L.over => <<s[x], d>> \in Written(L).over
    BY <1>7, <2>1
  <2>4. \A y \in 1..n : \E x \in 1..n : h[x] = y
    BY <2>1
  <2>5. \A x, y \in 1..n : x < y => h[x] < h[y]
    BY <2>1
  <2> QED
    BY <2>1, <2>2, <2>3, <2>4, <2>5 DEF Along
<1> QED
  BY <1>1, <1>8, ListedAlong

(* The words ws are those of the calls s, in order.                        *)
Tells(s, ws, h) ==
  /\ Len(s) \in Nat /\ Len(ws) \in Nat /\ h \in [1..Len(ws) -> 1..Len(s)]
  /\ \A x, y \in 1..Len(ws) : x < y => h[x] < h[y]
  /\ \A x \in 1..Len(ws) : s[h[x]] \in WordCalls /\ ws[x] = s[h[x]].word
  /\ \A y \in 1..Len(s) : s[y] \in WordCalls => \E x \in 1..Len(ws) : h[x] = y

LEMMA ToldListed ==
  ASSUME NEW L, NEW D, NEW H, NEW s, NEW ws, NEW h, Tells(s, ws, h), Listed(Written(L), s, D, H)
  PROVE  Listed(L, ws, D, H)
<1>1. ASSUME NEW x \in 1..Len(ws)
      PROVE  /\ (ws[x] \in L.entries <=> s[h[x]] \in Written(L).entries)
             /\ (ws[x] \in L.heads <=> s[h[x]] \in Written(L).heads)
             /\ \A d : /\ <<s[h[x]], d>> \in Written(L).shows => <<ws[x], d>> \in L.shows
                       /\ <<s[h[x]], d>> \in Written(L).over => <<ws[x], d>> \in L.over
  <2>1. s[h[x]] \in WordCalls /\ ws[x] = s[h[x]].word
    BY DEF Tells
  <2> QED
    BY <2>1, InWritten
<1>2. ASSUME NEW y \in 1..Len(s), s[y] \in Written(L).entries \/ s[y] \in Written(L).heads
      PROVE  \E x \in 1..Len(ws) : h[x] = y
  <2>1. s[y] \in WordCalls
    BY <1>2, InWritten
  <2> QED
    BY <2>1 DEF Tells
<1>3. Written(L).order = L.order
  BY InWritten
<1>4. Along(Written(L), L, s, ws, h)
  BY <1>1, <1>2, <1>3 DEF Along, Tells
<1> QED
  BY <1>4, ListedAlong

-----------------------------------------------------------------------------
(* Nothing after the usage writes a word of the usage.                     *)
NotUsage == (Roles \cup {"help"}) \ {"usage"}

LEMMA WordOfRole ==
  ASSUME NEW R, NEW w \in PlainWords, w.role \in R
  PROVE  w \in WordsOf(R)
<1>1. w \in [ text : Names, open : Nat, close : Nat, times : Nat, len : Nat \ {0}, role : Roles ]
  BY DEF PlainWords, WordsOf
<1> QED
  BY <1>1 DEF WordsOf

LEMMA WordsOfRoles ==
  ASSUME NEW R, NEW ws \in Seq(PlainWords), \A k \in 1..Len(ws) : ws[k].role \in R
  PROVE  ws \in Seq(WordsOf(R))
<1> DEFINE T == WordsOf(R)
<1>1. PICK n \in Nat : n = Len(ws)
  BY LenProperties
<1>2. \A k \in 1..n : ws[k] \in T
  <2>1. \A k \in 1..n : ws[k] \in PlainWords
    BY <1>1, ElementOfSeq
  <2> QED
    BY <1>1, <2>1, WordOfRole
<1>3. ws = [k \in 1..n |-> ws[k]]
  BY <1>1
<1> HIDE DEF T
<1>4. ws \in Seq(T)
  BY <1>2, <1>3
<1> QED
  BY <1>4 DEF T

LEMMA LeadsTyped ==
  ASSUME NEW R, NEW role, NEW ws, Leads(ws, R, role), NEW T, R \cup {role} \subseteq T
  PROVE  ws \in Seq(WordsOf(T))
<1>1. ws \in Seq(PlainWords) /\ Len(ws) \in Nat \ {0}
  BY DEF Leads
<1>2. ASSUME NEW k \in 1..Len(ws) PROVE ws[k].role \in T
  <2>1. CASE k = 1
    BY <2>1 DEF Leads
  <2>2. CASE k # 1
    <3>1. k \in 2..Len(ws)
      BY <1>1, <2>2
    <3> QED
      BY <3>1 DEF Leads
  <2> QED
    BY <2>1, <2>2
<1> QED
  BY <1>1, <1>2, WordsOfRoles

LEMMA TextsWiden ==
  ASSUME NEW R, NEW T, R \subseteq T, NEW text \in Texts(R)
  PROVE  text \in Texts(T)
<1>1. WordsOf(R) \cup {Break} \subseteq WordsOf(T) \cup {Break}
  BY DEF WordsOf
<1> QED
  BY <1>1, SeqMonotonic DEF Texts

LEMMA OneWordSpoken ==
  ASSUME NEW R, R \subseteq Roles \cup {"help"}, NEW n \in Names, NEW role \in R \cap Roles
  PROVE  write(<< word(n, role) >>) \in Spoken(R)
<1>1. PICK w : w = word(n, role)
  OBVIOUS
<1>2. w \in PlainWords /\ w.role = role
  <2>1. word(n, role).role = role
    BY DEF word
  <2> QED
    BY <1>1, <2>1, WordTyped
<1>3. PICK ws : ws = <<w>>
  OBVIOUS
<1>4. ws \in Seq(WordsOf(R))
  <2>1. w \in WordsOf(R)
    BY <1>2, WordOfRole
  <2> QED
    BY <1>3, <2>1
<1> QED
  BY <1>1, <1>3, <1>4, WordsSpoken

LEMMA WriteArgumentSpoken ==
  ASSUME NEW p \in Parameters, NEW column \in Nat
  PROVE  writeArgument(p, column) \in Spoken(NotUsage)
<1> DEFINE S == Spoken(NotUsage)
<1>1. \A s, t \in S : s \o t \in S
  BY SpokenConcat
<1>2. indent(ArgumentIndent) \in S /\ skip(column) \in S /\ indent(column) \in S /\ line \in S
  BY SizesAssumption, SpokenSingles
<1>3. write(formatArgument(p)) \in S
  <2>1. Following \cup {"entry"} \subseteq NotUsage /\ NotUsage \subseteq Roles \cup {"help"}
    BY DEF NotUsage, Roles, Following, Syntax
  <2> QED
    BY <2>1, EntryLeads, LeadsTyped, WordsSpoken
<1>4. write(p.help) \in S
  <2>1. p.help \in Texts({"help"}) /\ {"help"} \subseteq NotUsage /\ NotUsage \subseteq Roles \cup {"help"}
    BY ParametersAssumption DEF NotUsage, Roles
  <2> QED
    BY <2>1, TextsWiden, WriteSpoken
<1>5. PICK a \in S, b \in S, c \in S, d \in S, t \in S, l \in S :
        /\ a = indent(ArgumentIndent) /\ b = write(formatArgument(p)) /\ c = skip(column)
        /\ d = indent(column) /\ t = write(p.help) /\ l = line
  BY <1>2, <1>3, <1>4
<1>6. writeArgument(p, column) = ((((a \o b) \o c) \o d) \o t) \o l
  BY <1>5 DEF writeArgument
<1> HIDE DEF S
<1> QED
  BY <1>1, <1>6 DEF S

LEMMA WriteArgumentsSpoken ==
  ASSUME NEW args \in Seq(Parameters), NEW column \in Nat
  PROVE  writeArguments(args, column) \in Spoken(NotUsage)
<1> DEFINE S == Spoken(NotUsage)
<1>1. \A s, t \in S : s \o t \in S
  BY SpokenConcat
<1>2. line \in S /\ paragraph \in S /\ indent(0) \in S
  BY SpokenSingles
<1>3. PICK n \in Nat : n = Len(args)
  BY LenProperties
<1>4. PICK ss : ss = [i \in 1..Len(args) |-> writeArgument(args[i], column)]
  OBVIOUS
<1>5. ss \in [1..n -> S]
  <2>1. \A i \in 1..n : args[i] \in Parameters
    BY <1>3, ElementOfSeq
  <2>2. \A i \in 1..n : writeArgument(args[i], column) \in S
    BY <2>1, WriteArgumentSpoken
  <2> HIDE DEF S
  <2> QED
    BY <1>3, <1>4, <2>2
<1>6. FlattenSeq(ss) \in S
  BY <1>5, FlattenSpoken
<1>7. PICK a \in S, b \in S, c \in S, d \in S :
        a = line /\ b = FlattenSeq(ss) /\ c = paragraph /\ d = indent(0)
  BY <1>2, <1>6
<1>8. writeArguments(args, column) = ((a \o b) \o c) \o d
  BY <1>4, <1>7 DEF writeArguments
<1> HIDE DEF S
<1> QED
  BY <1>1, <1>8 DEF S

LEMMA WritePartSpoken ==
  ASSUME NEW args \in Seq(Parameters), NEW heading, write(heading) \in Spoken(NotUsage), NEW column \in Nat
  PROVE  writePart(args, heading, column) \in Spoken(NotUsage)
<1> DEFINE S == Spoken(NotUsage)
<1>1. \A s, t \in S : s \o t \in S
  BY SpokenConcat
<1>2. <<>> \in S /\ write(heading) \in S /\ writeArguments(args, column) \in S
  BY SpokenSingles, WriteArgumentsSpoken
<1> HIDE DEF S
<1>3. (IF args[1].group = NoGroup THEN write(heading) ELSE <<>>) \in S
  BY <1>2
<1> QED
  BY <1>1, <1>2, <1>3 DEF writePart, S

LEMMA HeadingSpoken ==
  ASSUME NEW part \in {"positional", "required", "optional"}
  PROVE  /\ write(headingOf(part)) \in Spoken(NotUsage)
         /\ write(<< word("commands:", "heading") >>) \in Spoken(NotUsage)
<1>1. "heading" \in NotUsage \cap Roles /\ "text" \in NotUsage \cap Roles /\ NotUsage \subseteq Roles \cup {"help"}
  BY DEF NotUsage, Roles
<1>2. part \in Names /\ "commands:" \in Names /\ "arguments:" \in Names
  BY SizesAssumption DEF OwnNames
<1>3. PICK a, b : a = word(part, "heading") /\ b = word("arguments:", "text")
  OBVIOUS
<1>4. a \in WordsOf(NotUsage) /\ b \in WordsOf(NotUsage)
  <2>1. a \in PlainWords /\ b \in PlainWords
    BY <1>1, <1>2, <1>3, WordTyped
  <2>2. a.role = "heading" /\ b.role = "text"
    BY <1>3 DEF word
  <2> QED
    BY <1>1, <2>1, <2>2, WordOfRole
<1>5. <<a, b>> \in Seq(WordsOf(NotUsage))
  <2> DEFINE W == WordsOf(NotUsage)
  <2>1. a \in W /\ b \in W
    BY <1>4
  <2> HIDE DEF W
  <2>2. <<a, b>> \in Seq(W)
    BY <2>1
  <2> QED
    BY <2>2 DEF W
<1>6. write(headingOf(part)) \in Spoken(NotUsage)
  BY <1>1, <1>3, <1>5, WordsSpoken DEF headingOf
<1> QED
  BY <1>1, <1>2, <1>6, OneWordSpoken

LEMMA TitleSpoken ==
  ASSUME NEW group \in NonEmpty, group[1].group # NoGroup
  PROVE  Title(group) \in Spoken(NotUsage)
<1> DEFINE S == Spoken(NotUsage)
<1>1. \A s, t \in S : s \o t \in S
  BY SpokenConcat
<1>2. group[1] \in Parameters
  <2>1. group \in Seq(Parameters) /\ 1 \in 1..Len(group)
    BY EmptySeq DEF NonEmpty
  <2> QED
    BY <2>1, ElementOfSeq
<1>3. /\ Groups[group[1].group].title \in Names
      /\ Groups[group[1].group].description \in Texts({"text"})
  BY <1>2, ParametersAssumption
<1>4. NotUsage \subseteq Roles \cup {"help"} /\ "heading" \in NotUsage \cap Roles /\ {"text"} \subseteq NotUsage
  BY DEF NotUsage, Roles
<1>5. write(<< word(Groups[group[1].group].title, "heading") >>) \in S
  BY <1>3, <1>4, OneWordSpoken
<1>6. write(Groups[group[1].group].description) \in S
  BY <1>3, <1>4, TextsWiden, WriteSpoken
<1>7. line \in S /\ paragraph \in S /\ indent(0) \in S /\ indent(ArgumentIndent) \in S
  BY SizesAssumption, SpokenSingles
<1>8. PICK a \in S, b \in S, c \in S, d \in S, e \in S, f \in S :
        /\ a = write(<< word(Groups[group[1].group].title, "heading") >>) /\ b = line
        /\ c = indent(ArgumentIndent) /\ d = write(Groups[group[1].group].description)
        /\ e = paragraph /\ f = indent(0)
  BY <1>5, <1>6, <1>7
<1>9. Title(group) = ((((a \o b) \o c) \o d) \o e) \o f
  BY <1>8 DEF Title
<1> HIDE DEF S
<1> QED
  BY <1>1, <1>9 DEF S

LEMMA WriteGroupSpoken ==
  ASSUME NEW group \in NonEmpty, NEW column \in Nat
  PROVE  writeGroup(group, column) \in Spoken(NotUsage)
<1> DEFINE S     == Spoken(NotUsage)
           parts == reorderOptions(group)
           commands == writePart(parts.positional, << word("commands:", "heading") >>, column)
           positional == writePart(parts.positional, headingOf("positional"), column)
           required == writePart(parts.required, headingOf("required"), column)
           optional == writePart(parts.optional, headingOf("optional"), column)
           title == IF group[1].group = NoGroup THEN <<>> ELSE Title(group)
<1>1. \A s, t \in S : s \o t \in S
  BY SpokenConcat
<1>2. /\ parts.positional \in Seq(Parameters) /\ parts.required \in Seq(Parameters)
      /\ parts.optional \in Seq(Parameters)
  BY PartsTyped DEF NonEmpty
<1>3. commands \in S /\ positional \in S /\ required \in S /\ optional \in S
  BY <1>2, HeadingSpoken, WritePartSpoken
<1>4. title \in S
  BY SpokenSingles, TitleSpoken
<1>5. writeGroup(group, column) =
        title \o (IF isCommand(group[1]) THEN commands ELSE positional \o required \o optional)
  BY DEF writeGroup, Title
<1> HIDE DEF S, commands, positional, required, optional, title
<1>6. (positional \o required) \o optional \in S
  BY <1>1, <1>3
<1> QED
  BY <1>1, <1>3, <1>4, <1>5, <1>6 DEF S

-----------------------------------------------------------------------------
(* The usage lists the options.                                            *)
UsageListing(options) ==
  [ entries |-> { w \in AllWords : w.role = "usage" }, heads |-> {},
    shows   |-> { x \in AllWords \X (1..Len(options)) : UsageHead(x[1], options[x[2]]) },
    over    |-> {},
    order   |-> { x \in (1..Len(options)) \X (1..Len(options)) : x[1] < x[2] },
    things  |-> 1..Len(options) ]

LEMMA InUsageListing ==
  ASSUME NEW options
  PROVE  /\ \A w : w \in UsageListing(options).entries <=> w \in AllWords /\ w.role = "usage"
         /\ UsageListing(options).heads = {} /\ UsageListing(options).over = {}
         /\ \A w, d : <<w, d>> \in UsageListing(options).shows <=>
              w \in AllWords /\ d \in 1..Len(options) /\ UsageHead(w, options[d])
         /\ \A d, e : <<d, e>> \in UsageListing(options).order <=>
              d \in 1..Len(options) /\ e \in 1..Len(options) /\ d < e
         /\ UsageListing(options).things = 1..Len(options)
<1>1. PICK L : L = UsageListing(options)
  OBVIOUS
<1>2. /\ L.entries = { w \in AllWords : w.role = "usage" }
      /\ L.shows = { x \in AllWords \X (1..Len(options)) : UsageHead(x[1], options[x[2]]) }
      /\ L.order = { x \in (1..Len(options)) \X (1..Len(options)) : x[1] < x[2] }
      /\ L.things = 1..Len(options) /\ L.heads = {} /\ L.over = {}
  BY <1>1 DEF UsageListing
<1>3. \A w : w \in L.entries <=> w \in AllWords /\ w.role = "usage"
  BY <1>2
<1>4. \A w, d : <<w, d>> \in L.shows <=>
        w \in AllWords /\ d \in 1..Len(options) /\ UsageHead(w, options[d])
  BY <1>2
<1>5. \A d, e : <<d, e>> \in L.order <=> d \in 1..Len(options) /\ e \in 1..Len(options) /\ d < e
  BY <1>2
<1> QED
  BY <1>1, <1>2, <1>3, <1>4, <1>5

LEMMA UsageOfWords ==
  ASSUME NEW options
  PROVE  OfWords(UsageListing(options)) /\ \A s : NoHeads(UsageListing(options), s)
BY InUsageListing DEF OfWords, NoHeads

LEMMA UsageQuiet ==
  ASSUME NEW options, NEW H, NEW s, \A k \in 1..Len(s) : s[k].role # "usage"
  PROVE  Listed(UsageListing(options), s, {}, H)
<1>1. \A k \in 1..Len(s) : /\ s[k] \notin UsageListing(options).entries
                           /\ s[k] \notin UsageListing(options).heads
  BY InUsageListing
<1> QED
  BY <1>1, QuietListed

LEMMA PlainAreAll == PlainWords \subseteq AllWords
BY DEF PlainWords, AllWords, WordsOf

LEMMA OptionListed ==
  ASSUME NEW options, NEW i \in 1..Len(options), options[i] \in Parameters, options[i].kind = "option"
  PROVE  Listed(UsageListing(options), usageOf(options[i]), {i}, 1..Len(options))
<1>1. PICK L, ws : L = UsageListing(options) /\ ws = usageOf(options[i])
  OBVIOUS
<1>2. Leads(ws, {"text"}, "usage") /\ UsageHead(ws[1], options[i])
  BY <1>1, OptionUsage
<1>3. ws \in Seq(PlainWords) /\ 1 \in 1..Len(ws) /\ \A k \in 1..Len(ws) : k = 1 \/ k \in 2..Len(ws)
  BY <1>2 DEF Leads
<1>4. ws[1] \in AllWords /\ ws[1].role = "usage"
  BY <1>2, <1>3, ElementOfSeq, PlainAreAll DEF Leads
<1>5. \A k \in 2..Len(ws) : ws[k].role # "usage"
  BY <1>2 DEF Leads
<1>6. ShownAt(L, ws) = {1}
  <2>1. \A k \in 1..Len(ws) : ws[k] \in L.entries <=> k = 1
    BY <1>1, <1>3, <1>4, <1>5, InUsageListing
  <2> QED
    BY <1>3, <2>1 DEF ShownAt
<1>7. PICK f : f = [k \in {1} |-> i]
  OBVIOUS
<1>8. <<ws[1], i>> \in L.shows /\ Unheaded(L, ws, 1)
  BY <1>1, <1>2, <1>4, InUsageListing DEF Unheaded
<1>9. Lists(L, ws, {i}, 1..Len(options), f)
  <2>1. f[1] = i
    BY <1>7
  <2> QED
    BY <1>6, <1>8, <2>1 DEF Lists
<1> QED
  BY <1>1, <1>9 DEF Listed

(* The definition has its kinds apart.                                     *)
Kinds(d) ==
  /\ \A i \in 1..Len(d.options) : d.options[i].kind = "option"
  /\ \A i \in 1..Len(d.positional) : d.positional[i].kind = "positional"
  /\ \A i \in 1..Len(d.commands) : d.commands[i].kind = "command"

OptionsLead(d, args, o, n) ==
  /\ o = Len(d.options) /\ n = Len(args) /\ o <= n
  /\ \A i \in 1..n : IF i <= o THEN args[i] = d.options[i] /\ args[i].kind = "option"
                                ELSE is_positional(args[i])

LEMMA OptionsFirst ==
  ASSUME NEW d \in Definitions, Kinds(d), NEW args, args = describe_arguments(d)
  PROVE  args \in Seq(Parameters) /\ \E o \in Nat, n \in Nat : OptionsLead(d, args, o, n)
<1>1. PICK a, b, c : a = d.options /\ b = d.positional /\ c = d.commands
  OBVIOUS
<1>2. a \in Seq(Parameters) /\ b \in Seq(Parameters) /\ c \in Seq(Parameters)
  BY <1>1 DEF Definitions
<1>3. args = (a \o b) \o c
  BY <1>1 DEF describe_arguments
<1>4. PICK m \in Nat, l \in Nat, e \in Nat : m = Len(a) /\ l = Len(b) /\ e = Len(c)
  BY <1>2, LenProperties
<1>5. /\ args \in Seq(Parameters) /\ Len(args) = m + l + e
      /\ \A i \in 1..(m + l + e) :
           args[i] = IF i <= m THEN a[i] ELSE IF i <= m + l THEN b[i - m] ELSE c[i - (m + l)]
  BY <1>2, <1>3, <1>4, ThreeParts
<1>6. ASSUME NEW i \in 1..(m + l + e)
      PROVE  IF i <= m THEN args[i] = a[i] /\ args[i].kind = "option" ELSE is_positional(args[i])
  <2>1. CASE i <= m
    <3>1. args[i] = a[i] /\ i \in 1..Len(a)
      BY <1>4, <1>5, <2>1
    <3> QED
      BY <1>1, <2>1, <3>1 DEF Kinds
  <2>2. CASE ~(i <= m) /\ i <= m + l
    <3>1. args[i] = b[i - m] /\ i - m \in 1..Len(b)
      BY <1>4, <1>5, <2>2
    <3> QED
      BY <1>1, <2>2, <3>1 DEF Kinds, is_positional
  <2>3. CASE ~(i <= m) /\ ~(i <= m + l)
    <3>1. args[i] = c[i - (m + l)] /\ i - (m + l) \in 1..Len(c)
      BY <1>4, <1>5, <2>3
    <3> QED
      BY <1>1, <2>3, <3>1 DEF Kinds, is_positional
  <2> QED
    BY <2>1, <2>2, <2>3
<1>7. PICK n \in Nat : n = m + l + e /\ m <= n
  OBVIOUS
<1>8. OptionsLead(d, args, m, n)
  <2>1. \A i \in 1..n : IF i <= m THEN args[i] = d.options[i] /\ args[i].kind = "option"
                                  ELSE is_positional(args[i])
    BY <1>1, <1>6, <1>7
  <2>2. m = Len(d.options) /\ n = Len(args)
    BY <1>1, <1>4, <1>5, <1>7
  <2> QED
    BY <1>7, <2>1, <2>2 DEF OptionsLead
<1> QED
  BY <1>5, <1>8

LEMMA FormatUsageListed ==
  ASSUME NEW d \in Definitions, Kinds(d), NEW args, args = describe_arguments(d)
  PROVE  Listed(UsageListing(d.options), formatUsage(args), 1..Len(d.options), 1..Len(d.options))
<1>0. PICK o \in Nat, n \in Nat : OptionsLead(d, args, o, n)
  BY OptionsFirst
<1>1. PICK options : options = d.options /\ o = Len(options) /\ n = Len(args) /\ o <= n
  BY <1>0 DEF OptionsLead
<1>2. PICK L, H : L = UsageListing(options) /\ H = 1..o
  OBVIOUS
<1>3. /\ args \in Seq(Parameters)
      /\ \A i \in 1..n : args[i] \in Parameters
      /\ \A i \in 1..n : IF i <= o THEN args[i] = options[i] /\ args[i].kind = "option"
                                   ELSE is_positional(args[i])
  <2>1. args \in Seq(Parameters)
    BY OptionsFirst
  <2> QED
    BY <1>0, <1>1, <2>1, ElementOfSeq DEF OptionsLead
<1> DEFINE W == PlainWords
           u(i) == IF isCommand(args[i]) THEN <<>> ELSE usageOf(args[i])
           subs == IF \E i \in 1..Len(args) : isCommand(args[i])
                     THEN << word("<command>", "text"), word("...", "text") >> ELSE <<>>
<1>4. PICK parts, DD : /\ parts = [i \in 1..Len(args) |-> u(i)]
                       /\ DD = [i \in 1..n |-> IF i <= o THEN {i} ELSE {}]
  OBVIOUS
<1>5. ASSUME NEW i \in 1..n PROVE u(i) \in Seq(W) /\ Listed(L, u(i), DD[i], H)
  <2>1. CASE i <= o
    <3>1. ~isCommand(args[i])
      BY <1>3, <2>1 DEF isCommand
    <3>2. u(i) = usageOf(options[i]) /\ DD[i] = {i} /\ i \in 1..Len(options)
      BY <1>1, <1>3, <1>4, <2>1, <3>1
    <3> QED
      BY <1>1, <1>2, <1>3, <2>1, <3>2, OptionListed, UsageTyped
  <2>2. CASE ~(i <= o)
    <3>1. is_positional(args[i]) /\ DD[i] = {}
      BY <1>3, <1>4, <2>2
    <3>2. u(i) \in Seq(W) /\ \A k \in 1..Len(u(i)) : u(i)[k].role # "usage"
      <4>1. CASE isCommand(args[i])
        <5>1. <<>> \in Seq(W) /\ Len(<<>>) = 0
          OBVIOUS
        <5> QED
          BY <4>1, <5>1
      <4>2. CASE ~isCommand(args[i])
        BY <1>3, <3>1, <4>2, OtherUsage
      <4> QED
        BY <4>1, <4>2
    <3> HIDE DEF u
    <3> QED
      BY <1>2, <3>1, <3>2, UsageQuiet
  <2> QED
    BY <2>1, <2>2
<1>6. parts \in [1..n -> Seq(W)] /\ \A i \in 1..n : parts[i] = u(i)
  <2> DEFINE S == Seq(W)
  <2>1. \A i \in 1..n : u(i) \in S
    BY <1>5
  <2> HIDE DEF S, u
  <2>2. parts \in [1..n -> S] /\ \A i \in 1..n : parts[i] = u(i)
    BY <1>1, <1>4, <2>1
  <2> QED
    BY <2>2 DEF S
<1> HIDE DEF u, W
<1>7. FlattenSeq(parts) \in Seq(W) /\ Listed(L, FlattenSeq(parts), Together(DD, n), H)
  <2>1. \A i \in 1..n : Listed(L, parts[i], DD[i], H) /\ NoHeads(L, parts[i])
    BY <1>2, <1>5, <1>6, UsageOfWords
  <2>2. ASSUME NEW i \in 1..n, NEW j \in 1..n, i < j, NEW x \in DD[i], NEW y \in DD[j]
        PROVE  <<x, y>> \in L.order
    <3>1. \A k \in 1..n : DD[k] = IF k <= o THEN {k} ELSE {}
      BY <1>4
    <3>2. \A k \in 1..n : \A z \in DD[k] : k <= o /\ z = k
      BY <3>1
    <3>3. i <= o /\ j <= o /\ x = i /\ y = j
      BY <2>2, <3>2
    <3>4. x \in 1..Len(options) /\ y \in 1..Len(options) /\ x < y
      BY <1>1, <2>2, <3>3
    <3>5. <<x, y>> \in UsageListing(options).order
      BY <3>4, InUsageListing
    <3> QED
      BY <1>2, <3>5
  <2> QED
    BY <1>6, <2>1, <2>2, ListedFlatten
<1>8. Together(DD, n) = 1..o
  <2>1. ASSUME NEW x PROVE x \in Together(DD, n) <=> x \in 1..o
    <3>1. x \in Together(DD, n) <=> \E i \in 1..n : x \in DD[i]
      BY InTogether
    <3>2. ASSUME NEW i \in 1..n, x \in DD[i] PROVE x \in 1..o
      BY <1>4, <3>2
    <3>3. ASSUME x \in 1..o PROVE \E i \in 1..n : x \in DD[i]
      <4>1. x \in 1..n /\ x \in DD[x]
        BY <1>1, <1>4, <3>3
      <4> QED
        BY <4>1
    <3> QED
      BY <3>1, <3>2, <3>3
  <2> QED
    BY <2>1
<1>9. subs \in Seq(W) /\ \A k \in 1..Len(subs) : subs[k].role # "usage"
  <2>1. PICK a, b : a = word("<command>", "text") /\ b = word("...", "text")
    OBVIOUS
  <2>2. a \in W /\ b \in W
    BY <2>1, OwnWordTyped DEF OwnNames, Roles, W
  <2>3. a.role = "text" /\ b.role = "text"
    BY <2>1 DEF word
  <2>4. <<a, b>> \in Seq(W) /\ \A k \in 1..Len(<<a, b>>) : <<a, b>>[k].role # "usage"
    <3>1. PICK c : c = <<a, b>>
      OBVIOUS
    <3>2. c \in Seq(W) /\ Len(c) = 2 /\ c[1] = a /\ c[2] = b
      BY <2>2, <3>1
    <3>3. \A k \in 1..Len(c) : c[k].role # "usage"
      BY <2>3, <3>2
    <3> QED
      BY <3>1, <3>2, <3>3
  <2>5. <<>> \in Seq(W) /\ \A k \in 1..Len(<<>>) : <<>>[k].role # "usage"
    OBVIOUS
  <2> QED
    BY <2>1, <2>4, <2>5
<1>10. formatUsage(args) = FlattenSeq(parts) \o subs
  BY <1>4 DEF formatUsage, u
<1> HIDE DEF subs
<1>11. Listed(L, subs, {}, H) /\ NoHeads(L, FlattenSeq(parts))
  BY <1>2, <1>9, UsageQuiet, UsageOfWords
<1>12. Listed(L, FlattenSeq(parts) \o subs, Together(DD, n) \cup {}, H)
  <2>1. \A x \in Together(DD, n), y \in {} : <<x, y>> \in L.order
    OBVIOUS
  <2>2. PICK D, E, s : D = Together(DD, n) /\ E = {} /\ s = FlattenSeq(parts)
    OBVIOUS
  <2>3. Listed(L, s \o subs, D \cup E, H)
    BY <1>7, <1>9, <1>11, <2>1, <2>2, ListedConcat
  <2> QED
    BY <2>2, <2>3
<1>13. Together(DD, n) \cup {} = 1..o
  BY <1>8
<1> QED
  BY <1>1, <1>2, <1>10, <1>12, <1>13

(* The text of the usage, if the client gives none.                        *)
OwnUsage(d, c) == c.program \o formatUsage(describe_arguments(d))

LEMMA OwnUsageTyped ==
  ASSUME NEW d \in Definitions, NEW c \in Configs
  PROVE  OwnUsage(d, c) \in Texts(Roles)
<1> DEFINE T == WordsOf(Roles) \cup {Break}
<1>1. PICK args \in Seq(Parameters) : args = describe_arguments(d)
  BY DescribedTyped
<1>2. c.program \in Seq(T)
  <2>1. WordsOf({"text"}) \cup {Break} \subseteq T
    BY DEF WordsOf, Roles
  <2> QED
    BY <2>1, ConfigsAssumption, SeqMonotonic DEF Texts
<1>3. formatUsage(args) \in Seq(T)
  <2>1. PlainWords \subseteq T
    BY DEF PlainWords
  <2> QED
    BY <2>1, FormatUsageTyped, SeqMonotonic
<1> HIDE DEF T
<1>4. c.program \o formatUsage(args) \in Seq(T)
  BY <1>2, <1>3, ConcatProperties
<1> QED
  BY <1>1, <1>4 DEF Texts, T, OwnUsage

LEMMA OwnUsageListed ==
  ASSUME NEW d \in Definitions, Kinds(d), NEW c \in Configs
  PROVE  Listed(UsageListing(d.options), OwnUsage(d, c), 1..Len(d.options), 1..Len(d.options))
<1> DEFINE T == WordsOf(Roles) \cup {Break}
<1>1. PICK args \in Seq(Parameters) : args = describe_arguments(d)
  BY DescribedTyped
<1>2. PICK L, H : L = UsageListing(d.options) /\ H = 1..Len(d.options)
  OBVIOUS
<1>3. PICK s, t : s = c.program /\ t = formatUsage(args)
  OBVIOUS
<1>4. s \in Seq(T) /\ \A k \in 1..Len(s) : s[k].role # "usage"
  <2>1. s \in Texts({"text"})
    BY <1>3, ConfigsAssumption
  <2>2. WordsOf({"text"}) \cup {Break} \subseteq T
    BY DEF WordsOf, Roles
  <2>3. s \in Seq(T)
    BY <2>1, <2>2, SeqMonotonic DEF Texts
  <2>4. ASSUME NEW k \in 1..Len(s) PROVE s[k].role # "usage"
    <3>1. s[k] \in WordsOf({"text"}) \cup {Break}
      BY <2>1, ElementOfSeq DEF Texts
    <3> QED
      BY <3>1 DEF WordsOf, Break
  <2> QED
    BY <2>3, <2>4
<1>5. t \in Seq(T)
  <2>1. PlainWords \subseteq T
    BY DEF PlainWords
  <2> QED
    BY <1>3, <2>1, FormatUsageTyped, SeqMonotonic
<1> HIDE DEF T
<1>6. Listed(L, s, {}, H) /\ NoHeads(L, s)
  BY <1>2, <1>4, UsageQuiet, UsageOfWords
<1>7. Listed(L, t, H, H)
  BY <1>1, <1>2, <1>3, FormatUsageListed
<1>8. PICK D : D = {}
  OBVIOUS
<1>9. Listed(L, s \o t, D \cup H, H)
  BY <1>4, <1>5, <1>6, <1>7, <1>8, ListedConcat
<1>10. D \cup H = H
  BY <1>8
<1> QED
  BY <1>1, <1>2, <1>3, <1>9, <1>10 DEF OwnUsage

LEMMA FreeListed ==
  ASSUME NEW L, L.heads = {}, NEW D, NEW H, NEW s \in Seq(Calls), Listed(L, s, D, H), NEW t \in Silent(L)
  PROVE  s \o t \in Seq(Calls) /\ Listed(L, s \o t, D, H)
<1>1. NoHeads(L, s)
  BY DEF NoHeads
<1> QED
  BY <1>1, BeforeSilent

LEMMA GroupsSpoken ==
  ASSUME NEW args \in Seq(Parameters), NEW column \in Nat, NEW groups, groups = reorderGroups(args)
  PROVE  FlattenSeq([i \in 1..Len(groups) |-> writeGroup(groups[i], column)]) \in Spoken(NotUsage)
<1> DEFINE S == Spoken(NotUsage)
<1>1. PICK m \in Nat : m = Len(reorderGroups(args)) /\ reorderGroups(args) \in [1..m -> NonEmpty]
  BY GroupsTyped
<1>2. PICK ss : ss = [i \in 1..Len(groups) |-> writeGroup(groups[i], column)]
  OBVIOUS
<1>3. ss \in [1..m -> S]
  <2>1. \A i \in 1..m : groups[i] \in NonEmpty
    BY <1>1
  <2>2. \A i \in 1..m : writeGroup(groups[i], column) \in S
    BY <2>1, WriteGroupSpoken
  <2> HIDE DEF S
  <2> QED
    BY <1>1, <1>2, <2>2
<1> QED
  BY <1>2, <1>3, FlattenSpoken

LEMMA BlockSpoken ==
  ASSUME NEW R, R \subseteq Roles \cup {"help"}, "text" \in R, NEW text \in Texts({"text"})
  PROVE  writeBlock(text) \in Spoken(R)
<1>1. write(text) \in Spoken(R)
  BY TextsWiden, WriteSpoken
<1>2. paragraph \in Spoken(R) /\ <<>> \in Spoken(R)
  BY SpokenSingles
<1>3. write(text) \o paragraph \in Spoken(R)
  BY <1>1, <1>2, SpokenConcat
<1> QED
  BY <1>2, <1>3 DEF writeBlock

LEMMA UsageListed ==
  ASSUME NEW d \in Definitions, Kinds(d), NEW c \in Configs, c.usage = <<>>
  PROVE  Listed(Written(UsageListing(d.options)), format(d, c), 1..Len(d.options), 1..Len(d.options))
<1>1. PICK args \in Seq(Parameters) : args = describe_arguments(d)
  BY DescribedTyped
<1>2. PICK column \in Nat : column = descriptionIndent(args)
  BY ColumnTyped
<1>3. PICK L, M, H : L = UsageListing(d.options) /\ M = Written(L) /\ H = 1..Len(d.options)
  OBVIOUS
<1>4. Spoken(NotUsage) \subseteq Silent(M)
  <2>1. ASSUME NEW call \in CallsOf(NotUsage) PROVE call \notin M.entries /\ call \notin M.heads
    <3>1. call \in WordCalls => call.word.role # "usage"
      BY DEF CallsOf, NotUsage, WordCalls
    <3>2. /\ call \in M.entries => call \in WordCalls /\ call.word \in L.entries
          /\ call \in M.heads => call.word \in L.heads
      BY <1>3, InWritten
    <3>3. (call.word \in L.entries => call.word.role = "usage") /\ call.word \notin L.heads
      BY <1>3, InUsageListing
    <3> QED
      BY <3>1, <3>2, <3>3
  <2> QED
    BY <2>1, SpokenSilent
<1>5. M.heads = {}
  <2>1. \A call : call \notin M.heads
    BY <1>3, InWritten, InUsageListing
  <2> QED
    BY <2>1
<1> DEFINE S == Spoken(NotUsage)
<1>6. NotUsage \subseteq Roles \cup {"help"} /\ "text" \in NotUsage /\ "text" \in NotUsage \cap Roles
  BY DEF NotUsage, Roles
<1>7. write(<< word("usage:", "text") >>) \in S
  <2>1. "usage:" \in Names
    BY SizesAssumption DEF OwnNames
  <2> QED
    BY <1>6, <2>1, OneWordSpoken
<1>8. paragraph \in S /\ writeBlock(c.description) \in S /\ writeBlock(c.epilog) \in S
  BY <1>6, ConfigsAssumption, SpokenSingles, BlockSpoken
<1>9. PICK groups : groups = reorderGroups(args)
  OBVIOUS
<1>10. FlattenSeq([i \in 1..Len(groups) |-> writeGroup(groups[i], column)]) \in S
  BY <1>9, GroupsSpoken
<1>11. PICK u \in S, w \in S, x \in S, y \in S, z \in S :
         /\ u = write(<< word("usage:", "text") >>) /\ w = paragraph /\ x = writeBlock(c.description)
         /\ y = FlattenSeq([i \in 1..Len(groups) |-> writeGroup(groups[i], column)])
         /\ z = writeBlock(c.epilog)
  BY <1>7, <1>8, <1>10
<1>12. PICK v : v = write(OwnUsage(d, c))
  OBVIOUS
<1>13. v \in Seq(Calls) /\ Listed(M, v, H, H)
  <2>1. OwnUsage(d, c) \in Texts(Roles) /\ Roles \subseteq Roles \cup {"help"}
    BY OwnUsageTyped
  <2>2. OwnUsage(d, c) \in Texts(Roles \cup {"help"})
    BY <2>1, TextsWiden
  <2>3. Listed(L, OwnUsage(d, c), H, H) /\ OfWords(L)
    BY <1>3, OwnUsageListed, UsageOfWords
  <2>4. v \in Seq(Calls)
    BY <1>12, <2>1, WriteCalls
  <2> QED
    BY <1>3, <1>12, <2>2, <2>3, <2>4, WriteListed
<1>14. format(d, c) = ((((u \o v) \o w) \o x) \o y) \o z
  BY <1>1, <1>2, <1>9, <1>11, <1>12 DEF format, OwnUsage
<1>15. /\ u \in Silent(M) /\ w \in Silent(M) /\ x \in Silent(M) /\ y \in Silent(M) /\ z \in Silent(M)
  BY <1>4
<1>16. u \o v \in Seq(Calls) /\ Listed(M, u \o v, H, H)
  BY <1>13, <1>15, AfterSilent
<1>17. PICK s1, s2, s3, s4, s5 : /\ s1 = u \o v /\ s2 = s1 \o w /\ s3 = s2 \o x /\ s4 = s3 \o y
                                 /\ s5 = s4 \o z
  OBVIOUS
<1>18. s2 \in Seq(Calls) /\ Listed(M, s2, H, H)
  BY <1>5, <1>15, <1>16, <1>17, FreeListed
<1>19. s3 \in Seq(Calls) /\ Listed(M, s3, H, H)
  BY <1>5, <1>15, <1>17, <1>18, FreeListed
<1>20. s4 \in Seq(Calls) /\ Listed(M, s4, H, H)
  BY <1>5, <1>15, <1>17, <1>19, FreeListed
<1>21. Listed(M, s5, H, H)
  BY <1>5, <1>15, <1>17, <1>20, FreeListed
<1> QED
  BY <1>3, <1>14, <1>17, <1>21

-----------------------------------------------------------------------------
(* The pieces on the stream.  Only a word adds one.                        *)
Printed(w) == FlattenSeq(w.lines) \o w.line

LEMMA PrintedTyped ==
  ASSUME NEW Words, NEW w \in Writers(Words)
  PROVE  Printed(w) \in Seq(Pieces(Words))
<1> DEFINE P == Pieces(Words)
<1>1. w.line \in Seq(P) /\ w.lines \in Seq(Seq(P))
  BY Members
<1> HIDE DEF P
<1>2. FlattenSeq(w.lines) \in Seq(P)
  BY <1>1, FlattenPlaces
<1> QED
  BY <1>1, <1>2, ConcatProperties DEF Printed, P

LEMMA PrintedSame ==
  ASSUME NEW w, NEW u, u.lines = w.lines, u.line = w.line
  PROVE  Printed(u) = Printed(w)
BY DEF Printed

LEMMA NewlinePrinted ==
  ASSUME NEW Words, NEW w \in Writers(Words)
  PROVE  newline(w) \in Writers(Words) /\ Printed(newline(w)) = Printed(w)
<1> DEFINE P == Pieces(Words)
<1>1. w.line \in Seq(P) /\ w.lines \in Seq(Seq(P))
  BY Members
<1>2. PICK u : u = newline(w)
  OBVIOUS
<1>3. u \in Writers(Words) /\ u.line = <<>> /\ u.lines = Append(w.lines, w.line)
  BY <1>2, NewlineFields
<1> HIDE DEF P
<1>4. FlattenSeq(Append(w.lines, w.line)) = FlattenSeq(w.lines) \o w.line
  BY <1>1, FlattenAppend
<1>5. FlattenSeq(w.lines) \o w.line \in Seq(P)
  BY PrintedTyped DEF Printed, P
<1>6. Printed(u) = (FlattenSeq(w.lines) \o w.line) \o <<>>
  BY <1>3, <1>4 DEF Printed
<1>7. (FlattenSeq(w.lines) \o w.line) \o <<>> = FlattenSeq(w.lines) \o w.line
  BY <1>5, ConcatEmptySeq
<1> QED
  BY <1>2, <1>3, <1>6, <1>7 DEF Printed

LEMMA ResetFields ==
  ASSUME NEW Words, NEW v \in Writers(Words),
         NEW u, u = [v EXCEPT !.position = 0, !.lastWritePosition = 0, !.startOfParagraph = FALSE]
  PROVE  u \in Writers(Words) /\ u.line = v.line /\ u.lines = v.lines
BY DEF Writers, Typed

LEMMA StartLinePrinted ==
  ASSUME NEW Words, NEW w \in Writers(Words)
  PROVE  startLine(w) \in Writers(Words) /\ Printed(startLine(w)) = Printed(w)
<1>1. PICK v : v = IF w.position > 0 THEN newline(w) ELSE w
  OBVIOUS
<1>2. v \in Writers(Words) /\ Printed(v) = Printed(w)
  BY <1>1, NewlinePrinted
<1>3. startLine(w) = [v EXCEPT !.position = 0, !.lastWritePosition = 0, !.startOfParagraph = FALSE]
  BY <1>1 DEF startLine
<1>4. startLine(w) \in Writers(Words) /\ startLine(w).line = v.line /\ startLine(w).lines = v.lines
  BY <1>2, <1>3, ResetFields
<1> QED
  BY <1>2, <1>4, PrintedSame

LEMMA StartParagraphPrinted ==
  ASSUME NEW Words, NEW w \in Writers(Words)
  PROVE  Printed(startParagraph(w)) = Printed(w)
<1>1. CASE w.startOfParagraph
  BY <1>1 DEF startParagraph
<1>2. CASE ~w.startOfParagraph
  <2>1. PICK v : v = newline(startLine(w))
    OBVIOUS
  <2>2. v \in Writers(Words) /\ Printed(v) = Printed(w)
    BY <2>1, StartLinePrinted, NewlinePrinted
  <2>3. startParagraph(w) = [v EXCEPT !.startOfParagraph = TRUE]
    BY <1>2, <2>1 DEF startParagraph
  <2>4. startParagraph(w).line = v.line /\ startParagraph(w).lines = v.lines
    BY <2>2, <2>3 DEF Writers, Typed
  <2> QED
    BY <2>2, <2>4, PrintedSame
<1> QED
  BY <1>1, <1>2

LEMMA SkipPrinted ==
  ASSUME NEW Words, NEW w \in Writers(Words), NEW n \in Nat
  PROVE  Printed(skipToColumnOrNewLine(w, n)) = Printed(w)
<1>1. CASE n >= Width \/ n < w.position
  BY <1>1, StartLinePrinted DEF skipToColumnOrNewLine
<1>2. CASE ~(n >= Width \/ n < w.position)
  <2>1. PICK c, u : c = w.column + (n - w.position) /\ u = skipToColumnOrNewLine(w, n)
    OBVIOUS
  <2>2. u = Skipped(w, c, n)
    BY <1>2, <2>1 DEF skipToColumnOrNewLine, blanks, Skipped
  <2>3. c \in Columns /\ n \in Columns
    BY <1>2, <2>1, Members DEF Columns
  <2>4. u.lines = w.lines /\ u.line = w.line
    BY <2>2, <2>3, SkippedFields
  <2> QED
    BY <2>1, <2>4, PrintedSame
<1> QED
  BY <1>1, <1>2

LEMMA SetIndentPrinted ==
  ASSUME NEW Words, NEW w \in Writers(Words), NEW n
  PROVE  Printed(setIndent(w, n)) = Printed(w)
<1>1. setIndent(w, n).line = w.line /\ setIndent(w, n).lines = w.lines
  BY DEF setIndent, Writers, Typed
<1> QED
  BY <1>1, PrintedSame

AppendsLast(s, t, x) == s \o Append(t, x) = Append(s \o t, x)

LEMMA ConcatAppend ==
  ASSUME NEW S, NEW s \in Seq(S), NEW t \in Seq(S), NEW x \in S
  PROVE  AppendsLast(s, t, x)
<1>1. <<x>> \in Seq(S) /\ Append(t, x) = t \o <<x>>
  OBVIOUS
<1>2. s \o t \in Seq(S)
  BY ConcatProperties
<1>3. Append(s \o t, x) = (s \o t) \o <<x>>
  BY <1>2
<1>4. (s \o t) \o <<x>> = s \o (t \o <<x>>)
  BY <1>1, ConcatAssociative
<1> QED
  BY <1>1, <1>3, <1>4 DEF AppendsLast

LEMMA MovedPrinted ==
  ASSUME NEW Words, NEW w \in Writers(Words), NEW c \in Columns, NEW p \in Columns
  PROVE  Moved(w, c, p) \in Writers(Words) /\ Printed(Moved(w, c, p)) = Printed(w)
BY MovedFields, PrintedSame

LEMMA WordPrinted ==
  ASSUME NEW Words, AreWords(Words), NEW w \in Writers(Words), w.column = w.position, NEW item \in Words
  PROVE  \E n \in Nat : Printed(writeWord(w, item)) = Append(Printed(w), PieceAt(n, item))
<1>1. PICK s : s = IF newPosition(w, item) > Width THEN startLine(w) ELSE space(w)
  OBVIOUS
<1>2. PICK v : v = indented(s)
  OBVIOUS
<1>3. PICK u : u = WithWord(v, item) /\ u = writeWord(w, item)
  BY <1>1, <1>2 DEF writeWord, WithWord
<1>4. s \in Writers(Words) /\ Printed(s) = Printed(w)
  <2>1. s = startLine(w) \/ s = w \/ s = Moved(w, w.column + 1, w.position + 1)
    BY <1>1 DEF space, blanks, Moved
  <2>2. w.column + 1 \in Columns /\ w.position + 1 \in Columns
    BY Members DEF Columns
  <2>3. CASE s = Moved(w, w.column + 1, w.position + 1)
    BY <2>2, <2>3, MovedPrinted
  <2> QED
    BY <2>1, <2>3, StartLinePrinted
<1>5. v \in Writers(Words) /\ Printed(v) = Printed(w)
  <2>1. v = s \/ v = Moved(s, s.column + s.indent, s.indent)
    BY <1>2 DEF indented, blanks, Moved
  <2>2. s.column + s.indent \in Columns /\ s.indent \in Columns
    BY <1>4, Members, WidthAssumption DEF Columns
  <2>3. CASE v = Moved(s, s.column + s.indent, s.indent)
    BY <1>4, <2>2, <2>3, MovedPrinted
  <2> QED
    BY <1>4, <2>1, <2>3
<1>6. u.line = Append(v.line, PieceAt(v.column, item)) /\ u.lines = v.lines
  <2>1. v \in Writers(Words) /\ u = WithWord(v, item)
    BY <1>3, <1>5
  <2> QED
    BY <2>1, PlacedLines
<1> DEFINE P == Pieces(Words)
<1>7. PICK x : x = PieceAt(v.column, item)
  OBVIOUS
<1>8. x \in P /\ v.line \in Seq(P) /\ v.lines \in Seq(Seq(P)) /\ v.column \in Nat
  BY <1>5, <1>7, Members DEF PieceAt, Pieces
<1> HIDE DEF P
<1>9. PICK a, b : a = FlattenSeq(v.lines) /\ b = v.line /\ a \in Seq(P) /\ b \in Seq(P)
  BY <1>8, FlattenPlaces
<1>10. AppendsLast(a, b, x)
  BY <1>8, <1>9, ConcatAppend
<1>11. a \o Append(b, x) = Append(a \o b, x)
  BY <1>10 DEF AppendsLast
<1>12. Printed(u) = Append(Printed(v), x)
  BY <1>6, <1>7, <1>9, <1>10, <1>11 DEF Printed
<1> QED
  BY <1>3, <1>5, <1>7, <1>8, <1>12

-----------------------------------------------------------------------------
(* s is what is left of the script F after m calls; ps are the pieces that *)
(* its words have become, and h tells which calls wrote them.              *)
SoFar(F, s, m, ps, h) ==
  /\ Len(F) \in Nat /\ m \in 0..Len(F)
  /\ Len(s) = Len(F) - m /\ \A k \in 1..Len(s) : s[k] = F[m + k]
  /\ Len(ps) \in Nat
  /\ \A x \in 1..Len(ps) : h[x] \in 1..m /\ F[h[x]] \in WordCalls /\ ps[x].word = F[h[x]].word
  /\ \A x, y \in 1..Len(ps) : x < y => h[x] < h[y]
  /\ \A y \in 1..m : F[y] \in WordCalls => \E x \in 1..Len(ps) : h[x] = y

LEMMA CallPrinted ==
  ASSUME NEW w \in Writers(AllWords), w.column = w.position, NEW call \in Calls, NEW u, u = Called(w, call)
  PROVE  /\ call \notin WordCalls => Printed(u) = Printed(w)
         /\ call \in WordCalls => \E n \in Nat : Printed(u) = Append(Printed(w), PieceAt(n, call.word))
<1>1. CASE call.do = "word"
  <2>1. call.word \in AllWords /\ call \in WordCalls /\ u = writeWord(w, call.word)
    BY <1>1 DEF Calls, Called, WordCalls
  <2> QED
    BY <2>1, AllWordsAreWords, WordPrinted
<1>2. CASE call.do = "line"
  <2>1. u = startLine(w) /\ call \notin WordCalls
    BY <1>2 DEF Called, WordCalls
  <2> QED
    BY <2>1, StartLinePrinted
<1>3. CASE call.do = "paragraph"
  <2>1. u = startParagraph(w) /\ call \notin WordCalls
    BY <1>3 DEF Called, WordCalls
  <2> QED
    BY <2>1, StartParagraphPrinted
<1>4. CASE call.do = "skip"
  <2>1. u = skipToColumnOrNewLine(w, call.to) /\ call.to \in Nat /\ call \notin WordCalls
    BY <1>4 DEF Called, Calls, WordCalls
  <2> QED
    BY <2>1, SkipPrinted
<1>5. CASE call.do = "indent"
  <2>1. u = setIndent(w, call.to) /\ call \notin WordCalls
    BY <1>5 DEF Called, WordCalls
  <2> QED
    BY <2>1, SetIndentPrinted
<1> QED
  BY <1>1, <1>2, <1>3, <1>4, <1>5 DEF Calls

LEMMA SoFarTail ==
  ASSUME NEW F, NEW s \in Seq(Calls), s # <<>>, NEW m, NEW ps, NEW h, SoFar(F, s, m, ps, h)
  PROVE  /\ m + 1 \in 1..Len(F) /\ F[m + 1] = s[1] /\ m \in Nat
         /\ Len(Tail(s)) = Len(F) - (m + 1) /\ \A k \in 1..Len(Tail(s)) : Tail(s)[k] = F[(m + 1) + k]
<1> DEFINE C == Calls
<1>1. s \in Seq(C)
  OBVIOUS
<1> HIDE DEF C
<1>2. PICK t : t = Tail(s)
  OBVIOUS
<1>3. Len(s) \in Nat \ {0} /\ Len(t) = Len(s) - 1 /\ \A k \in 1..Len(t) : t[k] = s[k + 1]
  BY <1>1, <1>2, EmptySeq
<1>4. PICK f \in Nat, n \in Nat : /\ f = Len(F) /\ n = Len(s) /\ m \in 0..f /\ n = f - m
                                  /\ \A k \in 1..n : s[k] = F[m + k]
  BY <1>3 DEF SoFar
<1>5. n # 0 /\ Len(t) = n - 1
  BY <1>3, <1>4
<1>6. m + 1 \in 1..f /\ n - 1 = f - (m + 1) /\ m \in Nat
  BY <1>4, <1>5
<1>7. ASSUME NEW k \in 1..(n - 1) PROVE t[k] = F[(m + 1) + k]
  <2>1. k + 1 \in 1..n /\ m + (k + 1) = (m + 1) + k
    BY <1>4
  <2>2. t[k] = s[k + 1] /\ s[k + 1] = F[m + (k + 1)]
    BY <1>3, <1>4, <1>5, <2>1
  <2> QED
    BY <2>1, <2>2
<1>8. F[m + 1] = s[1]
  BY <1>4, <1>5
<1> QED
  BY <1>2, <1>4, <1>5, <1>6, <1>7, <1>8

LEMMA SilentSoFar ==
  ASSUME NEW F, NEW s \in Seq(Calls), s # <<>>, NEW m, NEW ps, NEW h, SoFar(F, s, m, ps, h),
         s[1] \notin WordCalls
  PROVE  SoFar(F, Tail(s), m + 1, ps, h)
<1>1. /\ m + 1 \in 1..Len(F) /\ F[m + 1] = s[1] /\ m \in Nat
      /\ Len(Tail(s)) = Len(F) - (m + 1) /\ \A k \in 1..Len(Tail(s)) : Tail(s)[k] = F[(m + 1) + k]
  BY SoFarTail
<1>2. PICK n \in Nat, f \in Nat : n = Len(ps) /\ f = Len(F)
  BY DEF SoFar
<1>3. /\ \A x \in 1..n : h[x] \in 1..m /\ F[h[x]] \in WordCalls /\ ps[x].word = F[h[x]].word
      /\ \A x, y \in 1..n : x < y => h[x] < h[y]
      /\ \A y \in 1..m : F[y] \in WordCalls => \E x \in 1..n : h[x] = y
  BY <1>2 DEF SoFar
<1>4. \A x \in 1..n : h[x] \in 1..(m + 1)
  BY <1>1, <1>3
<1>5. ASSUME NEW y \in 1..(m + 1), F[y] \in WordCalls PROVE \E x \in 1..n : h[x] = y
  <2>1. y \in 1..m
    BY <1>1, <1>5
  <2> QED
    BY <1>3, <1>5, <2>1
<1>6. m + 1 \in 0..f
  BY <1>1, <1>2
<1> QED
  BY <1>1, <1>2, <1>3, <1>4, <1>5, <1>6 DEF SoFar

LEMMA WordSoFar ==
  ASSUME NEW F, NEW s \in Seq(Calls), s # <<>>, NEW m, NEW P, NEW ps \in Seq(P), NEW h, SoFar(F, s, m, ps, h),
         s[1] \in WordCalls, NEW piece \in P, piece.word = s[1].word
  PROVE  \E g : SoFar(F, Tail(s), m + 1, Append(ps, piece), g)
<1>1. /\ m + 1 \in 1..Len(F) /\ F[m + 1] = s[1] /\ m \in Nat
      /\ Len(Tail(s)) = Len(F) - (m + 1) /\ \A k \in 1..Len(Tail(s)) : Tail(s)[k] = F[(m + 1) + k]
  BY SoFarTail
<1>2. PICK n \in Nat, f \in Nat : n = Len(ps) /\ f = Len(F)
  BY DEF SoFar
<1>3. /\ \A x \in 1..n : h[x] \in 1..m /\ F[h[x]] \in WordCalls /\ ps[x].word = F[h[x]].word
      /\ \A x, y \in 1..n : x < y => h[x] < h[y]
      /\ \A y \in 1..m : F[y] \in WordCalls => \E x \in 1..n : h[x] = y
  BY <1>2 DEF SoFar
<1>4. PICK u : u = Append(ps, piece)
  OBVIOUS
<1>5. Len(u) = n + 1 /\ u[n + 1] = piece /\ \A x \in 1..n : u[x] = ps[x]
  BY <1>2, <1>4, AppendProperties
<1>6. PICK g : g = [x \in 1..(n + 1) |-> IF x <= n THEN h[x] ELSE m + 1]
  OBVIOUS
<1>7. g[n + 1] = m + 1 /\ \A x \in 1..n : g[x] = h[x]
  <2>1. n + 1 \in 1..(n + 1) /\ ~(n + 1 <= n) /\ \A x \in 1..n : x \in 1..(n + 1) /\ x <= n
    OBVIOUS
  <2> QED
    BY <1>6, <2>1
<1>8. ASSUME NEW x \in 1..(n + 1)
      PROVE  g[x] \in 1..(m + 1) /\ F[g[x]] \in WordCalls /\ u[x].word = F[g[x]].word
  <2>1. CASE x \in 1..n
    <3>1. g[x] = h[x] /\ u[x] = ps[x]
      BY <1>5, <1>7, <2>1
    <3>2. h[x] \in 1..m /\ F[h[x]] \in WordCalls /\ ps[x].word = F[h[x]].word
      BY <1>3, <2>1
    <3> QED
      BY <1>1, <3>1, <3>2
  <2>2. CASE x = n + 1
    BY <1>1, <1>5, <1>7, <2>2
  <2> QED
    BY <2>1, <2>2
<1>9. ASSUME NEW x \in 1..(n + 1), NEW y \in 1..(n + 1), x < y PROVE g[x] < g[y]
  <2>1. x \in 1..n
    BY <1>9
  <2>2. CASE y \in 1..n
    BY <1>3, <1>7, <1>9, <2>1, <2>2
  <2>3. CASE y = n + 1
    <3>1. h[x] \in 1..m /\ g[x] = h[x] /\ g[y] = m + 1
      BY <1>3, <1>7, <2>1, <2>3
    <3> QED
      BY <1>1, <3>1
  <2> QED
    BY <2>2, <2>3
<1>10. ASSUME NEW y \in 1..(m + 1), F[y] \in WordCalls PROVE \E x \in 1..(n + 1) : g[x] = y
  <2>1. CASE y \in 1..m
    <3>1. PICK x \in 1..n : h[x] = y
      BY <1>3, <1>10, <2>1
    <3> QED
      BY <1>7, <3>1
  <2>2. CASE y = m + 1
    BY <1>7, <2>2
  <2> QED
    BY <1>1, <2>1, <2>2
<1>11. m + 1 \in 0..f
  BY <1>1, <1>2
<1>12. SoFar(F, Tail(s), m + 1, u, g)
  BY <1>1, <1>2, <1>5, <1>8, <1>9, <1>10, <1>11 DEF SoFar
<1> QED
  BY <1>4, <1>12

LEMMA AllTold ==
  ASSUME NEW F, NEW m, NEW ps, NEW h, SoFar(F, <<>>, m, ps, h)
  PROVE  \E g : Tells(F, [x \in 1..Len(ps) |-> ps[x].word], g)
<1>1. PICK n \in Nat, f \in Nat : n = Len(ps) /\ f = Len(F) /\ m \in 0..f
  BY DEF SoFar
<1>2. m = f
  <2>1. Len(<<>>) = 0
    OBVIOUS
  <2> QED
    BY <1>1, <2>1 DEF SoFar
<1>3. /\ \A x \in 1..n : h[x] \in 1..m /\ F[h[x]] \in WordCalls /\ ps[x].word = F[h[x]].word
      /\ \A x, y \in 1..n : x < y => h[x] < h[y]
      /\ \A y \in 1..m : F[y] \in WordCalls => \E x \in 1..n : h[x] = y
  BY <1>1 DEF SoFar
<1>4. PICK g, ws : g = [x \in 1..n |-> h[x]] /\ ws = [x \in 1..n |-> ps[x].word]
  OBVIOUS
<1>5. Len(ws) = n /\ \A x \in 1..n : g[x] = h[x] /\ ws[x] = ps[x].word
  BY <1>4
<1>6. g \in [1..n -> 1..f]
  BY <1>2, <1>3, <1>4
<1>7. Tells(F, ws, g)
  BY <1>1, <1>2, <1>3, <1>5, <1>6 DEF Tells
<1> QED
  BY <1>1, <1>4, <1>7

-----------------------------------------------------------------------------
(* Of the script that format made, what has been called is on the stream.  *)
ShowInv ==
  /\ HelpInv /\ Kinds(definition)
  /\ \/ script = <<>> /\ writer = newWriter
     \/ \E m, h : SoFar(format(definition, config), script, m, Printed(writer), h)

LEMMA ShowInvInit == HelpInit => ShowInv
<1> SUFFICES ASSUME HelpInit PROVE ShowInv
  OBVIOUS
<1>1. /\ definition = Nothing /\ script = <<>> /\ writer = newWriter
  BY DEF HelpInit
<1>2. Kinds(definition)
  <2>1. Len(<<>>) = 0
    OBVIOUS
  <2> QED
    BY <1>1, <2>1 DEF Nothing, Kinds
<1> QED
  BY <1>1, <1>2, HelpInvInit DEF ShowInv

LEMMA KindsDefined ==
  ASSUME NEW d \in Definitions, Kinds(d), NEW p \in Parameters, NEW e,
         e = CASE p.kind = "option"     -> [d EXCEPT !.options = Append(@, p)]
               [] p.kind = "positional" -> [d EXCEPT !.positional = Append(@, p)]
               [] p.kind = "command"    -> [d EXCEPT !.commands = Append(@, p)]
  PROVE  Kinds(e)
<1>1. PICK a, b, c : a = d.options /\ b = d.positional /\ c = d.commands
  OBVIOUS
<1>2. a \in Seq(Parameters) /\ b \in Seq(Parameters) /\ c \in Seq(Parameters)
  BY <1>1 DEF Definitions
<1>3. /\ \A i \in 1..Len(a) : a[i].kind = "option"
      /\ \A i \in 1..Len(b) : b[i].kind = "positional"
      /\ \A i \in 1..Len(c) : c[i].kind = "command"
  BY <1>1 DEF Kinds
<1>4. ASSUME NEW s \in Seq(Parameters), NEW kind, \A i \in 1..Len(s) : s[i].kind = kind, p.kind = kind
      PROVE  \A i \in 1..Len(Append(s, p)) : Append(s, p)[i].kind = kind
  <2>0. PICK n \in Nat : n = Len(s)
    BY LenProperties
  <2>1. PICK u : n = Len(s) /\ u = Append(s, p)
    BY <2>0
  <2>2. Len(u) = n + 1 /\ u[n + 1] = p /\ \A i \in 1..n : u[i] = s[i]
    BY <2>1, AppendProperties
  <2>3. ASSUME NEW i \in 1..(n + 1) PROVE u[i].kind = kind
    <3>1. CASE i \in 1..n
      BY <1>4, <2>1, <2>2, <3>1
    <3>2. CASE i = n + 1
      BY <1>4, <2>2, <3>2
    <3> QED
      BY <3>1, <3>2
  <2> QED
    BY <2>1, <2>2, <2>3
<1>5. CASE p.kind = "option"
  <2>1. PICK u : u = Append(a, p)
    OBVIOUS
  <2>2. \A i \in 1..Len(u) : u[i].kind = "option"
    BY <1>2, <1>3, <1>4, <1>5, <2>1
  <2>3. e = [d EXCEPT !.options = u]
    BY <1>1, <1>5, <2>1
  <2>4. e.options = u /\ e.positional = b /\ e.commands = c
    BY <1>1, <2>3 DEF Definitions
  <2> QED
    BY <1>3, <2>2, <2>4 DEF Kinds
<1>6. CASE p.kind = "positional"
  <2>1. PICK u : u = Append(b, p)
    OBVIOUS
  <2>2. \A i \in 1..Len(u) : u[i].kind = "positional"
    BY <1>2, <1>3, <1>4, <1>6, <2>1
  <2>3. e = [d EXCEPT !.positional = u]
    BY <1>1, <1>6, <2>1
  <2>4. e.options = a /\ e.positional = u /\ e.commands = c
    BY <1>1, <2>3 DEF Definitions
  <2> QED
    BY <1>3, <2>2, <2>4 DEF Kinds
<1>7. CASE p.kind = "command"
  <2>1. PICK u : u = Append(c, p)
    OBVIOUS
  <2>2. \A i \in 1..Len(u) : u[i].kind = "command"
    BY <1>2, <1>3, <1>4, <1>7, <2>1
  <2>3. e = [d EXCEPT !.commands = u]
    BY <1>1, <1>7, <2>1
  <2>4. e.options = a /\ e.positional = b /\ e.commands = u
    BY <1>1, <2>3 DEF Definitions
  <2> QED
    BY <1>3, <2>2, <2>4 DEF Kinds
<1> QED
  BY <1>5, <1>6, <1>7, ParametersAssumption

LEMMA NothingPrinted == Printed(newWriter) = <<>>
<1>1. newWriter.lines = <<>> /\ newWriter.line = <<>>
  BY DEF newWriter
<1>2. FlattenSeq(<<>>) = <<>>
  BY DEF FlattenSeq
<1>3. <<>> \o <<>> = <<>>
  OBVIOUS
<1> QED
  BY <1>1, <1>2, <1>3 DEF Printed

LEMMA FirstSoFar ==
  ASSUME NEW F \in Seq(Calls)
  PROVE  SoFar(F, F, 0, <<>>, <<>>)
<1>1. PICK n \in Nat : n = Len(F)
  BY LenProperties
<1>2. Len(<<>>) = 0 /\ 0 \in 0..n /\ n = n - 0 /\ \A k \in 1..n : 0 + k = k
  OBVIOUS
<1> QED
  BY <1>1, <1>2 DEF SoFar

LEMMA ShowInvNext == ShowInv /\ [HelpNext]_helpVars => ShowInv'
<1> SUFFICES ASSUME ShowInv, [HelpNext]_helpVars PROVE ShowInv'
  OBVIOUS
<1>0. HelpInv /\ HelpInv' /\ Kinds(definition)
  BY HelpInvNext DEF ShowInv
<1>1. ASSUME NEW p \in Parameters, Define(p) PROVE ShowInv'
  <2>1. script' = <<>> /\ writer' = newWriter
    BY <1>1 DEF Define
  <2>2. definition \in Definitions
    BY <1>0 DEF HelpInv
  <2>3. Kinds(definition')
    BY <1>0, <1>1, <2>2, KindsDefined DEF Define
  <2> QED
    BY <1>0, <2>1, <2>3 DEF ShowInv
<1>2. CASE Format
  <2>1. /\ script' = format(definition, config) /\ writer' = newWriter
        /\ definition' = definition /\ config' = config
    BY <1>2 DEF Format
  <2>2. script' \in Seq(Calls)
    BY <1>0 DEF HelpInv, ScriptInv
  <2>3. SoFar(script', script', 0, Printed(writer'), <<>>)
    BY <2>1, <2>2, FirstSoFar, NothingPrinted
  <2> QED
    BY <1>0, <2>1, <2>3 DEF ShowInv
<1>3. CASE CallWriter
  <2>1. /\ script # <<>> /\ UNCHANGED <<definition, config>> /\ script' = Tail(script)
        /\ writer' = Called(writer, Head(script))
    BY <1>3 DEF CallWriter, Called
  <2>2. script \in Seq(Calls) /\ writer \in Writers(AllWords) /\ writer.column = writer.position
    BY <1>0 DEF HelpInv, ScriptInv, WriterInv
  <2>3. PICK F : F = format(definition, config)
    OBVIOUS
  <2>4. PICK m, h : SoFar(F, script, m, Printed(writer), h)
    BY <2>1, <2>3 DEF ShowInv
  <2>5. PICK call \in Calls : call = script[1] /\ call = Head(script)
    <3> DEFINE C == Calls
    <3>1. script \in Seq(C)
      BY <2>2
    <3> HIDE DEF C
    <3>2. script[1] \in C /\ script[1] = Head(script)
      BY <2>1, <3>1
    <3> QED
      BY <3>2 DEF C
  <2>6. PICK u : u = writer' /\ u = Called(writer, call)
    BY <2>1, <2>5
  <2>7. \E n, g : SoFar(F, Tail(script), n, Printed(u), g)
    <3>1. CASE call \notin WordCalls
      <4>1. Printed(u) = Printed(writer)
        BY <2>2, <2>6, <3>1, CallPrinted
      <4>2. SoFar(F, Tail(script), m + 1, Printed(writer), h)
        BY <2>1, <2>2, <2>4, <2>5, <3>1, SilentSoFar
      <4> QED
        BY <4>1, <4>2
    <3>2. CASE call \in WordCalls
      <4>1. PICK n \in Nat : Printed(u) = Append(Printed(writer), PieceAt(n, call.word))
        BY <2>2, <2>6, <3>2, CallPrinted
      <4>2. PICK x : x = PieceAt(n, call.word)
        OBVIOUS
      <4>3. x \in Pieces(AllWords) /\ x.word = call.word
        <5>1. call.word \in AllWords
          BY <3>2 DEF WordCalls, Calls
        <5> QED
          BY <4>2, <5>1 DEF PieceAt, Pieces
      <4>4. PICK ps : ps = Printed(writer)
        OBVIOUS
      <4>5. ps \in Seq(Pieces(AllWords))
        BY <2>2, <4>4, PrintedTyped
      <4>6. \E g : SoFar(F, Tail(script), m + 1, Append(ps, x), g)
        BY <2>1, <2>2, <2>4, <2>5, <3>2, <4>3, <4>4, <4>5, WordSoFar
      <4> QED
        BY <4>1, <4>2, <4>4, <4>6
    <3> QED
      BY <3>1, <3>2
  <2> QED
    BY <1>0, <2>1, <2>3, <2>6, <2>7 DEF ShowInv
<1>4. CASE UNCHANGED helpVars
  BY <1>0, <1>4 DEF helpVars, ShowInv
<1> QED
  BY <1>1, <1>2, <1>3, <1>4 DEF HelpNext

-----------------------------------------------------------------------------
(* The order of the entries.                                               *)
PartKey(p) == IF is_positional(p) THEN 0 ELSE IF p.required THEN 1 ELSE 2

LEMMA SortKeys ==
  ASSUME NEW args, NEW i
  PROVE  /\ sortKey(args, i)[1] = CommandKey(args[i]) /\ sortKey(args, i)[2] = RequiredKey(args[i])
         /\ sortKey(args, i)[3] = groupName(args[i]) /\ sortKey(args, i)[4] = PartKey(args[i])
         /\ sortKey(args, i)[5] = i
<1>1. PICK a, b, c, d : /\ a = CommandKey(args[i]) /\ b = RequiredKey(args[i])
                        /\ c = groupName(args[i]) /\ d = PartKey(args[i])
  OBVIOUS
<1>2. sortKey(args, i) = << a, b, c, d, i >>
  BY <1>1 DEF sortKey, CommandKey, RequiredKey, PartKey
<1>3. /\ << a, b, c, d, i >>[1] = a /\ << a, b, c, d, i >>[2] = b /\ << a, b, c, d, i >>[3] = c
      /\ << a, b, c, d, i >>[4] = d /\ << a, b, c, d, i >>[5] = i
  OBVIOUS
<1> QED
  BY <1>1, <1>2, <1>3

SameGroup(p, q) == ~lowerGroup(p, q) /\ ~lowerGroup(q, p)

LEMMA SameGroupKeys ==
  ASSUME NEW p \in Parameters, NEW q \in Parameters, SameGroup(p, q)
  PROVE  /\ CommandKey(p) = CommandKey(q) /\ RequiredKey(p) = RequiredKey(q)
         /\ groupName(p) = groupName(q) /\ p.group = q.group /\ (isCommand(p) <=> isCommand(q))
<1>1. PICK a, b \in 0..1 : a = CommandKey(p) /\ b = CommandKey(q)
  BY LowerGroupKeys
<1>2. PICK d, e \in 0..1 : d = RequiredKey(p) /\ e = RequiredKey(q)
  BY LowerGroupKeys
<1>3. PICK k, l \in Nat : k = groupName(p) /\ l = groupName(q)
  BY LowerGroupKeys
<1>4. ~(a < b \/ (a = b /\ d < e) \/ (a = b /\ d = e /\ k < l))
  BY <1>1, <1>2, <1>3, LowerGroupKeys DEF SameGroup
<1>5. ~(b < a \/ (b = a /\ e < d) \/ (b = a /\ e = d /\ l < k))
  BY <1>1, <1>2, <1>3, LowerGroupKeys DEF SameGroup
<1>6. a = b /\ d = e /\ k = l
  BY <1>4, <1>5
<1>7. p.group = q.group
  <2>1. /\ p.group = NoGroup \/ Groups[p.group].rank \in Nat \ {0}
        /\ q.group = NoGroup \/ Groups[q.group].rank \in Nat \ {0}
    BY ParametersAssumption
  <2>2. CASE p.group = NoGroup \/ q.group = NoGroup
    BY <1>3, <1>6, <2>1, <2>2 DEF groupName
  <2>3. CASE p.group # NoGroup /\ q.group # NoGroup
    BY <1>3, <1>6, <2>3, GroupsAssumption DEF groupName
  <2> QED
    BY <2>2, <2>3
<1>8. isCommand(p) <=> isCommand(q)
  BY <1>1, <1>6 DEF CommandKey
<1> QED
  BY <1>1, <1>2, <1>3, <1>6, <1>7, <1>8

LEMMA PrecedesByGroup ==
  ASSUME NEW args, NEW i, NEW j, args[i] \in Parameters, args[j] \in Parameters,
         lowerGroup(args[i], args[j])
  PROVE  precedes(args, i, j)
<1>1. PICK s, u : s = sortKey(args, i) /\ u = sortKey(args, j)
  OBVIOUS
<1>2. \/ s[1] < u[1]
      \/ s[1] = u[1] /\ s[2] < u[2]
      \/ s[1] = u[1] /\ s[2] = u[2] /\ s[3] < u[3]
  BY <1>1, SortKeys, LowerGroupKeys
<1>3. \E n \in 1..5 : s[n] < u[n] /\ \A m \in 1..(n - 1) : s[m] = u[m]
  <2>1. CASE s[1] < u[1]
    <3>1. 1 \in 1..5 /\ \A m \in 1..(1 - 1) : FALSE
      OBVIOUS
    <3> QED
      BY <2>1, <3>1
  <2>2. CASE s[1] = u[1] /\ s[2] < u[2]
    <3>1. 2 \in 1..5 /\ \A m \in 1..(2 - 1) : m = 1
      OBVIOUS
    <3> QED
      BY <2>2, <3>1
  <2>3. CASE s[1] = u[1] /\ s[2] = u[2] /\ s[3] < u[3]
    <3>1. 3 \in 1..5 /\ \A m \in 1..(3 - 1) : m = 1 \/ m = 2
      OBVIOUS
    <3> QED
      BY <2>3, <3>1
  <2> QED
    BY <1>2, <2>1, <2>2, <2>3
<1> QED
  BY <1>1, <1>3 DEF precedes

LEMMA PrecedesInGroup ==
  ASSUME NEW args, NEW i, NEW j, args[i] \in Parameters, args[j] \in Parameters,
         SameGroup(args[i], args[j]),
         PartKey(args[i]) < PartKey(args[j]) \/ (PartKey(args[i]) = PartKey(args[j]) /\ i < j)
  PROVE  precedes(args, i, j)
<1>1. PICK s, u : s = sortKey(args, i) /\ u = sortKey(args, j)
  OBVIOUS
<1>2. /\ s[1] = u[1] /\ s[2] = u[2] /\ s[3] = u[3]
      /\ s[4] < u[4] \/ (s[4] = u[4] /\ s[5] < u[5])
  BY <1>1, SortKeys, SameGroupKeys
<1>3. \E n \in 1..5 : s[n] < u[n] /\ \A m \in 1..(n - 1) : s[m] = u[m]
  <2>1. CASE s[4] < u[4]
    <3>1. 4 \in 1..5 /\ \A m \in 1..(4 - 1) : m = 1 \/ m = 2 \/ m = 3
      OBVIOUS
    <3> QED
      BY <1>2, <2>1, <3>1
  <2>2. CASE s[4] = u[4] /\ s[5] < u[5]
    <3>1. 5 \in 1..5 /\ \A m \in 1..(5 - 1) : m = 1 \/ m = 2 \/ m = 3 \/ m = 4
      OBVIOUS
    <3> QED
      BY <1>2, <2>2, <3>1
  <2> QED
    BY <1>2, <2>1, <2>2
<1> QED
  BY <1>1, <1>3 DEF precedes

-----------------------------------------------------------------------------
(* The entries of the help.                                                *)
EntryListing(args) ==
  [ entries |-> { w \in AllWords : w.role = "entry" },
    heads   |-> { w \in AllWords : w.role = "heading" },
    shows   |-> { x \in AllWords \X (1..Len(args)) : x[1] = formatArgument(args[x[2]])[1] },
    over    |-> { x \in AllWords \X (1..Len(args)) : x[1].text = headingFor(args[x[2]]) },
    order   |-> { x \in (1..Len(args)) \X (1..Len(args)) : precedes(args, x[1], x[2]) },
    things  |-> 1..Len(args) ]

LEMMA InEntryListing ==
  ASSUME NEW args
  PROVE  /\ \A w : w \in EntryListing(args).entries <=> w \in AllWords /\ w.role = "entry"
         /\ \A w : w \in EntryListing(args).heads <=> w \in AllWords /\ w.role = "heading"
         /\ \A w, d : <<w, d>> \in EntryListing(args).shows <=>
              w \in AllWords /\ d \in 1..Len(args) /\ w = formatArgument(args[d])[1]
         /\ \A w, d : <<w, d>> \in EntryListing(args).over <=>
              w \in AllWords /\ d \in 1..Len(args) /\ w.text = headingFor(args[d])
         /\ \A d, e : <<d, e>> \in EntryListing(args).order <=>
              d \in 1..Len(args) /\ e \in 1..Len(args) /\ precedes(args, d, e)
         /\ EntryListing(args).things = 1..Len(args)
<1>1. PICK L : L = EntryListing(args)
  OBVIOUS
<1>2. /\ L.entries = { w \in AllWords : w.role = "entry" }
      /\ L.heads = { w \in AllWords : w.role = "heading" }
      /\ L.shows = { x \in AllWords \X (1..Len(args)) : x[1] = formatArgument(args[x[2]])[1] }
      /\ L.over = { x \in AllWords \X (1..Len(args)) : x[1].text = headingFor(args[x[2]]) }
      /\ L.order = { x \in (1..Len(args)) \X (1..Len(args)) : precedes(args, x[1], x[2]) }
      /\ L.things = 1..Len(args)
  BY <1>1 DEF EntryListing
<1>3. \A w : w \in L.entries <=> w \in AllWords /\ w.role = "entry"
  BY <1>2
<1>4. \A w : w \in L.heads <=> w \in AllWords /\ w.role = "heading"
  BY <1>2
<1>5. \A w, d : <<w, d>> \in L.shows <=>
        w \in AllWords /\ d \in 1..Len(args) /\ w = formatArgument(args[d])[1]
  BY <1>2
<1>6. \A w, d : <<w, d>> \in L.over <=>
        w \in AllWords /\ d \in 1..Len(args) /\ w.text = headingFor(args[d])
  BY <1>2
<1>7. \A d, e : <<d, e>> \in L.order <=> d \in 1..Len(args) /\ e \in 1..Len(args) /\ precedes(args, d, e)
  BY <1>2
<1> QED
  BY <1>1, <1>2, <1>3, <1>4, <1>5, <1>6, <1>7

LEMMA EntriesOfWords ==
  ASSUME NEW args
  PROVE  OfWords(EntryListing(args))
BY InEntryListing DEF OfWords

(* What is neither an entry nor a heading.                                 *)
Others == (Roles \cup {"help"}) \ {"entry", "heading"}

LEMMA OthersSilent ==
  ASSUME NEW args
  PROVE  Spoken(Others) \subseteq Silent(Written(EntryListing(args)))
<1>1. PICK L, M : L = EntryListing(args) /\ M = Written(L)
  OBVIOUS
<1>2. ASSUME NEW call \in CallsOf(Others) PROVE call \notin M.entries /\ call \notin M.heads
  <2>1. call \in WordCalls => call.word.role # "entry" /\ call.word.role # "heading"
    BY DEF CallsOf, Others, WordCalls
  <2>2. /\ call \in M.entries => call \in WordCalls /\ call.word \in L.entries
        /\ call \in M.heads => call \in WordCalls /\ call.word \in L.heads
    BY <1>1, InWritten
  <2>3. /\ call.word \in L.entries => call.word.role = "entry"
        /\ call.word \in L.heads => call.word.role = "heading"
    BY <1>1, InEntryListing
  <2> QED
    BY <2>1, <2>2, <2>3
<1> QED
  BY <1>1, <1>2, SpokenSilent

LEMMA NamesListed ==
  ASSUME NEW args, NEW d \in 1..Len(args), args[d] \in Parameters
  PROVE  LET M == Written(EntryListing(args))
             s == write(formatArgument(args[d]))
         IN  s \in Seq(Calls) /\ Listed(M, s, {d}, 1..Len(args)) /\ NoHeads(M, s)
<1>1. PICK L, M, ws : L = EntryListing(args) /\ M = Written(L) /\ ws = formatArgument(args[d])
  OBVIOUS
<1>2. Leads(ws, Following, "entry")
  BY <1>1, EntryLeads
<1>3. ws \in Seq(PlainWords) /\ 1 \in 1..Len(ws) /\ \A k \in 1..Len(ws) : k = 1 \/ k \in 2..Len(ws)
  BY <1>2 DEF Leads
<1>4. ws[1] \in AllWords /\ ws[1].role = "entry"
  BY <1>2, <1>3, ElementOfSeq, PlainAreAll DEF Leads
<1>5. \A k \in 2..Len(ws) : ws[k].role # "entry" /\ ws[k].role # "heading"
  BY <1>2 DEF Leads, Following, Syntax
<1>6. ShownAt(L, ws) = {1}
  <2>1. \A k \in 1..Len(ws) : ws[k] \in L.entries <=> k = 1
    BY <1>1, <1>3, <1>4, <1>5, InEntryListing
  <2> QED
    BY <1>3, <2>1 DEF ShownAt
<1>7. PICK f : f = [k \in {1} |-> d]
  OBVIOUS
<1>8. <<ws[1], d>> \in L.shows /\ Unheaded(L, ws, 1)
  BY <1>1, <1>4, InEntryListing DEF Unheaded
<1>9. Lists(L, ws, {d}, 1..Len(args), f)
  <2>1. f[1] = d
    BY <1>7
  <2> QED
    BY <1>6, <1>8, <2>1 DEF Lists
<1>10. Listed(L, ws, {d}, 1..Len(args))
  BY <1>9 DEF Listed
<1>11. ws \in Texts(Roles \cup {"help"})
  <2>1. PlainWords \subseteq WordsOf(Roles \cup {"help"}) \cup {Break}
    BY DEF PlainWords, WordsOf
  <2> QED
    BY <1>3, <2>1, SeqMonotonic DEF Texts
<1>12. PICK s : s = write(ws)
  OBVIOUS
<1>13. s \in Seq(Calls) /\ Len(s) = Len(ws) /\ \A k \in 1..Len(ws) : s[k] = SaidAs(ws[k])
  BY <1>3, <1>12, WordWritten
<1>14. NoHeads(M, s)
  <2> SUFFICES ASSUME NEW k \in 1..Len(ws) PROVE s[k] \notin M.heads
    BY <1>13 DEF NoHeads
  <2>1. s[k].word = ws[k]
    <3>1. s[k] = SaidAs(ws[k])
      BY <1>13
    <3> QED
      BY <3>1 DEF SaidAs
  <2>2. ws[k].role # "heading"
    BY <1>3, <1>4, <1>5
  <2> QED
    BY <1>1, <2>1, <2>2, InWritten, InEntryListing
<1>15. Listed(M, s, {d}, 1..Len(args))
  BY <1>1, <1>10, <1>11, <1>12, EntriesOfWords, WriteListed
<1> QED
  BY <1>1, <1>12, <1>13, <1>14, <1>15

LEMMA ArgumentListed ==
  ASSUME NEW args, NEW d \in 1..Len(args), args[d] \in Parameters, NEW column \in Nat
  PROVE  LET M == Written(EntryListing(args))
             s == writeArgument(args[d], column)
         IN  s \in Seq(Calls) /\ Listed(M, s, {d}, 1..Len(args)) /\ NoHeads(M, s)
<1>1. PICK M, H, D : M = Written(EntryListing(args)) /\ H = 1..Len(args) /\ D = {d}
  OBVIOUS
<1>2. PICK p \in Parameters : p = args[d]
  OBVIOUS
<1> DEFINE S == Spoken(Others)
<1>3. S \subseteq Silent(M)
  BY <1>1, OthersSilent
<1>4. indent(ArgumentIndent) \in S /\ skip(column) \in S /\ indent(column) \in S /\ line \in S
  BY SizesAssumption, SpokenSingles
<1>5. write(p.help) \in S
  <2>1. p.help \in Texts({"help"}) /\ {"help"} \subseteq Others /\ Others \subseteq Roles \cup {"help"}
    BY ParametersAssumption DEF Others, Roles
  <2> QED
    BY <2>1, TextsWiden, WriteSpoken
<1> HIDE DEF S
<1>6. PICK a \in Silent(M), c \in Silent(M), e \in Silent(M), t \in Silent(M), l \in Silent(M) :
        /\ a = indent(ArgumentIndent) /\ c = skip(column) /\ e = indent(column)
        /\ t = write(p.help) /\ l = line
  BY <1>3, <1>4, <1>5
<1>7. PICK b : b = write(formatArgument(p))
  OBVIOUS
<1>8. b \in Seq(Calls) /\ Listed(M, b, D, H) /\ NoHeads(M, b)
  BY <1>1, <1>2, <1>7, NamesListed
<1>9. PICK s1, s2, s3, s4, s5 : /\ s1 = a \o b /\ s2 = s1 \o c /\ s3 = s2 \o e /\ s4 = s3 \o t
                                /\ s5 = s4 \o l
  OBVIOUS
<1>10. writeArgument(p, column) = s5
  BY <1>6, <1>7, <1>9 DEF writeArgument
<1>11. s1 \in Seq(Calls) /\ Listed(M, s1, D, H) /\ NoHeads(M, s1)
  BY <1>8, <1>9, AfterSilent
<1>12. s2 \in Seq(Calls) /\ Listed(M, s2, D, H) /\ NoHeads(M, s2)
  BY <1>9, <1>11, BeforeSilent
<1>13. s3 \in Seq(Calls) /\ Listed(M, s3, D, H) /\ NoHeads(M, s3)
  BY <1>9, <1>12, BeforeSilent
<1>14. s4 \in Seq(Calls) /\ Listed(M, s4, D, H) /\ NoHeads(M, s4)
  BY <1>9, <1>13, BeforeSilent
<1>15. s5 \in Seq(Calls) /\ Listed(M, s5, D, H) /\ NoHeads(M, s5)
  BY <1>9, <1>14, BeforeSilent
<1> QED
  BY <1>1, <1>2, <1>10, <1>15

-----------------------------------------------------------------------------
(* part stands at the places q of args.                                    *)
Standing(args, part, q) ==
  /\ part \in Seq(Parameters)
  /\ \A r \in 1..Len(part) : q[r] \in 1..Len(args) /\ part[r] = args[q[r]]

PlacesFor(part, q) == { q[r] : r \in 1..Len(part) }

InOrder(args, part, q) ==
  \A r, s \in 1..Len(part) : r < s => precedes(args, q[r], q[s])

LEMMA ArgumentsListed ==
  ASSUME NEW args, NEW part, NEW q, Standing(args, part, q), InOrder(args, part, q), NEW column \in Nat
  PROVE  LET M == Written(EntryListing(args))
             s == writeArguments(part, column)
         IN  s \in Seq(Calls) /\ Listed(M, s, PlacesFor(part, q), 1..Len(args)) /\ NoHeads(M, s)
<1>0. PICK n \in Nat : n = Len(part)
  BY LenProperties DEF Standing
<1>1. PICK M, H : M = Written(EntryListing(args)) /\ H = 1..Len(args) /\ n = Len(part)
  BY <1>0
<1>2. \A r \in 1..n : q[r] \in 1..Len(args) /\ part[r] = args[q[r]] /\ part[r] \in Parameters
  BY <1>1, ElementOfSeq DEF Standing
<1>3. PICK DD, ss : /\ DD = [r \in 1..n |-> {q[r]}]
                    /\ ss = [r \in 1..n |-> writeArgument(part[r], column)]
  OBVIOUS
<1> DEFINE C == Calls
<1>4. ASSUME NEW r \in 1..n
      PROVE  ss[r] \in Seq(C) /\ Listed(M, ss[r], DD[r], H) /\ NoHeads(M, ss[r])
  <2>1. PICK d \in 1..Len(args) : d = q[r] /\ part[r] = args[d] /\ args[d] \in Parameters
    BY <1>2
  <2>2. PICK t : t = writeArgument(args[d], column)
    OBVIOUS
  <2>3. ss[r] = t /\ DD[r] = {d}
    BY <1>3, <2>1, <2>2
  <2>4. t \in Seq(C) /\ Listed(M, t, {d}, H) /\ NoHeads(M, t)
    BY <1>1, <2>1, <2>2, ArgumentListed
  <2> QED
    BY <2>3, <2>4
<1> HIDE DEF C
<1>5. ss \in [1..n -> Seq(C)]
  <2> DEFINE T == Seq(C)
  <2>1. \A r \in 1..n : ss[r] \in T
    BY <1>4
  <2>2. ss = [r \in 1..n |-> ss[r]]
    BY <1>3
  <2> HIDE DEF T
  <2>3. ss \in [1..n -> T]
    BY <2>1, <2>2
  <2> QED
    BY <2>3 DEF T
<1>6. ASSUME NEW r \in 1..n, NEW s \in 1..n, r < s, NEW d \in DD[r], NEW e \in DD[s]
      PROVE  <<d, e>> \in M.order
  <2>1. \A k \in 1..n : DD[k] = {q[k]}
    BY <1>3
  <2>2. d = q[r] /\ e = q[s]
    BY <2>1
  <2>3. precedes(args, d, e) /\ d \in 1..Len(args) /\ e \in 1..Len(args)
    BY <1>1, <1>2, <1>6, <2>2 DEF InOrder
  <2>4. <<d, e>> \in EntryListing(args).order
    BY <2>3, InEntryListing
  <2> QED
    BY <1>1, <2>4, InWritten
<1>7. PICK flat, D : flat = FlattenSeq(ss) /\ D = Together(DD, n)
  OBVIOUS
<1>8. flat \in Seq(C) /\ Listed(M, flat, D, H) /\ NoHeads(M, flat)
  <2>1. \A r \in 1..n : Listed(M, ss[r], DD[r], H) /\ NoHeads(M, ss[r])
    BY <1>4
  <2> QED
    BY <1>5, <1>6, <1>7, <2>1, ListedFlatten
<1>9. D = PlacesFor(part, q)
  <2>1. ASSUME NEW d PROVE d \in D <=> d \in PlacesFor(part, q)
    <3>1. d \in D <=> \E r \in 1..n : d \in DD[r]
      BY <1>7, InTogether
    <3>2. \A k \in 1..n : DD[k] = {q[k]}
      BY <1>3
    <3>3. d \in D <=> \E r \in 1..n : d = q[r]
      BY <3>1, <3>2
    <3> QED
      BY <1>1, <3>3 DEF PlacesFor
  <2> QED
    BY <2>1
<1>10. line \in Silent(M) /\ paragraph \in Silent(M) /\ indent(0) \in Silent(M)
  BY <1>1, OthersSilent, SpokenSingles
<1>11. PICK a \in Silent(M), b \in Silent(M), c \in Silent(M) : a = line /\ b = paragraph /\ c = indent(0)
  BY <1>10
<1>12. PICK s1, s2, s3 : s1 = a \o flat /\ s2 = s1 \o b /\ s3 = s2 \o c
  OBVIOUS
<1>13. writeArguments(part, column) = s3
  BY <1>1, <1>3, <1>7, <1>11, <1>12 DEF writeArguments
<1>14. s1 \in Seq(Calls) /\ Listed(M, s1, D, H) /\ NoHeads(M, s1)
  BY <1>8, <1>12, AfterSilent DEF C
<1>15. s2 \in Seq(Calls) /\ Listed(M, s2, D, H) /\ NoHeads(M, s2)
  BY <1>12, <1>14, BeforeSilent
<1>16. s3 \in Seq(Calls) /\ Listed(M, s3, D, H) /\ NoHeads(M, s3)
  BY <1>12, <1>15, BeforeSilent
<1> QED
  BY <1>1, <1>9, <1>13, <1>16

(* A heading, and what follows it.                                         *)
Heads(M, s, args, D) ==
  /\ s \in Seq(Calls) /\ IsHead(M, s) /\ \A e \in D : <<s[1], e>> \in M.over

LEMMA HeadingHeads ==
  ASSUME NEW args, NEW D \in SUBSET (1..Len(args)), NEW n \in Names,
         \A e \in D : headingFor(args[e]) = n,
         NEW ws \in Seq(PlainWords), Len(ws) \in Nat \ {0}, ws[1] = word(n, "heading"),
         \A k \in 2..Len(ws) : ws[k].role = "text"
  PROVE  Heads(Written(EntryListing(args)), write(ws), args, D)
<1>1. PICK L, M, s : L = EntryListing(args) /\ M = Written(L) /\ s = write(ws)
  OBVIOUS
<1>2. PICK l \in Nat \ {0} : l = Len(ws) /\ 1 \in 1..l /\ \A k \in 2..l : k \in 1..l
  OBVIOUS
<1>3. s \in Seq(Calls) /\ Len(s) = l /\ \A k \in 1..l : s[k] = SaidAs(ws[k])
  BY <1>1, <1>2, WordWritten
<1>4. ws[1] \in AllWords /\ ws[1].role = "heading" /\ ws[1].text = n
  <2>1. ws[1] \in AllWords
    BY <1>2, ElementOfSeq, PlainAreAll
  <2> QED
    BY <2>1 DEF word
<1>5. ASSUME NEW k \in 1..l PROVE s[k].word = ws[k] /\ (ws[k] \in AllWords => s[k] \in WordCalls)
  <2>1. s[k] = SaidAs(ws[k])
    BY <1>3
  <2> QED
    BY <2>1 DEF SaidAs, WordCalls, Calls
<1>6. s[1] \in WordCalls /\ s[1].word = ws[1]
  BY <1>2, <1>4, <1>5
<1>7. s[1] \in M.heads /\ s[1] \notin M.entries
  <2>1. PICK call : call = s[1]
    OBVIOUS
  <2>2. call.word \in L.heads /\ call.word \notin L.entries
    BY <1>1, <1>4, <1>6, <2>1, InEntryListing
  <2>3. call \in M.heads /\ call \notin M.entries
    BY <1>1, <1>6, <2>1, <2>2, InWritten
  <2> QED
    BY <2>1, <2>3
<1>8. ASSUME NEW k \in 2..l PROVE s[k] \notin M.heads /\ s[k] \notin M.entries
  <2>1. s[k].word = ws[k] /\ ws[k].role = "text"
    BY <1>2, <1>5
  <2> QED
    BY <1>1, <2>1, InWritten, InEntryListing
<1>9. ASSUME NEW k \in 1..l PROVE s[k] \notin M.entries
  <2>1. k = 1 \/ k \in 2..l
    BY <1>2
  <2> QED
    BY <1>7, <1>8, <2>1
<1>10. ASSUME NEW e \in D PROVE <<s[1], e>> \in M.over
  <2>1. e \in 1..Len(args) /\ headingFor(args[e]) = n
    OBVIOUS
  <2>2. <<ws[1], e>> \in L.over /\ e \in L.things
    BY <1>1, <1>4, <2>1, InEntryListing
  <2> QED
    BY <1>1, <1>6, <2>2, InWritten
<1>11. IsHead(M, s)
  BY <1>2, <1>3, <1>7, <1>8, <1>9 DEF IsHead
<1> QED
  BY <1>1, <1>3, <1>10, <1>11 DEF Heads

-----------------------------------------------------------------------------
(* A part of a group, with or without a heading of its own.                *)
LEMMA NothingListed ==
  ASSUME NEW L, NEW H
  PROVE  <<>> \in Seq(Calls) /\ Listed(L, <<>>, {}, H) /\ NoHeads(L, <<>>)
<1>1. Len(<<>>) = 0
  OBVIOUS
<1>2. Listed(L, <<>>, {}, H) /\ NoHeads(L, <<>>)
  BY <1>1, QuietListed
<1>3. <<>> \in Seq(Calls)
  OBVIOUS
<1> QED
  BY <1>2, <1>3

(* A part of the free group, and a part of a group with a name.            *)
LEMMA FreePartListed ==
  ASSUME NEW args, NEW part, NEW q, Standing(args, part, q), InOrder(args, part, q), NEW column \in Nat,
         part # <<>> => part[1].group = NoGroup, NEW heading,
         Heads(Written(EntryListing(args)), write(heading), args, PlacesFor(part, q))
  PROVE  LET s == writePart(part, heading, column)
         IN  s \in Seq(Calls) /\ Listed(Written(EntryListing(args)), s, PlacesFor(part, q), {})
<1>1. PICK M, H, D : M = Written(EntryListing(args)) /\ H = 1..Len(args) /\ D = PlacesFor(part, q)
  OBVIOUS
<1>2. CASE part = <<>>
  <2>1. D = {}
    <3>1. Len(part) = 0
      BY <1>2
    <3> QED
      BY <1>1, <3>1 DEF PlacesFor
  <2>2. writePart(part, heading, column) = <<>>
    BY <1>2 DEF writePart
  <2> QED
    BY <1>1, <2>1, <2>2, NothingListed
<1>3. CASE part # <<>>
  <2>1. PICK h, t : h = write(heading) /\ t = writeArguments(part, column)
    OBVIOUS
  <2>2. writePart(part, heading, column) = h \o t
    BY <1>3, <2>1 DEF writePart
  <2>3. t \in Seq(Calls) /\ Listed(M, t, D, H)
    BY <1>1, <2>1, ArgumentsListed
  <2>4. h \in Seq(Calls) /\ IsHead(M, h) /\ \A e \in D : <<h[1], e>> \in M.over
    BY <1>1, <2>1 DEF Heads
  <2> QED
    BY <1>1, <2>2, <2>3, <2>4, ListedUnder
<1> QED
  BY <1>2, <1>3

LEMMA NamedPartListed ==
  ASSUME NEW args, NEW part, NEW q, Standing(args, part, q), InOrder(args, part, q), NEW column \in Nat,
         part # <<>> => part[1].group # NoGroup, NEW heading
  PROVE  LET s == writePart(part, heading, column)
             M == Written(EntryListing(args))
         IN  s \in Seq(Calls) /\ Listed(M, s, PlacesFor(part, q), 1..Len(args)) /\ NoHeads(M, s)
<1>1. PICK M, H, D : M = Written(EntryListing(args)) /\ H = 1..Len(args) /\ D = PlacesFor(part, q)
  OBVIOUS
<1>2. CASE part = <<>>
  <2>1. D = {}
    <3>1. Len(part) = 0
      BY <1>2
    <3> QED
      BY <1>1, <3>1 DEF PlacesFor
  <2>2. writePart(part, heading, column) = <<>>
    BY <1>2 DEF writePart
  <2> QED
    BY <1>1, <2>1, <2>2, NothingListed
<1>3. CASE part # <<>>
  <2>1. PICK t : t = writeArguments(part, column)
    OBVIOUS
  <2>2. writePart(part, heading, column) = <<>> \o t
    BY <1>3, <2>1 DEF writePart
  <2>3. t \in Seq(Calls) /\ Listed(M, t, D, H) /\ NoHeads(M, t)
    BY <1>1, <2>1, ArgumentsListed
  <2>4. <<>> \o t = t
    BY <2>3, ConcatEmptySeq
  <2> QED
    BY <1>1, <2>2, <2>3, <2>4
<1> QED
  BY <1>2, <1>3

-----------------------------------------------------------------------------
(* A group: at ascending places of args, with nothing lower in it.         *)
GroupAt(args, group, q) ==
  /\ Standing(args, group, q) /\ Len(group) \in Nat \ {0}
  /\ \A r, s \in 1..Len(group) : r < s => q[r] < q[s]
  /\ \A r, s \in 1..Len(group) : SameGroup(group[r], group[s])

(* Its parts                                                               *)
KeyPlaces(group, k) == { i \in 1..Len(group) : PartKey(group[i]) = k }

PartOf(group, k) == elementsAt(group, KeyPlaces(group, k))

At(group, q, k) == { q[i] : i \in KeyPlaces(group, k) }

LEMMA PartsAre ==
  ASSUME NEW group, Len(group) \in Nat, \A i \in 1..Len(group) : group[i].required \in BOOLEAN
  PROVE  /\ reorderOptions(group).positional = PartOf(group, 0)
         /\ reorderOptions(group).required = PartOf(group, 1)
         /\ reorderOptions(group).optional = PartOf(group, 2)
<1> DEFINE P == { i \in 1..Len(group) : is_positional(group[i]) }
           R == { i \in 1..Len(group) : ~is_positional(group[i]) /\ group[i].required }
           O == { i \in 1..Len(group) : ~is_positional(group[i]) /\ ~group[i].required }
<1>1. reorderOptions(group) = [ positional |-> elementsAt(group, P), required |-> elementsAt(group, R),
                                optional |-> elementsAt(group, O) ]
  BY DEF reorderOptions
<1>2. P = KeyPlaces(group, 0)
  BY DEF KeyPlaces, PartKey
<1>3. R = KeyPlaces(group, 1)
  BY DEF KeyPlaces, PartKey
<1>4. O = KeyPlaces(group, 2)
  BY DEF KeyPlaces, PartKey
<1> HIDE DEF P, R, O
<1>5. /\ reorderOptions(group).positional = elementsAt(group, P)
      /\ reorderOptions(group).required = elementsAt(group, R)
      /\ reorderOptions(group).optional = elementsAt(group, O)
  BY <1>1
<1> QED
  BY <1>2, <1>3, <1>4, <1>5 DEF PartOf

LEMMA GroupElements ==
  ASSUME NEW args, NEW group, NEW q, GroupAt(args, group, q)
  PROVE  /\ group \in Seq(Parameters)
         /\ \A i \in 1..Len(group) : /\ q[i] \in 1..Len(args) /\ group[i] = args[q[i]]
                                     /\ group[i] \in Parameters /\ group[i].group = group[1].group
                                     /\ (isCommand(group[i]) <=> isCommand(group[1]))
                                     /\ group[i].required \in BOOLEAN
<1>1. group \in Seq(Parameters) /\ 1 \in 1..Len(group)
  BY DEF GroupAt, Standing
<1>2. ASSUME NEW i \in 1..Len(group)
      PROVE  /\ q[i] \in 1..Len(args) /\ group[i] = args[q[i]] /\ group[i] \in Parameters
             /\ SameGroup(group[i], group[1]) /\ group[i].required \in BOOLEAN
  <2>1. group[i] \in Parameters
    BY <1>1, ElementOfSeq
  <2>2. group[i].required \in BOOLEAN
    BY <2>1, ParametersAssumption
  <2> QED
    BY <1>1, <2>1, <2>2 DEF GroupAt, Standing
<1>3. ASSUME NEW i \in 1..Len(group)
      PROVE  group[i].group = group[1].group /\ (isCommand(group[i]) <=> isCommand(group[1]))
  BY <1>1, <1>2, SameGroupKeys
<1> QED
  BY <1>1, <1>2, <1>3

LEMMA PartStands ==
  ASSUME NEW args, NEW group, NEW q, GroupAt(args, group, q), NEW k \in 0..2
  PROVE  \E p : /\ Standing(args, PartOf(group, k), p) /\ InOrder(args, PartOf(group, k), p)
                /\ PlacesFor(PartOf(group, k), p) = At(group, q, k)
                /\ PartOf(group, k) # <<>> => PartOf(group, k)[1].group = group[1].group
<1>1. PICK S, part, o : S = KeyPlaces(group, k) /\ part = PartOf(group, k) /\ o = ascending(S)
  OBVIOUS
<1>2. PICK l \in Nat : l = Len(group)
  BY DEF GroupAt
<1>3. S \in SUBSET (1..l) /\ \A i \in S : PartKey(group[i]) = k
  BY <1>1, <1>2 DEF KeyPlaces
<1>4. /\ Cardinality(S) \in Nat /\ o \in [1..Cardinality(S) -> S]
      /\ \A i \in S : \E r \in 1..Cardinality(S) : o[r] = i
      /\ \A x, r \in 1..Cardinality(S) : x < r => o[x] < o[r]
  BY <1>1, <1>3, AscendingPlaces
<1>5. PICK n \in Nat : n = Cardinality(S) /\ Len(o) = n
  BY <1>4
<1>6. \A r \in 1..n : o[r] \in S /\ o[r] \in 1..l
  BY <1>3, <1>4, <1>5
<1>7. part = [r \in 1..n |-> group[o[r]]]
  BY <1>1, <1>5 DEF PartOf, elementsAt
<1>8. Len(part) = n /\ \A r \in 1..n : part[r] = group[o[r]]
  BY <1>7
<1>9. PICK p : p = [r \in 1..n |-> q[o[r]]]
  OBVIOUS
<1>10. \A r \in 1..n : p[r] = q[o[r]]
  BY <1>9
<1>11. ASSUME NEW r \in 1..n
       PROVE  /\ p[r] \in 1..Len(args) /\ part[r] = args[p[r]] /\ part[r] \in Parameters
              /\ part[r].group = group[1].group /\ PartKey(part[r]) = k
  <2>1. o[r] \in S /\ o[r] \in 1..Len(group)
    BY <1>2, <1>6
  <2> QED
    BY <1>3, <1>8, <1>10, <2>1, GroupElements
<1>12. Standing(args, part, p)
  <2>1. part \in Seq(Parameters)
    BY <1>7, <1>8, <1>11
  <2> QED
    BY <1>8, <1>11, <2>1 DEF Standing
<1>13. ASSUME NEW r \in 1..n, NEW s \in 1..n, r < s PROVE precedes(args, p[r], p[s])
  <2>1. o[r] < o[s] /\ o[r] \in 1..l /\ o[s] \in 1..l
    BY <1>4, <1>5, <1>6, <1>13
  <2>2. p[r] < p[s] /\ SameGroup(part[r], part[s])
    BY <1>2, <1>8, <1>10, <2>1 DEF GroupAt
  <2> QED
    BY <1>11, <2>2, PrecedesInGroup
<1>14. PlacesFor(part, p) = At(group, q, k)
  <2>1. ASSUME NEW d PROVE d \in PlacesFor(part, p) <=> d \in At(group, q, k)
    <3>1. d \in PlacesFor(part, p) <=> \E r \in 1..n : d = q[o[r]]
      BY <1>8, <1>10 DEF PlacesFor
    <3>2. d \in At(group, q, k) <=> \E i \in S : d = q[i]
      BY <1>1 DEF At
    <3>3. (\E r \in 1..n : d = q[o[r]]) <=> \E i \in S : d = q[i]
      BY <1>4, <1>5, <1>6
    <3> QED
      BY <3>1, <3>2, <3>3
  <2> QED
    BY <2>1
<1>15. part # <<>> => part[1].group = group[1].group
  <2>1. part # <<>> => 1 \in 1..n
    BY <1>7
  <2> QED
    BY <1>11, <2>1
<1> QED
  BY <1>1, <1>8, <1>12, <1>13, <1>14, <1>15 DEF InOrder

LEMMA PartsInOrder ==
  ASSUME NEW args, NEW group, NEW q, GroupAt(args, group, q), NEW k \in 0..2, NEW l \in 0..2, k < l,
         NEW d \in At(group, q, k), NEW e \in At(group, q, l)
  PROVE  <<d, e>> \in Written(EntryListing(args)).order
<1>1. PICK i \in KeyPlaces(group, k) : d = q[i]
  BY DEF At
<1>2. PICK j \in KeyPlaces(group, l) : e = q[j]
  BY DEF At
<1>3. i \in 1..Len(group) /\ j \in 1..Len(group) /\ PartKey(group[i]) = k /\ PartKey(group[j]) = l
  BY DEF KeyPlaces
<1>4. /\ d \in 1..Len(args) /\ e \in 1..Len(args) /\ group[i] = args[d] /\ group[j] = args[e]
      /\ group[i] \in Parameters /\ group[j] \in Parameters
  BY <1>1, <1>2, <1>3, GroupElements
<1>5. SameGroup(group[i], group[j])
  BY <1>3 DEF GroupAt
<1>6. precedes(args, d, e)
  BY <1>3, <1>4, <1>5, PrecedesInGroup
<1>7. <<d, e>> \in EntryListing(args).order
  BY <1>4, <1>6, InEntryListing
<1> QED
  BY <1>7, InWritten

LEMMA AllParts ==
  ASSUME NEW args, NEW group, NEW q, GroupAt(args, group, q)
  PROVE  /\ At(group, q, 0) \cup At(group, q, 1) \cup At(group, q, 2) = PlacesFor(group, q)
         /\ isCommand(group[1]) => At(group, q, 0) = PlacesFor(group, q)
         /\ \A k \in 0..2 : At(group, q, k) \subseteq 1..Len(args)
<1>1. \A i \in 1..Len(group) : PartKey(group[i]) \in 0..2
  BY DEF PartKey
<1>2. \A k, d : d \in At(group, q, k) <=> \E i \in 1..Len(group) : PartKey(group[i]) = k /\ d = q[i]
  BY DEF At, KeyPlaces
<1>3. \A d : d \in PlacesFor(group, q) <=> \E i \in 1..Len(group) : d = q[i]
  BY DEF PlacesFor
<1>4. At(group, q, 0) \cup At(group, q, 1) \cup At(group, q, 2) = PlacesFor(group, q)
  <2>1. \A i \in 1..Len(group) : PartKey(group[i]) = 0 \/ PartKey(group[i]) = 1 \/ PartKey(group[i]) = 2
    BY <1>1
  <2> QED
    BY <1>2, <1>3, <2>1
<1>5. ASSUME isCommand(group[1]) PROVE At(group, q, 0) = PlacesFor(group, q)
  <2>1. \A i \in 1..Len(group) : isCommand(group[i])
    BY <1>5, GroupElements
  <2>2. \A i \in 1..Len(group) : PartKey(group[i]) = 0
    BY <2>1 DEF PartKey, is_positional, isCommand
  <2> QED
    BY <1>2, <1>3, <2>2
<1>6. \A k \in 0..2 : At(group, q, k) \subseteq 1..Len(args)
  BY <1>2, GroupElements
<1> QED
  BY <1>4, <1>5, <1>6

-----------------------------------------------------------------------------
(* The title of a group is a heading for its parameters.                   *)
LEMMA HeadsOn ==
  ASSUME NEW M, NEW args, NEW D, NEW s, Heads(M, s, args, D), NEW t \in Silent(M)
  PROVE  Heads(M, s \o t, args, D)
<1> DEFINE C == Calls
<1>1. /\ s \in Seq(C) /\ t \in Seq(C) /\ IsHead(M, s) /\ \A e \in D : <<s[1], e>> \in M.over
      /\ \A k \in 1..Len(t) : t[k] \notin M.entries /\ t[k] \notin M.heads
  BY DEF Heads, Silent
<1> HIDE DEF C
<1>2. PICK u : u = s \o t
  OBVIOUS
<1>3. PICK n \in Nat, m \in Nat : Parts(s, t, u, n, m)
  BY <1>1, <1>2, ConcatParts
<1>4. /\ n = Len(s) /\ m = Len(t) /\ Len(u) = n + m
      /\ \A x \in 1..n : u[x] = s[x]
      /\ \A x \in 1..m : u[n + x] = t[x]
      /\ \A i \in 1..(n + m) : i \in 1..n \/ \E x \in 1..m : i = n + x
  BY <1>3 DEF Parts
<1>5. n # 0 /\ 1 \in 1..n
  BY <1>1, <1>4 DEF IsHead
<1>6. u[1] = s[1]
  BY <1>4, <1>5
<1>7. ASSUME NEW k \in 1..(n + m)
      PROVE  u[k] \notin M.entries /\ (k # 1 => u[k] \notin M.heads)
  <2>1. CASE k \in 1..n
    <3>1. u[k] = s[k] /\ k \in 1..Len(s) /\ (k # 1 => k \in 2..Len(s))
      BY <1>4, <2>1
    <3> QED
      BY <1>1, <3>1 DEF IsHead
  <2>2. ASSUME NEW x \in 1..m, k = n + x PROVE u[k] \notin M.entries /\ u[k] \notin M.heads
    <3>1. u[k] = t[x] /\ x \in 1..Len(t)
      BY <1>4, <2>2
    <3> QED
      BY <1>1, <3>1
  <2> QED
    BY <1>4, <2>1, <2>2
<1>8. IsHead(M, u)
  <2>1. u[1] \in M.heads /\ n + m \in Nat \ {0}
    BY <1>1, <1>5, <1>6 DEF IsHead
  <2>2. \A k \in 2..(n + m) : k \in 1..(n + m) /\ k # 1
    OBVIOUS
  <2> QED
    BY <1>4, <1>7, <2>1, <2>2 DEF IsHead
<1>9. u \in Seq(C)
  BY <1>1, <1>2, ConcatProperties
<1> QED
  BY <1>1, <1>2, <1>6, <1>8, <1>9 DEF Heads, C

LEMMA TitleHeads ==
  ASSUME NEW args, NEW group, NEW q, GroupAt(args, group, q), group[1].group # NoGroup
  PROVE  Heads(Written(EntryListing(args)), Title(group), args, PlacesFor(group, q))
<1>1. PICK M, D : M = Written(EntryListing(args)) /\ D = PlacesFor(group, q)
  OBVIOUS
<1>2. 1 \in 1..Len(group)
  BY DEF GroupAt
<1>3. PICK g : g = group[1].group
  OBVIOUS
<1>4. Groups[g].title \in Names /\ Groups[g].description \in Texts({"text"})
  BY <1>2, <1>3, GroupElements, ParametersAssumption
<1>5. PICK n \in Names : n = Groups[g].title
  BY <1>4
<1>6. ASSUME NEW e \in D PROVE e \in 1..Len(args) /\ headingFor(args[e]) = n
  <2>1. PICK i \in 1..Len(group) : e = q[i]
    BY <1>1 DEF PlacesFor
  <2>2. e \in 1..Len(args) /\ args[e].group = g
    BY <1>3, <2>1, GroupElements
  <2> QED
    BY <1>3, <1>5, <2>2 DEF headingFor
<1>7. PICK w, ws : w = word(n, "heading") /\ ws = <<w>>
  OBVIOUS
<1>8. ws \in Seq(PlainWords) /\ Len(ws) = 1 /\ ws[1] = w
  <2>1. w \in PlainWords
    BY <1>7, WordTyped DEF Roles
  <2> QED
    BY <1>7, <2>1
<1>9. PICK a : a = write(ws)
  OBVIOUS
<1>10. Heads(M, a, args, D)
  <2>1. \A k \in 2..Len(ws) : ws[k].role = "text"
    BY <1>8
  <2>2. D \in SUBSET (1..Len(args))
    BY <1>6
  <2>3. \A e \in D : headingFor(args[e]) = n
    BY <1>6
  <2>4. ws \in Seq(PlainWords) /\ Len(ws) \in Nat \ {0} /\ ws[1] = word(n, "heading")
    BY <1>7, <1>8
  <2>5. Heads(Written(EntryListing(args)), write(ws), args, D)
    BY <2>1, <2>2, <2>3, <2>4, HeadingHeads
  <2> QED
    BY <1>1, <1>9, <2>5
<1>11. /\ line \in Spoken(Others) /\ paragraph \in Spoken(Others) /\ indent(0) \in Spoken(Others)
       /\ indent(ArgumentIndent) \in Spoken(Others)
  BY SizesAssumption, SpokenSingles
<1>12. write(Groups[g].description) \in Spoken(Others)
  <2>1. {"text"} \subseteq Others /\ Others \subseteq Roles \cup {"help"}
    BY DEF Others, Roles
  <2> QED
    BY <1>4, <2>1, TextsWiden, WriteSpoken
<1>13. PICK b \in Silent(M), c \in Silent(M), d \in Silent(M), e \in Silent(M), f \in Silent(M) :
         /\ b = line /\ c = indent(ArgumentIndent) /\ d = write(Groups[g].description)
         /\ e = paragraph /\ f = indent(0)
  BY <1>1, <1>11, <1>12, OthersSilent
<1>14. PICK s1, s2, s3, s4, s5 : /\ s1 = a \o b /\ s2 = s1 \o c /\ s3 = s2 \o d /\ s4 = s3 \o e
                                 /\ s5 = s4 \o f
  OBVIOUS
<1>15. Title(group) = s5
  BY <1>3, <1>5, <1>7, <1>9, <1>13, <1>14 DEF Title
<1>16. Heads(M, s1, args, D)
  BY <1>10, <1>14, HeadsOn
<1>17. Heads(M, s2, args, D)
  BY <1>14, <1>16, HeadsOn
<1>18. Heads(M, s3, args, D)
  BY <1>14, <1>17, HeadsOn
<1>19. Heads(M, s4, args, D)
  BY <1>14, <1>18, HeadsOn
<1>20. Heads(M, s5, args, D)
  BY <1>14, <1>19, HeadsOn
<1> QED
  BY <1>1, <1>15, <1>20

(* The heading of a part of the free group.                                *)
PartName(k) == IF k = 0 THEN "positional" ELSE IF k = 1 THEN "required" ELSE "optional"

LEMMA PartHeadings ==
  ASSUME NEW args, NEW group, NEW q, GroupAt(args, group, q), group[1].group = NoGroup, NEW k \in 0..2
  PROVE  \A e \in At(group, q, k) :
           headingFor(args[e]) = IF isCommand(group[1]) THEN "commands:" ELSE PartName(k)
<1> SUFFICES ASSUME NEW e \in At(group, q, k)
             PROVE  headingFor(args[e]) = IF isCommand(group[1]) THEN "commands:" ELSE PartName(k)
  OBVIOUS
<1>1. PICK i \in 1..Len(group) : e = q[i] /\ PartKey(group[i]) = k
  BY DEF At, KeyPlaces
<1>2. PICK p \in Parameters : p = group[i] /\ p = args[e]
  BY <1>1, GroupElements
<1>3. p.group = NoGroup /\ (isCommand(p) <=> isCommand(group[1]))
  BY <1>1, <1>2, GroupElements
<1>4. PartKey(p) = k /\ p.kind \in {"option", "positional", "command"} /\ p.required \in BOOLEAN
  BY <1>1, <1>2, ParametersAssumption
<1>5. CASE isCommand(p)
  <2>1. headingFor(p) = "commands:"
    BY <1>3, <1>5 DEF headingFor, isCommand
  <2> QED
    BY <1>2, <1>3, <1>5, <2>1
<1>6. CASE ~isCommand(p) /\ p.kind = "positional"
  <2>1. headingFor(p) = "positional"
    BY <1>3, <1>6 DEF headingFor
  <2>2. k = 0
    BY <1>4, <1>6 DEF PartKey, is_positional
  <2> QED
    BY <1>2, <1>3, <1>6, <2>1, <2>2 DEF PartName
<1>7. CASE ~isCommand(p) /\ p.kind = "option" /\ p.required
  <2>1. headingFor(p) = "required"
    BY <1>3, <1>7 DEF headingFor
  <2>2. k = 1
    BY <1>4, <1>7 DEF PartKey, is_positional
  <2> QED
    BY <1>2, <1>3, <1>7, <2>1, <2>2 DEF PartName
<1>8. CASE ~isCommand(p) /\ p.kind = "option" /\ ~p.required
  <2>1. headingFor(p) = "optional"
    BY <1>3, <1>8 DEF headingFor
  <2>2. k = 2
    BY <1>4, <1>8 DEF PartKey, is_positional
  <2> QED
    BY <1>2, <1>3, <1>8, <2>1, <2>2 DEF PartName
<1>9. p.kind = "command" => isCommand(p)
  BY DEF isCommand
<1> QED
  BY <1>4, <1>5, <1>6, <1>7, <1>8, <1>9

(* The parts of a group as writeGroup writes them.                         *)
LEMMA FreeListedPart ==
  ASSUME NEW args, NEW group, NEW q, GroupAt(args, group, q), group[1].group = NoGroup, NEW k \in 0..2,
         NEW heading, Heads(Written(EntryListing(args)), write(heading), args, At(group, q, k)),
         NEW column \in Nat
  PROVE  LET s == writePart(PartOf(group, k), heading, column)
         IN  s \in Seq(Calls) /\ Listed(Written(EntryListing(args)), s, At(group, q, k), {})
<1>1. PICK part : part = PartOf(group, k)
  OBVIOUS
<1>2. PICK p : /\ Standing(args, part, p) /\ InOrder(args, part, p)
               /\ PlacesFor(part, p) = At(group, q, k)
               /\ part # <<>> => part[1].group = NoGroup
  BY <1>1, PartStands
<1> QED
  BY <1>1, <1>2, FreePartListed

LEMMA NamedListedPart ==
  ASSUME NEW args, NEW group, NEW q, GroupAt(args, group, q), group[1].group # NoGroup, NEW k \in 0..2,
         NEW heading, NEW column \in Nat
  PROVE  LET s == writePart(PartOf(group, k), heading, column)
             M == Written(EntryListing(args))
         IN  s \in Seq(Calls) /\ Listed(M, s, At(group, q, k), 1..Len(args)) /\ NoHeads(M, s)
<1>1. PICK part : part = PartOf(group, k)
  OBVIOUS
<1>2. PICK p : /\ Standing(args, part, p) /\ InOrder(args, part, p)
               /\ PlacesFor(part, p) = At(group, q, k)
               /\ part # <<>> => part[1].group # NoGroup
  BY <1>1, PartStands
<1> QED
  BY <1>1, <1>2, NamedPartListed

LEMMA ThreeListed ==
  ASSUME NEW args, NEW group, NEW q, GroupAt(args, group, q), NEW H,
         NEW a \in Seq(Calls), NEW b \in Seq(Calls), NEW c \in Seq(Calls), NEW M, M = Written(EntryListing(args)),
         Listed(M, a, At(group, q, 0), H), Listed(M, b, At(group, q, 1), H), Listed(M, c, At(group, q, 2), H),
         (NoHeads(M, a) /\ NoHeads(M, b)) \/ H = {}
  PROVE  (a \o b) \o c \in Seq(Calls) /\ Listed(M, (a \o b) \o c, PlacesFor(group, q), H)
<1> DEFINE C == Calls
<1>1. a \in Seq(C) /\ b \in Seq(C) /\ c \in Seq(C)
  OBVIOUS
<1> HIDE DEF C
<1>2. PICK D0, D1, D2 : D0 = At(group, q, 0) /\ D1 = At(group, q, 1) /\ D2 = At(group, q, 2)
  OBVIOUS
<1>3. /\ \A d \in D0, e \in D1 : <<d, e>> \in M.order
      /\ \A d \in D0, e \in D2 : <<d, e>> \in M.order
      /\ \A d \in D1, e \in D2 : <<d, e>> \in M.order
  BY <1>2, PartsInOrder
<1>4. PICK s, t : s = a \o b /\ t = s \o c
  OBVIOUS
<1>5. s \in Seq(C) /\ Listed(M, s, D0 \cup D1, H) /\ (NoHeads(M, s) \/ H = {})
  <2>1. s \in Seq(C)
    BY <1>1, <1>4, ConcatProperties
  <2>2. Listed(M, s, D0 \cup D1, H)
    BY <1>1, <1>2, <1>3, <1>4, ListedConcat
  <2>3. NoHeads(M, s) \/ H = {}
    BY <1>1, <1>4, NoHeadsConcat
  <2> QED
    BY <2>1, <2>2, <2>3
<1>6. PICK D : D = D0 \cup D1
  OBVIOUS
<1>7. \A d \in D, e \in D2 : <<d, e>> \in M.order
  BY <1>3, <1>6
<1>8. t \in Seq(C) /\ Listed(M, t, D \cup D2, H)
  <2>1. t \in Seq(C)
    BY <1>1, <1>4, <1>5, ConcatProperties
  <2>2. Listed(M, t, D \cup D2, H)
    BY <1>1, <1>2, <1>4, <1>5, <1>6, <1>7, ListedConcat
  <2> QED
    BY <2>1, <2>2
<1>9. D \cup D2 = PlacesFor(group, q)
  BY <1>2, <1>6, AllParts
<1> QED
  BY <1>4, <1>8, <1>9 DEF C

(* The words of a heading                                                  *)
HeadingWords(ws, n) ==
  /\ ws \in Seq(PlainWords) /\ Len(ws) \in Nat \ {0} /\ ws[1] = word(n, "heading")
  /\ \A k \in 2..Len(ws) : ws[k].role = "text"

LEMMA OwnHeadings ==
  /\ HeadingWords(<< word("commands:", "heading") >>, "commands:")
  /\ \A k \in 0..2 : HeadingWords(headingOf(PartName(k)), PartName(k)) /\ PartName(k) \in Names
<1>1. PICK W : W = PlainWords
  OBVIOUS
<1>2. HeadingWords(<< word("commands:", "heading") >>, "commands:")
  <2>1. PICK w, ws : w = word("commands:", "heading") /\ ws = <<w>>
    OBVIOUS
  <2>2. w \in W
    BY <1>1, <2>1, OwnWordTyped DEF OwnNames, Roles
  <2>3. ws \in Seq(W) /\ Len(ws) = 1 /\ ws[1] = w
    BY <2>1, <2>2
  <2> QED
    BY <1>1, <2>1, <2>3 DEF HeadingWords
<1>3. ASSUME NEW k \in 0..2
      PROVE  HeadingWords(headingOf(PartName(k)), PartName(k)) /\ PartName(k) \in Names
  <2>1. PICK n : n = PartName(k)
    OBVIOUS
  <2>2. n \in OwnNames /\ n \in Names
    BY <2>1, SizesAssumption DEF PartName, OwnNames
  <2>3. PICK a, b, ws : a = word(n, "heading") /\ b = word("arguments:", "text") /\ ws = <<a, b>>
    OBVIOUS
  <2>4. a \in W /\ b \in W
    BY <1>1, <2>2, <2>3, WordTyped, OwnWordTyped DEF OwnNames, Roles
  <2>5. ws \in Seq(W) /\ Len(ws) = 2 /\ ws[1] = a /\ ws[2] = b
    BY <2>3, <2>4
  <2>6. \A j \in 2..Len(ws) : ws[j].role = "text"
    <3>1. b.role = "text"
      BY <2>3 DEF word
    <3> QED
      BY <2>5, <3>1
  <2>7. headingOf(n) = ws
    BY <2>3 DEF headingOf
  <2>8. HeadingWords(ws, n)
    BY <1>1, <2>3, <2>5, <2>6 DEF HeadingWords
  <2> QED
    BY <2>1, <2>2, <2>7, <2>8
<1> QED
  BY <1>2, <1>3

LEMMA PartHeads ==
  ASSUME NEW args, NEW group, NEW q, GroupAt(args, group, q), group[1].group = NoGroup, NEW k \in 0..2,
         NEW ws, NEW n \in Names, HeadingWords(ws, n),
         n = IF isCommand(group[1]) THEN "commands:" ELSE PartName(k)
  PROVE  Heads(Written(EntryListing(args)), write(ws), args, At(group, q, k))
<1>1. PICK D : D = At(group, q, k)
  OBVIOUS
<1>2. D \in SUBSET (1..Len(args)) /\ \A e \in D : headingFor(args[e]) = n
  BY <1>1, AllParts, PartHeadings
<1>3. /\ ws \in Seq(PlainWords) /\ Len(ws) \in Nat \ {0} /\ ws[1] = word(n, "heading")
      /\ \A j \in 2..Len(ws) : ws[j].role = "text"
  BY DEF HeadingWords
<1>4. Heads(Written(EntryListing(args)), write(ws), args, D)
  BY <1>2, <1>3, HeadingHeads
<1> QED
  BY <1>1, <1>4

(* A group lists what stands in it, under its heading or its headings.     *)
LEMMA GroupListed ==
  ASSUME NEW args, NEW group, NEW q, GroupAt(args, group, q), NEW column \in Nat
  PROVE  LET s == writeGroup(group, column)
         IN  s \in Seq(Calls) /\ Listed(Written(EntryListing(args)), s, PlacesFor(group, q), {})
<1> DEFINE commands == writePart(PartOf(group, 0), << word("commands:", "heading") >>, column)
           positional == writePart(PartOf(group, 0), headingOf("positional"), column)
           required == writePart(PartOf(group, 1), headingOf("required"), column)
           optional == writePart(PartOf(group, 2), headingOf("optional"), column)
           three == (positional \o required) \o optional
           title == IF group[1].group = NoGroup THEN <<>> ELSE Title(group)
<1>1. PICK M, H, D : M = Written(EntryListing(args)) /\ H = 1..Len(args) /\ D = PlacesFor(group, q)
  OBVIOUS
<1>2. /\ reorderOptions(group).positional = PartOf(group, 0)
      /\ reorderOptions(group).required = PartOf(group, 1)
      /\ reorderOptions(group).optional = PartOf(group, 2)
  BY GroupElements, PartsAre DEF GroupAt
<1>3. writeGroup(group, column) = title \o (IF isCommand(group[1]) THEN commands ELSE three)
  BY <1>2 DEF writeGroup, Title
<1>4. isCommand(group[1]) => At(group, q, 0) = D
  BY <1>1, AllParts
<1>5. PartName(0) = "positional" /\ PartName(1) = "required" /\ PartName(2) = "optional"
  BY DEF PartName
<1>6. ASSUME group[1].group = NoGroup, isCommand(group[1]) PROVE commands \in Seq(Calls) /\ Listed(M, commands, D, {})
  <2>1. PICK ws : ws = << word("commands:", "heading") >>
    OBVIOUS
  <2>2. HeadingWords(ws, "commands:") /\ "commands:" \in Names
    BY <2>1, OwnHeadings, SizesAssumption DEF OwnNames
  <2>3. Heads(Written(EntryListing(args)), write(ws), args, At(group, q, 0))
    BY <1>6, <2>2, PartHeads
  <2>4. PICK s : s = writePart(PartOf(group, 0), ws, column)
    OBVIOUS
  <2>5. s \in Seq(Calls) /\ Listed(Written(EntryListing(args)), s, At(group, q, 0), {})
    BY <1>6, <2>3, <2>4, FreeListedPart
  <2> QED
    BY <1>1, <1>4, <1>6, <2>1, <2>4, <2>5
<1>7. ASSUME group[1].group = NoGroup, ~isCommand(group[1]) PROVE three \in Seq(Calls) /\ Listed(M, three, D, {})
  <2>1. ASSUME NEW k \in 0..2
        PROVE  LET s == writePart(PartOf(group, k), headingOf(PartName(k)), column)
               IN  s \in Seq(Calls) /\ Listed(M, s, At(group, q, k), {})
    <3>1. PICK ws, n : n = PartName(k) /\ ws = headingOf(n)
      OBVIOUS
    <3>2. HeadingWords(ws, n) /\ n \in Names
      BY <3>1, OwnHeadings
    <3>3. Heads(Written(EntryListing(args)), write(ws), args, At(group, q, k))
      BY <1>7, <3>1, <3>2, PartHeads
    <3> QED
      BY <1>1, <1>7, <3>1, <3>3, FreeListedPart
  <2>2. PICK a, b, c : /\ a = writePart(PartOf(group, 0), headingOf(PartName(0)), column)
                       /\ b = writePart(PartOf(group, 1), headingOf(PartName(1)), column)
                       /\ c = writePart(PartOf(group, 2), headingOf(PartName(2)), column)
    OBVIOUS
  <2>3. /\ a \in Seq(Calls) /\ Listed(M, a, At(group, q, 0), {})
        /\ b \in Seq(Calls) /\ Listed(M, b, At(group, q, 1), {})
        /\ c \in Seq(Calls) /\ Listed(M, c, At(group, q, 2), {})
    BY <2>1, <2>2
  <2>4. PICK E : E = {}
    OBVIOUS
  <2>5. (a \o b) \o c \in Seq(Calls) /\ Listed(M, (a \o b) \o c, PlacesFor(group, q), E)
    BY <1>1, <2>3, <2>4, ThreeListed
  <2> QED
    BY <1>1, <1>5, <2>2, <2>4, <2>5
<1>8. ASSUME group[1].group # NoGroup
      PROVE  /\ isCommand(group[1]) => commands \in Seq(Calls) /\ Listed(M, commands, D, H)
             /\ three \in Seq(Calls) /\ Listed(M, three, D, H)
  <2>1. ASSUME NEW k \in 0..2, NEW heading
        PROVE  LET s == writePart(PartOf(group, k), heading, column)
               IN  s \in Seq(Calls) /\ Listed(M, s, At(group, q, k), H) /\ NoHeads(M, s)
    BY <1>1, <1>8, NamedListedPart
  <2>2. PICK a, b, c, e : a = positional /\ b = required /\ c = optional /\ e = commands
    OBVIOUS
  <2>3. /\ a \in Seq(Calls) /\ Listed(M, a, At(group, q, 0), H) /\ NoHeads(M, a)
        /\ b \in Seq(Calls) /\ Listed(M, b, At(group, q, 1), H) /\ NoHeads(M, b)
        /\ c \in Seq(Calls) /\ Listed(M, c, At(group, q, 2), H) /\ NoHeads(M, c)
        /\ e \in Seq(Calls) /\ Listed(M, e, At(group, q, 0), H)
    BY <2>1, <2>2
  <2>4. (a \o b) \o c \in Seq(Calls) /\ Listed(M, (a \o b) \o c, PlacesFor(group, q), H)
    BY <1>1, <2>3, ThreeListed
  <2> QED
    BY <1>1, <1>4, <2>2, <2>3, <2>4
<1> HIDE DEF commands, three
<1>9. CASE group[1].group = NoGroup
  <2>1. PICK s : s = IF isCommand(group[1]) THEN commands ELSE three
    OBVIOUS
  <2>2. s \in Seq(Calls) /\ Listed(M, s, D, {})
    BY <1>6, <1>7, <1>9, <2>1
  <2>3. <<>> \o s = s
    BY <2>2, ConcatEmptySeq
  <2> QED
    BY <1>1, <1>3, <1>9, <2>1, <2>2, <2>3
<1>10. CASE group[1].group # NoGroup
  <2>1. PICK s, h : s = (IF isCommand(group[1]) THEN commands ELSE three) /\ h = Title(group)
    OBVIOUS
  <2>2. s \in Seq(Calls) /\ Listed(M, s, D, H)
    BY <1>8, <1>10, <2>1
  <2>3. Heads(M, h, args, D)
    BY <1>1, <1>10, <2>1, TitleHeads
  <2>4. h \in Seq(Calls) /\ IsHead(M, h) /\ \A e \in D : <<h[1], e>> \in M.over
    BY <2>3 DEF Heads
  <2>5. h \o s \in Seq(Calls) /\ Listed(M, h \o s, D, {})
    BY <2>2, <2>4, ListedUnder
  <2> QED
    BY <1>1, <1>3, <1>10, <2>1, <2>5
<1> QED
  BY <1>9, <1>10

-----------------------------------------------------------------------------
(* The groups of the sorted parameters.                                    *)
LEMMA SortedOrder ==
  ASSUME NEW args \in Seq(Parameters), NEW i \in 1..Len(args), NEW j \in 1..Len(args), i < j
  PROVE  /\ ~lowerGroup(Sorted(args)[j], Sorted(args)[i])
         /\ lowerGroup(Sorted(args)[i], Sorted(args)[j]) \/ stableOrder(args)[i] < stableOrder(args)[j]
<1>1. PICK n \in Nat : n = Len(args)
  BY LenProperties
<1>2. PICK order : order = stableOrder(args)
  OBVIOUS
<1>3. Cardinality(1..n) = n
  <2>1. Cardinality(1..n) = IF 1 > n THEN 0 ELSE n - 1 + 1
    BY FS_Interval
  <2> QED
    BY <2>1
<1>4. <<order[i], order[j]>> \in Before(args)
  BY <1>1, <1>2, <1>3, StableOrderEnumerates DEF Enumerates
<1>5. PICK p \in Parameters, q \in Parameters :
        /\ p = Sorted(args)[i] /\ q = Sorted(args)[j] /\ p = args[order[i]] /\ q = args[order[j]]
  BY <1>2, SortedTyped, ElementOfSeq
<1>6. lowerGroup(p, q) \/ (order[i] < order[j] /\ ~lowerGroup(q, p))
  BY <1>4, <1>5 DEF Before
<1>7. lowerGroup(p, q) => ~lowerGroup(q, p)
  BY LowerGroupOrders
<1> QED
  BY <1>2, <1>5, <1>6, <1>7

Run(args, k) == Starts(args)[k] .. Stop(args, k)

(* Where the runs lie                                                      *)
LEMMA RunsAre ==
  ASSUME NEW args \in Seq(Parameters), NEW n, n = Len(args), NEW m, m = Len(Starts(args))
  PROVE  /\ n \in Nat /\ m \in Nat
         /\ \A k \in 1..m : /\ Starts(args)[k] \in 1..n /\ Stop(args, k) \in 1..n
                            /\ Starts(args)[k] <= Stop(args, k)
                            /\ k < m => Stop(args, k) = Starts(args)[k + 1] - 1
                            /\ k = m => Stop(args, k) = n
         /\ \A k, l \in 1..m : k < l => Starts(args)[k] < Starts(args)[l]
         /\ \A i \in 1..n : (\E k \in 1..m : Starts(args)[k] = i) <=>
              i = 1 \/ lowerGroup(Sorted(args)[i - 1], Sorted(args)[i])
<1> DEFINE S == { i \in 1..n : i = 1 \/ lowerGroup(Sorted(args)[i - 1], Sorted(args)[i]) }
<1>1. n \in Nat /\ S \in SUBSET (1..n)
  BY LenProperties
<1>2. PICK starts : starts = Starts(args) /\ starts = ascending(S)
  BY DEF Starts
<1>3. \A i \in 1..n : i \in S <=> i = 1 \/ lowerGroup(Sorted(args)[i - 1], Sorted(args)[i])
  OBVIOUS
<1> HIDE DEF S
<1>4. /\ Cardinality(S) \in Nat /\ starts \in [1..Cardinality(S) -> S]
      /\ \A i \in S : \E r \in 1..Cardinality(S) : starts[r] = i
      /\ \A q, r \in 1..Cardinality(S) : q < r => starts[q] < starts[r]
  BY <1>1, <1>2, AscendingPlaces
<1>5. m = Cardinality(S) /\ m \in Nat
  <2>1. Len(starts) = Cardinality(S)
    BY <1>4
  <2> QED
    BY <1>2, <1>4, <2>1
<1>6. ASSUME NEW k \in 1..m
      PROVE  /\ starts[k] \in 1..n /\ Stop(args, k) \in 1..n /\ starts[k] <= Stop(args, k)
             /\ k < m => Stop(args, k) = starts[k + 1] - 1
             /\ k = m => Stop(args, k) = n
  <2>1. starts[k] \in 1..n /\ Stop(args, k) \in 1..n /\ starts[k] <= Stop(args, k)
    BY <1>2, StartsTyped
  <2>2. k < m => k # Len(starts)
    BY <1>2
  <2> QED
    BY <1>2, <2>1, <2>2 DEF Stop
<1>7. \A i \in 1..n : (\E k \in 1..m : starts[k] = i) <=> i \in S
  BY <1>4, <1>5
<1> QED
  BY <1>1, <1>2, <1>3, <1>4, <1>5, <1>6, <1>7

LEMMA RunsAlike ==
  ASSUME NEW args \in Seq(Parameters), NEW k \in 1..Len(Starts(args)),
         NEW i \in Run(args, k), NEW j \in Run(args, k), i < j
  PROVE  ~lowerGroup(Sorted(args)[i], Sorted(args)[j])
<1>1. PICK n, m, a, b, s : /\ n = Len(args) /\ m = Len(Starts(args)) /\ a = Starts(args)[k]
                           /\ b = Stop(args, k) /\ s = Sorted(args)
  OBVIOUS
<1>2. /\ n \in Nat /\ m \in Nat /\ a \in 1..n /\ b \in 1..n /\ k \in 1..m /\ i \in a..b /\ j \in a..b
  BY <1>1, RunsAre DEF Run
<1>3. \A x \in 1..n : s[x] \in Parameters
  BY <1>1, SortedTyped, ElementOfSeq
<1>4. ASSUME NEW x \in (a + 1)..b PROVE ~lowerGroup(s[x - 1], s[x])
  <2>1. x \in 1..n /\ x # 1
    BY <1>2
  <2> SUFFICES ASSUME NEW l \in 1..m, Starts(args)[l] = x PROVE FALSE
    BY <1>1, <2>1, RunsAre
  <2>2. l > k
    <3>1. l = k => FALSE
      BY <1>1, <1>2
    <3>2. l < k => Starts(args)[l] < a
      BY <1>1, RunsAre
    <3> QED
      BY <1>2, <3>1, <3>2
  <2>3. k < m /\ k + 1 \in 1..m /\ (k + 1 = l \/ k + 1 < l)
    BY <1>2, <2>2
  <2>4. b = Starts(args)[k + 1] - 1
    BY <1>1, <2>3, RunsAre
  <2>5. Starts(args)[k + 1] \in 1..n /\ (k + 1 = l \/ Starts(args)[k + 1] < Starts(args)[l])
    BY <1>1, <2>3, RunsAre
  <2> QED
    BY <1>2, <2>4, <2>5
<1> DEFINE T == { d \in Nat : i + 1 + d <= b => ~lowerGroup(s[i], s[i + 1 + d]) }
<1>5. 0 \in T
  <2>1. i + 1 <= b => i + 1 \in (a + 1)..b /\ (i + 1) - 1 = i
    BY <1>2
  <2>2. i + 1 <= b => ~lowerGroup(s[i], s[i + 1])
    BY <1>4, <2>1
  <2>3. i + 1 + 0 = i + 1
    BY <1>2
  <2> QED
    BY <2>2, <2>3
<1>6. ASSUME NEW d \in Nat, d \in T PROVE d + 1 \in T
  <2> SUFFICES ASSUME i + 1 + (d + 1) <= b PROVE ~lowerGroup(s[i], s[i + 1 + (d + 1)])
    OBVIOUS
  <2>1. PICK x, y : x = i + 1 + d /\ y = i + 1 + (d + 1)
    OBVIOUS
  <2>2. x \in a..b /\ y \in (a + 1)..b /\ y - 1 = x /\ x \in 1..n /\ y \in 1..n /\ i \in 1..n
    BY <1>2, <2>1
  <2>3. ~lowerGroup(s[i], s[x])
    BY <1>6, <2>1, <2>2
  <2>4. ~lowerGroup(s[x], s[y])
    BY <1>4, <2>2
  <2> QED
    BY <1>3, <2>1, <2>2, <2>3, <2>4, LowerGroupOrders
<1>7. PICK d \in Nat : j = i + 1 + d
  <2>1. j - i - 1 \in Nat /\ j = i + 1 + (j - i - 1)
    BY <1>2
  <2> QED
    BY <2>1
<1>8. d \in T
  <2> HIDE DEF T
  <2> QED
    BY <1>5, <1>6, Induction
<1> QED
  BY <1>1, <1>2, <1>7, <1>8

LEMMA RunsRise ==
  ASSUME NEW args \in Seq(Parameters), NEW k \in 1..Len(Starts(args)), NEW l \in 1..Len(Starts(args)),
         k < l, NEW i \in Run(args, k), NEW j \in Run(args, l)
  PROVE  lowerGroup(Sorted(args)[i], Sorted(args)[j])
<1>1. PICK n, m, a, x, s : /\ n = Len(args) /\ m = Len(Starts(args)) /\ a = Starts(args)[k]
                           /\ x = Starts(args)[l] /\ s = Sorted(args)
  OBVIOUS
<1>2. /\ n \in Nat /\ m \in Nat /\ a \in 1..n /\ x \in 1..n /\ k \in 1..m /\ l \in 1..m /\ a < x
      /\ Stop(args, k) \in 1..n /\ Stop(args, l) \in 1..n
  BY <1>1, RunsAre
<1>3. i <= x - 1
  <2>1. k < m /\ k + 1 \in 1..m /\ (k + 1 = l \/ k + 1 < l)
    BY <1>2
  <2>2. Stop(args, k) = Starts(args)[k + 1] - 1
    BY <1>1, <2>1, RunsAre
  <2>3. Starts(args)[k + 1] \in 1..n /\ (k + 1 = l \/ Starts(args)[k + 1] < x)
    BY <1>1, <2>1, RunsAre
  <2>4. i <= Stop(args, k) /\ i \in Int
    BY <1>1, <1>2 DEF Run
  <2> QED
    BY <1>1, <1>2, <2>2, <2>3, <2>4
<1>4. i \in 1..n /\ j \in 1..n /\ x - 1 \in 1..n /\ x <= j
  BY <1>1, <1>2, <1>3 DEF Run
<1>5. \A y \in 1..n : s[y] \in Parameters
  BY <1>1, SortedTyped, ElementOfSeq
<1>6. lowerGroup(s[x - 1], s[x])
  <2>1. x # 1
    BY <1>2
  <2> QED
    BY <1>1, <1>2, <2>1, RunsAre
<1>7. ~lowerGroup(s[x - 1], s[i])
  <2>1. CASE i = x - 1
    BY <1>4, <1>5, <2>1, LowerGroupOrders
  <2>2. CASE i < x - 1
    BY <1>1, <1>4, <2>2, SortedOrder
  <2> QED
    BY <1>3, <1>4, <2>1, <2>2
<1>8. ~lowerGroup(s[j], s[x])
  <2>1. CASE j = x
    BY <1>4, <1>5, <2>1, LowerGroupOrders
  <2>2. CASE x < j
    BY <1>1, <1>2, <1>4, <2>2, SortedOrder
  <2> QED
    BY <1>2, <1>4, <2>1, <2>2
<1>9. PICK p, q, r, t \in Parameters : p = s[i] /\ q = s[x - 1] /\ r = s[x] /\ t = s[j]
  BY <1>2, <1>4, <1>5
<1>10. lowerGroup(q, r) /\ ~lowerGroup(q, p) /\ ~lowerGroup(t, r)
  BY <1>6, <1>7, <1>8, <1>9
<1>11. lowerGroup(p, t)
  <2> SUFFICES ASSUME ~lowerGroup(p, t) PROVE FALSE
    OBVIOUS
  <2>1. ~lowerGroup(q, t)
    BY <1>10, LowerGroupOrders
  <2>2. ~lowerGroup(q, r)
    BY <1>10, <2>1, LowerGroupOrders
  <2> QED
    BY <1>10, <2>2
<1> QED
  BY <1>1, <1>9, <1>11

LEMMA RunsCover ==
  ASSUME NEW args \in Seq(Parameters), NEW i \in 1..Len(args)
  PROVE  \E k \in 1..Len(Starts(args)) : i \in Run(args, k)
<1>1. PICK n, m : n = Len(args) /\ m = Len(Starts(args))
  OBVIOUS
<1>2. /\ n \in Nat /\ m \in Nat
      /\ \A k \in 1..m : /\ Starts(args)[k] \in 1..n /\ Stop(args, k) \in 1..n
                         /\ Starts(args)[k] <= Stop(args, k)
                         /\ k < m => Stop(args, k) = Starts(args)[k + 1] - 1
                         /\ k = m => Stop(args, k) = n
  BY <1>1, RunsAre
<1> DEFINE In(x) == \E k \in 1..m : x \in Run(args, k)
<1>3. 1 <= n => In(1)
  <2> SUFFICES ASSUME 1 <= n PROVE In(1)
    OBVIOUS
  <2>1. 1 \in 1..n
    BY <1>2
  <2>2. PICK k \in 1..m : Starts(args)[k] = 1
    BY <1>1, <2>1, RunsAre
  <2>3. 1 \in Run(args, k)
    BY <1>2, <2>2 DEF Run
  <2> QED
    BY <2>3
<1>4. ASSUME NEW x \in Nat, x + 1 <= n, In(x) PROVE In(x + 1)
  <2>1. PICK k \in 1..m : x \in Run(args, k)
    BY <1>4
  <2>2. PICK a \in 1..n, b \in 1..n : a = Starts(args)[k] /\ b = Stop(args, k) /\ a <= x /\ x <= b
    BY <1>2, <2>1 DEF Run
  <2>3. CASE x + 1 <= b
    BY <1>2, <2>2, <2>3 DEF Run
  <2>4. CASE ~(x + 1 <= b)
    <3>1. x = b /\ k # m
      BY <1>2, <1>4, <2>2, <2>4
    <3>2. k < m /\ k + 1 \in 1..m
      BY <1>2, <3>1
    <3>3. x = Starts(args)[k + 1] - 1 /\ Starts(args)[k + 1] \in 1..n
      BY <1>2, <2>2, <3>1, <3>2
    <3>4. x + 1 \in Run(args, k + 1)
      BY <1>2, <3>2, <3>3 DEF Run
    <3> QED
      BY <3>2, <3>4
  <2> QED
    BY <2>3, <2>4
<1> HIDE DEF In
<1> DEFINE T == { d \in Nat : d + 1 <= n => In(d + 1) }
<1>5. 0 \in T
  BY <1>3
<1>6. ASSUME NEW d \in Nat, d \in T PROVE d + 1 \in T
  <2>1. (d + 1) + 1 <= n => d + 1 <= n
    BY <1>2
  <2>2. (d + 1) + 1 <= n => In((d + 1) + 1)
    BY <1>4, <1>6, <2>1
  <2> QED
    BY <2>2
<1>7. i - 1 \in Nat /\ (i - 1) + 1 = i /\ i <= n
  BY <1>1, <1>2
<1>8. i - 1 \in T
  <2> HIDE DEF T
  <2> QED
    BY <1>5, <1>6, <1>7, Induction
<1>9. In(i)
  BY <1>7, <1>8
<1> QED
  BY <1>1, <1>9 DEF In

-----------------------------------------------------------------------------
(* The groups list the parameters.                                         *)
LEMMA GroupStands ==
  ASSUME NEW args \in Seq(Parameters), NEW k \in 1..Len(Starts(args))
  PROVE  \E q : /\ GroupAt(args, reorderGroups(args)[k], q)
                /\ PlacesFor(reorderGroups(args)[k], q) = { stableOrder(args)[i] : i \in Run(args, k) }
<1>1. PICK n, m, a, b, s, o : /\ n = Len(args) /\ m = Len(Starts(args)) /\ a = Starts(args)[k]
                              /\ b = Stop(args, k) /\ s = Sorted(args) /\ o = stableOrder(args)
  OBVIOUS
<1>2. /\ n \in Nat /\ m \in Nat /\ a \in 1..n /\ b \in 1..n /\ a <= b /\ k \in 1..m
      /\ Run(args, k) = a..b
  BY <1>1, RunsAre DEF Run
<1>3. \A x \in 1..n : o[x] \in 1..n /\ s[x] = args[o[x]]
  BY <1>1, SortedTyped
<1>4. \A x \in a..b : x \in 1..n /\ s[x] \in Parameters
  <2>1. \A x \in a..b : x \in 1..n
    BY <1>2
  <2>2. \A x \in 1..n : s[x] \in Parameters
    BY <1>1, SortedTyped, ElementOfSeq
  <2> QED
    BY <2>1, <2>2
<1>5. PICK group : group = SubSeq(s, a, b)
  OBVIOUS
<1>6. reorderGroups(args)[k] = group
  <2>1. reorderGroups(args) = [x \in 1..m |-> SubSeq(s, Starts(args)[x], Stop(args, x))]
    BY <1>1, GroupsAre
  <2>2. reorderGroups(args)[k] = SubSeq(s, Starts(args)[k], Stop(args, k))
    BY <1>2, <2>1
  <2> QED
    BY <1>1, <1>5, <2>2
<1>7. PICK l \in Nat : l = b - a + 1
  BY <1>2
<1>8. /\ group \in Seq(Parameters) /\ Len(group) = l
      /\ \A r \in 1..l : group[r] = s[a + r - 1]
  <2>1. a \in Int /\ b \in Int
    BY <1>2
  <2>2. /\ group \in Seq(Parameters) /\ Len(group) = IF a <= b THEN b - a + 1 ELSE 0
        /\ \A i \in 1..(b - a + 1) : group[i] = s[a + i - 1]
    BY <1>4, <1>5, <2>1, SubSeqProperties
  <2> QED
    BY <1>2, <1>7, <2>2
<1>9. PICK q : q = [r \in 1..l |-> o[a + r - 1]]
  OBVIOUS
<1>10. ASSUME NEW r \in 1..l
       PROVE  /\ a + r - 1 \in a..b /\ a + r - 1 \in 1..n /\ q[r] = o[a + r - 1] /\ q[r] \in 1..n
              /\ group[r] = s[a + r - 1] /\ group[r] = args[q[r]]
  <2>1. a + r - 1 \in a..b /\ a + r - 1 \in 1..n
    BY <1>2, <1>7
  <2>2. q[r] = o[a + r - 1]
    BY <1>9
  <2> QED
    BY <1>3, <1>8, <2>1, <2>2
<1>11. Standing(args, group, q)
  BY <1>1, <1>8, <1>10 DEF Standing
<1>12. ASSUME NEW i \in a..b, NEW j \in a..b, i < j
       PROVE  ~lowerGroup(s[i], s[j]) /\ ~lowerGroup(s[j], s[i]) /\ o[i] < o[j]
  <2>1. ~lowerGroup(s[i], s[j])
    BY <1>1, <1>2, <1>12, RunsAlike
  <2>2. i \in 1..n /\ j \in 1..n
    BY <1>4
  <2> QED
    BY <1>1, <1>12, <2>1, <2>2, SortedOrder
<1>13. \A r, x \in 1..l : r < x => q[r] < q[x]
  <2> SUFFICES ASSUME NEW r \in 1..l, NEW x \in 1..l, r < x PROVE q[r] < q[x]
    OBVIOUS
  <2>1. PICK i \in a..b, j \in a..b : i = a + r - 1 /\ j = a + x - 1 /\ i < j
    <3>1. a + r - 1 < a + x - 1
      BY <1>2
    <3> QED
      BY <1>10, <3>1
  <2> QED
    BY <1>10, <1>12, <2>1
<1>14. \A r, x \in 1..l : SameGroup(group[r], group[x])
  <2> SUFFICES ASSUME NEW r \in 1..l, NEW x \in 1..l PROVE SameGroup(group[r], group[x])
    OBVIOUS
  <2>1. PICK i \in a..b, j \in a..b : i = a + r - 1 /\ j = a + x - 1
    BY <1>10
  <2>2. group[r] = s[i] /\ group[x] = s[j]
    BY <1>10, <2>1
  <2>3. i < j \/ j < i \/ i = j
    BY <1>2
  <2>4. CASE i = j
    BY <1>4, <2>2, <2>4, LowerGroupOrders DEF SameGroup
  <2>5. CASE i # j
    BY <1>12, <2>2, <2>3, <2>5 DEF SameGroup
  <2> QED
    BY <2>4, <2>5
<1>15. Len(group) \in Nat \ {0}
  BY <1>2, <1>7, <1>8
<1>16. GroupAt(args, group, q)
  BY <1>8, <1>11, <1>13, <1>14, <1>15 DEF GroupAt
<1>17. PlacesFor(group, q) = { o[i] : i \in Run(args, k) }
  <2>1. ASSUME NEW r \in 1..l PROVE q[r] \in { o[i] : i \in a..b }
    BY <1>10
  <2>2. ASSUME NEW i \in a..b PROVE \E r \in 1..l : q[r] = o[i]
    <3>1. i - a + 1 \in 1..l /\ a + (i - a + 1) - 1 = i
      BY <1>2, <1>7
    <3> QED
      BY <1>10, <3>1
  <2>3. PlacesFor(group, q) = { q[r] : r \in 1..l }
    BY <1>8 DEF PlacesFor
  <2> QED
    BY <1>2, <2>1, <2>2, <2>3
<1> QED
  BY <1>1, <1>6, <1>16, <1>17

RunPlaces(args, k) == { stableOrder(args)[i] : i \in Run(args, k) }

LEMMA GroupsListed ==
  ASSUME NEW args \in Seq(Parameters), NEW column \in Nat, NEW groups, groups = reorderGroups(args)
  PROVE  LET s == FlattenSeq([i \in 1..Len(groups) |-> writeGroup(groups[i], column)])
         IN  s \in Seq(Calls) /\ Listed(Written(EntryListing(args)), s, 1..Len(args), {})
<1>1. PICK n, m, M : n = Len(args) /\ m = Len(Starts(args)) /\ M = Written(EntryListing(args))
  OBVIOUS
<1>2. /\ n \in Nat /\ m \in Nat
      /\ \A k \in 1..m : Starts(args)[k] \in 1..n /\ Stop(args, k) \in 1..n
  BY <1>1, RunsAre
<1>3. Len(groups) = m
  <2>1. groups = [k \in 1..m |-> SubSeq(Sorted(args), Starts(args)[k], Stop(args, k))]
    BY <1>1, GroupsAre
  <2> QED
    BY <1>2, <2>1
<1>4. PICK ss, DD, o : /\ ss = [i \in 1..m |-> writeGroup(groups[i], column)]
                       /\ DD = [k \in 1..m |-> RunPlaces(args, k)] /\ o = stableOrder(args)
  OBVIOUS
<1> DEFINE C == Calls
<1>5. ASSUME NEW k \in 1..m
      PROVE  ss[k] \in Seq(C) /\ Listed(M, ss[k], RunPlaces(args, k), {})
  <2>1. PICK q : /\ GroupAt(args, groups[k], q)
                 /\ PlacesFor(groups[k], q) = RunPlaces(args, k)
    BY <1>1, GroupStands DEF RunPlaces
  <2>2. PICK t : t = writeGroup(groups[k], column)
    OBVIOUS
  <2>3. t \in Seq(C) /\ Listed(M, t, PlacesFor(groups[k], q), {})
    BY <1>1, <2>1, <2>2, GroupListed
  <2>4. ss[k] = t
    BY <1>4, <2>2
  <2> QED
    BY <2>1, <2>3, <2>4
<1> HIDE DEF C
<1>6. ss \in [1..m -> Seq(C)]
  <2> DEFINE T == Seq(C)
  <2>1. \A r \in 1..m : ss[r] \in T
    BY <1>5
  <2>2. ss = [r \in 1..m |-> ss[r]]
    BY <1>4
  <2> HIDE DEF T
  <2>3. ss \in [1..m -> T]
    BY <2>1, <2>2
  <2> QED
    BY <2>3 DEF T
<1>7. \A k \in 1..m : DD[k] = RunPlaces(args, k)
  BY <1>4
<1>8. \A x \in 1..n : o[x] \in 1..n /\ Sorted(args)[x] = args[o[x]] /\ Sorted(args)[x] \in Parameters
  BY <1>1, <1>4, SortedTyped, ElementOfSeq
<1>9. \A k \in 1..m : \A i \in Run(args, k) : i \in 1..n
  BY <1>2 DEF Run
<1>10. ASSUME NEW k \in 1..m, NEW l \in 1..m, k < l, NEW d \in DD[k], NEW e \in DD[l]
       PROVE  <<d, e>> \in M.order
  <2>1. PICK i \in Run(args, k) : d = o[i]
    BY <1>4, <1>7 DEF RunPlaces
  <2>2. PICK j \in Run(args, l) : e = o[j]
    BY <1>4, <1>7 DEF RunPlaces
  <2>3. lowerGroup(Sorted(args)[i], Sorted(args)[j])
    BY <1>1, <1>10, RunsRise
  <2>4. /\ d \in 1..n /\ e \in 1..n /\ args[d] \in Parameters /\ args[e] \in Parameters
        /\ Sorted(args)[i] = args[d] /\ Sorted(args)[j] = args[e]
    BY <1>8, <1>9, <2>1, <2>2
  <2>5. precedes(args, d, e)
    BY <2>3, <2>4, PrecedesByGroup
  <2>6. <<d, e>> \in EntryListing(args).order
    BY <1>1, <2>4, <2>5, InEntryListing
  <2> QED
    BY <1>1, <2>6, InWritten
<1>11. PICK flat, D : flat = FlattenSeq(ss) /\ D = Together(DD, m)
  OBVIOUS
<1>12. flat \in Seq(C) /\ Listed(M, flat, D, {})
  <2>1. \A r \in 1..m : Listed(M, ss[r], DD[r], {})
    BY <1>5, <1>7
  <2>2. PICK H : H = {}
    OBVIOUS
  <2>3. \A r \in 1..m : Listed(M, ss[r], DD[r], H)
    BY <2>1, <2>2
  <2>4. flat \in Seq(C) /\ Listed(M, flat, D, H)
    BY <1>2, <1>6, <1>10, <1>11, <2>2, <2>3, ListedFlatten
  <2> QED
    BY <2>2, <2>4
<1>13. D = 1..n
  <2>1. ASSUME NEW d PROVE d \in D <=> \E k \in 1..m : d \in RunPlaces(args, k)
    BY <1>7, <1>11, InTogether
  <2>2. ASSUME NEW d \in D PROVE d \in 1..n
    <3>1. PICK k \in 1..m : d \in RunPlaces(args, k)
      BY <2>1
    <3> QED
      BY <1>4, <1>8, <1>9, <3>1 DEF RunPlaces
  <2>3. ASSUME NEW d \in 1..n PROVE d \in D
    <3>1. PICK i \in 1..n : o[i] = d
      BY <1>1, <1>4, SortedTyped
    <3>2. PICK k \in 1..m : i \in Run(args, k)
      BY <1>1, RunsCover
    <3>3. d \in RunPlaces(args, k)
      BY <1>4, <3>1, <3>2 DEF RunPlaces
    <3> QED
      BY <2>1, <3>3
  <2> QED
    BY <2>2, <2>3
<1> QED
  BY <1>1, <1>3, <1>4, <1>11, <1>12, <1>13 DEF C

-----------------------------------------------------------------------------
(* The help lists the parameters: nothing else of it is an entry or a      *)
(* heading.                                                                *)
UsageRoles == {"text", "usage"}

LEMMA UsageOfRoles ==
  ASSUME NEW p \in Parameters
  PROVE  usageOf(p) \in Seq(WordsOf(UsageRoles))
<1>1. CASE is_positional(p)
  <2>1. /\ usageOf(p) \in Seq(PlainWords)
        /\ \A k \in 1..Len(usageOf(p)) : usageOf(p)[k].role \in UsageRoles
    BY <1>1, OtherUsage DEF UsageRoles
  <2> QED
    BY <2>1, WordsOfRoles
<1>2. CASE ~is_positional(p)
  <2>1. p.kind = "option"
    BY <1>2, ParametersAssumption DEF is_positional
  <2>2. Leads(usageOf(p), {"text"}, "usage")
    BY <2>1, OptionUsage
  <2>3. {"text"} \cup {"usage"} \subseteq UsageRoles
    BY DEF UsageRoles
  <2> QED
    BY <2>2, <2>3, LeadsTyped
<1> QED
  BY <1>1, <1>2

LEMMA FormatUsageOfRoles ==
  ASSUME NEW args \in Seq(Parameters)
  PROVE  formatUsage(args) \in Seq(WordsOf(UsageRoles))
<1> DEFINE u(i) == IF isCommand(args[i]) THEN <<>> ELSE usageOf(args[i])
           W == WordsOf(UsageRoles)
           subs == IF \E i \in 1..Len(args) : isCommand(args[i])
                     THEN << word("<command>", "text"), word("...", "text") >> ELSE <<>>
<1>1. PICK n \in Nat : n = Len(args)
  BY LenProperties
<1>2. \A i \in 1..n : u(i) \in Seq(W)
  <2>1. \A i \in 1..n : args[i] \in Parameters
    BY <1>1, ElementOfSeq
  <2>2. <<>> \in Seq(W)
    OBVIOUS
  <2> QED
    BY <2>1, <2>2, UsageOfRoles
<1>3. PICK parts : parts = [i \in 1..Len(args) |-> u(i)]
  OBVIOUS
<1>4. parts \in Seq(Seq(W))
  <2> DEFINE S == Seq(W)
  <2> HIDE DEF u, S
  <2>1. \A i \in 1..n : u(i) \in S
    BY <1>2 DEF S
  <2>2. parts \in Seq(S)
    BY <1>1, <1>3, <2>1
  <2> QED
    BY <2>2 DEF S
<1> HIDE DEF W
<1>5. FlattenSeq(parts) \in Seq(W)
  BY <1>4, FlattenPlaces
<1>6. subs \in Seq(W)
  <2>1. PICK a, b : a = word("<command>", "text") /\ b = word("...", "text")
    OBVIOUS
  <2>2. a \in PlainWords /\ b \in PlainWords
    BY <2>1, OwnWordTyped DEF OwnNames, Roles
  <2>3. a.role = "text" /\ b.role = "text"
    BY <2>1 DEF word
  <2>4. a \in W /\ b \in W
    BY <2>2, <2>3, WordOfRole DEF UsageRoles, W
  <2> QED
    BY <2>1, <2>4
<1>7. formatUsage(args) = FlattenSeq(parts) \o subs
  BY <1>3 DEF formatUsage
<1> HIDE DEF subs
<1> QED
  BY <1>5, <1>6, <1>7, ConcatProperties DEF W

LEMMA UsageSpoken ==
  ASSUME NEW d \in Definitions, NEW c \in Configs
  PROVE  write(IF c.usage # <<>> THEN c.usage ELSE c.program \o formatUsage(describe_arguments(d)))
           \in Spoken(Others)
<1>1. UsageRoles \subseteq Others /\ {"text"} \subseteq Others /\ Others \subseteq Roles \cup {"help"}
  BY DEF UsageRoles, Others, Roles
<1>2. c.usage \in Texts({"text"}) /\ c.program \in Texts({"text"})
  BY ConfigsAssumption
<1>3. CASE c.usage # <<>>
  <2>1. c.usage \in Texts(Others)
    BY <1>1, <1>2, TextsWiden
  <2> QED
    BY <1>1, <1>3, <2>1, WriteSpoken
<1>4. CASE ~(c.usage # <<>>)
  <2> DEFINE T == WordsOf(Others) \cup {Break}
  <2>1. PICK args \in Seq(Parameters) : args = describe_arguments(d)
    BY DescribedTyped
  <2>2. c.program \in Seq(T)
    BY <1>1, <1>2, TextsWiden DEF Texts
  <2>3. formatUsage(args) \in Seq(T)
    <3>1. WordsOf(UsageRoles) \subseteq T
      BY <1>1 DEF WordsOf
    <3> QED
      BY <3>1, FormatUsageOfRoles, SeqMonotonic
  <2> HIDE DEF T
  <2>4. c.program \o formatUsage(args) \in Seq(T)
    BY <2>2, <2>3, ConcatProperties
  <2>5. c.program \o formatUsage(args) \in Texts(Others)
    BY <2>4 DEF Texts, T
  <2>6. write(c.program \o formatUsage(args)) \in Spoken(Others)
    BY <1>1, <2>5, WriteSpoken
  <2> QED
    BY <1>4, <2>1, <2>6
<1> QED
  BY <1>3, <1>4

LEMMA EntriesListed ==
  ASSUME NEW d \in Definitions, NEW c \in Configs, NEW args, args = describe_arguments(d)
  PROVE  Listed(Written(EntryListing(args)), format(d, c), 1..Len(args), {})
<1>1. args \in Seq(Parameters)
  BY DescribedTyped
<1>2. PICK column \in Nat : column = descriptionIndent(args)
  BY <1>1, ColumnTyped
<1>3. PICK M, D, H : M = Written(EntryListing(args)) /\ D = 1..Len(args) /\ H = {}
  OBVIOUS
<1> DEFINE S == Spoken(Others)
<1>4. S \subseteq Silent(M)
  BY <1>3, OthersSilent
<1>5. Others \subseteq Roles \cup {"help"} /\ "text" \in Others /\ "text" \in Others \cap Roles
  BY DEF Others, Roles
<1>6. write(<< word("usage:", "text") >>) \in S
  <2>1. "usage:" \in Names
    BY SizesAssumption DEF OwnNames
  <2> QED
    BY <1>5, <2>1, OneWordSpoken
<1>7. paragraph \in S /\ writeBlock(c.description) \in S /\ writeBlock(c.epilog) \in S
  BY <1>5, ConfigsAssumption, SpokenSingles, BlockSpoken
<1>8. PICK usage : usage = IF c.usage # <<>> THEN c.usage ELSE c.program \o formatUsage(args)
  OBVIOUS
<1>9. write(usage) \in S
  BY <1>8, UsageSpoken
<1>10. PICK u \in S, v \in S, w \in S, x \in S, z \in S :
         /\ u = write(<< word("usage:", "text") >>) /\ v = write(usage) /\ w = paragraph
         /\ x = writeBlock(c.description) /\ z = writeBlock(c.epilog)
  BY <1>6, <1>7, <1>9
<1>11. PICK groups : groups = reorderGroups(args)
  OBVIOUS
<1>12. PICK y : y = FlattenSeq([i \in 1..Len(groups) |-> writeGroup(groups[i], column)])
  OBVIOUS
<1>13. y \in Seq(Calls) /\ Listed(M, y, D, H)
  BY <1>1, <1>3, <1>11, <1>12, GroupsListed
<1>14. format(d, c) = ((((u \o v) \o w) \o x) \o y) \o z
  BY <1>2, <1>8, <1>10, <1>11, <1>12 DEF format
<1>15. PICK s : s = ((u \o v) \o w) \o x
  OBVIOUS
<1>16. s \in Silent(M) /\ z \in Silent(M)
  <2> HIDE DEF S
  <2>1. u \in Silent(M) /\ v \in Silent(M) /\ w \in Silent(M) /\ x \in Silent(M) /\ z \in Silent(M)
    BY <1>4
  <2>2. u \o v \in Silent(M)
    BY <2>1, SilentConcat
  <2>3. (u \o v) \o w \in Silent(M)
    BY <2>1, <2>2, SilentConcat
  <2> QED
    BY <1>15, <2>1, <2>3, SilentConcat
<1>17. PICK t : t = s \o y
  OBVIOUS
<1>18. t \in Seq(Calls) /\ Listed(M, t, D, H)
  BY <1>13, <1>16, <1>17, AfterSilent
<1>19. Listed(M, t \o z, D, H)
  BY <1>3, <1>16, <1>18, BeforeSilent
<1> QED
  BY <1>3, <1>14, <1>15, <1>17, <1>19

-----------------------------------------------------------------------------
(* What the printed words list, the help shows.                            *)
LEMMA PrintedIs ==
  ASSUME writer \in Writers(AllWords)
  PROVE  printed = Printed(writer)
<1> DEFINE S == Seq(Pieces(AllWords))
           P == Pieces(AllWords)
<1>1. PICK a, b : a = writer.lines /\ b = writer.line
  OBVIOUS
<1>2. a \in Seq(S) /\ b \in S
  BY <1>1, Members
<1> HIDE DEF P
<1>3. Lines = Append(a, b)
  <2> HIDE DEF S
  <2>1. a \o <<b>> = Append(a, b)
    BY <1>2
  <2> QED
    BY <1>1, <2>1 DEF Lines
<1>4. [i \in 1..Len(Lines) |-> Lines[i]] = Append(a, b)
  <2> HIDE DEF S
  <2>1. PICK c : c = Append(a, b)
    OBVIOUS
  <2>2. c \in Seq(S)
    BY <1>2, <2>1
  <2>3. [i \in 1..Len(c) |-> c[i]] = c
    BY <2>2
  <2> QED
    BY <1>3, <2>1, <2>3
<1>5. FlattenSeq(Append(a, b)) = FlattenSeq(a) \o b
  BY <1>2, FlattenAppend
<1> QED
  BY <1>1, <1>4, <1>5 DEF printed, Printed

(* The words of the printed pieces                                         *)
PrintedWords == [x \in 1..Len(printed) |-> printed[x].word]

LEMMA WordsPrinted ==
  ASSUME writer \in Writers(AllWords)
  PROVE  /\ Len(printed) \in Nat /\ Len(PrintedWords) = Len(printed)
         /\ \A x \in 1..Len(printed) :
              PrintedWords[x] = printed[x].word /\ PrintedWords[x] \in AllWords
<1>1. printed \in Seq(Pieces(AllWords))
  BY PrintedIs, PrintedTyped
<1>2. PICK n \in Nat : n = Len(printed)
  BY <1>1, LenProperties
<1>3. \A x \in 1..n : printed[x] \in Pieces(AllWords)
  BY <1>1, <1>2, ElementOfSeq
<1>4. \A x \in 1..n : printed[x].word \in AllWords
  BY <1>3 DEF Pieces
<1>5. PICK ws : ws = PrintedWords /\ ws = [x \in 1..n |-> printed[x].word]
  BY <1>2 DEF PrintedWords
<1>6. Len(ws) = n /\ \A x \in 1..n : ws[x] = printed[x].word
  BY <1>5
<1> QED
  BY <1>2, <1>4, <1>5, <1>6

LEMMA EntryShows ==
  ASSUME NEW args, NEW w, NEW d, <<w, d>> \in EntryListing(args).shows
  PROVE  w = formatArgument(args[d])[1]
BY InEntryListing

LEMMA EntriesPrinted ==
  ASSUME writer \in Writers(AllWords), NEW args,
         Listed(EntryListing(args), PrintedWords, 1..Len(args), {})
  PROVE  EntriesShow(args)
<1>1. PICK L, ws, n, D : L = EntryListing(args) /\ ws = PrintedWords /\ n = Len(printed) /\ D = 1..Len(args)
  OBVIOUS
<1>2. /\ n \in Nat /\ Len(ws) = n
      /\ \A x \in 1..n : ws[x] = printed[x].word /\ ws[x] \in AllWords
  BY <1>1, WordsPrinted
<1>3. PICK f : Lists(L, ws, D, {}, f)
  BY <1>1 DEF Listed
<1>4. PICK entries : entries = placesOf("entry")
  OBVIOUS
<1>5. entries = ShownAt(L, ws) /\ \A i \in entries : i \in 1..n
  <2>1. \A i \in 1..n : ws[i] \in L.entries <=> printed[i].word.role = "entry"
    BY <1>1, <1>2, InEntryListing
  <2> QED
    BY <1>1, <1>2, <1>4, <2>1 DEF ShownAt, placesOf
<1>6. /\ \A d \in D : \E i \in entries : f[i] = d
      /\ \A i \in entries : f[i] \in D /\ <<ws[i], f[i]>> \in L.shows /\ HeadedAs(L, ws, i, f[i])
      /\ \A i, j \in entries : i < j => <<f[i], f[j]>> \in L.order
  BY <1>3, <1>5 DEF Lists
<1>7. PICK shown : shown = [i \in entries |-> f[i]]
  OBVIOUS
<1>8. shown \in [entries -> D] /\ \A i \in entries : shown[i] = f[i]
  BY <1>6, <1>7
<1>9. \A k \in D : \E i \in entries : shown[i] = k
  BY <1>6, <1>8
<1>10. ASSUME NEW i \in entries
       PROVE  /\ printed[i].word = formatArgument(args[shown[i]])[1]
              /\ under(i, headingFor(args[shown[i]]))
  <2>1. PICK d : d = f[i] /\ d = shown[i]
    BY <1>8
  <2>2. printed[i].word = formatArgument(args[d])[1]
    <3>1. PICK w : w = ws[i] /\ <<w, d>> \in EntryListing(args).shows
      BY <1>1, <1>6, <2>1
    <3>2. w = formatArgument(args[d])[1]
      BY <3>1, EntryShows
    <3> QED
      BY <1>2, <1>5, <3>1, <3>2
  <2>3. PICK h \in 1..(i - 1) : HeadAt(L, ws, i, h) /\ <<ws[h], d>> \in L.over
    BY <1>6, <2>1 DEF HeadedAs
  <2>4. i \in 1..n /\ h \in 1..n /\ \A k \in (h + 1)..(i - 1) : k \in 1..n
    BY <1>2, <1>5
  <2>5. ws[h] \in L.heads /\ \A k \in (h + 1)..(i - 1) : ws[k] \notin L.heads
    BY <2>3 DEF HeadAt
  <2>6. printed[h].word.role = "heading" /\ printed[h].word.text = headingFor(args[d])
    <3>1. ws[h].role = "heading" /\ ws[h].text = headingFor(args[d])
      BY <1>1, <2>3, <2>5, InEntryListing
    <3> QED
      BY <1>2, <2>4, <3>1
  <2>7. ASSUME NEW k \in (h + 1)..(i - 1) PROVE printed[k].word.role # "heading"
    <3>1. ws[k] = printed[k].word /\ ws[k] \in AllWords
      BY <1>2, <2>4
    <3>2. ws[k].role # "heading"
      BY <1>1, <2>5, <3>1, InEntryListing
    <3> QED
      BY <3>1, <3>2
  <2>8. under(i, headingFor(args[d]))
    BY <2>6, <2>7 DEF under
  <2> QED
    BY <2>1, <2>2, <2>8
<1>11. ASSUME NEW i \in entries, NEW j \in entries, i < j PROVE precedes(args, shown[i], shown[j])
  <2>1. <<f[i], f[j]>> \in L.order
    BY <1>6, <1>11
  <2> QED
    BY <1>1, <1>8, <2>1, InEntryListing
<1> QED
  BY <1>1, <1>4, <1>8, <1>9, <1>10, <1>11 DEF EntriesShow

LEMMA UsagePrinted ==
  ASSUME writer \in Writers(AllWords), NEW options,
         Listed(UsageListing(options), PrintedWords, 1..Len(options), 1..Len(options))
  PROVE  UsageShows(options)
<1>1. PICK L, ws, n, D :
        L = UsageListing(options) /\ ws = PrintedWords /\ n = Len(printed) /\ D = 1..Len(options)
  OBVIOUS
<1>2. /\ n \in Nat /\ Len(ws) = n
      /\ \A x \in 1..n : ws[x] = printed[x].word /\ ws[x] \in AllWords
  BY <1>1, WordsPrinted
<1>3. PICK f : Lists(L, ws, D, D, f)
  BY <1>1 DEF Listed
<1>4. PICK names : names = placesOf("usage")
  OBVIOUS
<1>5. names = ShownAt(L, ws) /\ \A i \in names : i \in 1..n
  <2>1. \A i \in 1..n : ws[i] \in L.entries <=> printed[i].word.role = "usage"
    BY <1>1, <1>2, InUsageListing
  <2> QED
    BY <1>1, <1>2, <1>4, <2>1 DEF ShownAt, placesOf
<1>6. /\ \A d \in D : \E i \in names : f[i] = d
      /\ \A i \in names : f[i] \in D /\ <<ws[i], f[i]>> \in L.shows
      /\ \A i, j \in names : i < j => <<f[i], f[j]>> \in L.order
  BY <1>3, <1>5 DEF Lists
<1>7. PICK named : named = [i \in names |-> f[i]]
  OBVIOUS
<1>8. named \in [names -> D] /\ \A i \in names : named[i] = f[i]
  BY <1>6, <1>7
<1>9. \A k \in D : \E i \in names : named[i] = k
  BY <1>6, <1>8
<1>10. ASSUME NEW i \in names
       PROVE  /\ printed[i].word.text = getName(options[named[i]])
              /\ (printed[i].word.open > 0 <=> ~options[named[i]].required)
  <2>1. UsageHead(ws[i], options[f[i]])
    BY <1>1, <1>6, InUsageListing
  <2>2. ws[i] = printed[i].word /\ named[i] = f[i]
    BY <1>2, <1>5, <1>8
  <2> QED
    BY <2>1, <2>2 DEF UsageHead
<1>11. ASSUME NEW i \in names, NEW j \in names, i < j PROVE named[i] < named[j]
  <2>1. <<f[i], f[j]>> \in L.order
    BY <1>6, <1>11
  <2> QED
    BY <1>1, <1>8, <2>1, InUsageListing
<1> QED
  BY <1>1, <1>4, <1>8, <1>9, <1>10, <1>11 DEF UsageShows

(* Every help that is finished shows what was defined: each parameter and  *)
(* command once, under its heading and in order, and each option once in   *)
(* the usage (helpformatter_impl.h:49-182, optionsorter_impl.h:10-55).     *)
THEOREM DefinitionShown == HelpSpec => []HelpShowsDefinition
<1>1. ShowInv => HelpShowsDefinition
  <2> SUFFICES ASSUME ShowInv, Finished
               PROVE  /\ EntriesShow(describe_arguments(definition))
                      /\ config.usage = <<>> => UsageShows(definition.options)
    BY DEF HelpShowsDefinition
  <2>1. /\ definition \in Definitions /\ config \in Configs /\ Kinds(definition)
        /\ writer \in Writers(AllWords)
    BY DEF ShowInv, HelpInv, ScriptInv, WriterInv
  <2>2. PICK F : F = format(definition, config)
    OBVIOUS
  <2>3. PICK m, h : SoFar(F, <<>>, m, printed, h)
    BY <2>1, <2>2, PrintedIs DEF ShowInv, Finished
  <2>4. PICK g : Tells(F, PrintedWords, g)
    BY <2>3, AllTold DEF PrintedWords
  <2>5. PICK args : args = describe_arguments(definition)
    OBVIOUS
  <2>6. EntriesShow(args)
    <3>1. Listed(Written(EntryListing(args)), F, 1..Len(args), {})
      BY <2>1, <2>2, <2>5, EntriesListed
    <3>2. Listed(EntryListing(args), PrintedWords, 1..Len(args), {})
      BY <2>4, <3>1, ToldListed
    <3> QED
      BY <2>1, <3>2, EntriesPrinted
  <2>7. ASSUME config.usage = <<>> PROVE UsageShows(definition.options)
    <3>1. PICK options, D : options = definition.options /\ D = 1..Len(options)
      OBVIOUS
    <3>2. Listed(Written(UsageListing(options)), F, D, D)
      BY <2>1, <2>2, <2>7, <3>1, UsageListed
    <3>3. Listed(UsageListing(options), PrintedWords, D, D)
      BY <2>4, <3>2, ToldListed
    <3> QED
      BY <2>1, <3>1, <3>3, UsagePrinted
  <2> QED
    BY <2>5, <2>6, <2>7
<1> QED
  BY <1>1, ShowInvInit, ShowInvNext, PTL DEF HelpSpec
=============================================================================
