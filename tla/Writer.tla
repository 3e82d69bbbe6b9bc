------------------------------- MODULE Writer -------------------------------
(***************************************************************************)
(* Class Writer: words are put on lines of a given width, from the current *)
(* indent on.  Writer does not look at what it has written; it keeps two   *)
(* positions and a flag.  Next to its members the record holds what really *)
(* went to the stream: the column, the words of the line and the lines.    *)
(*                                                                         *)
(* splitIntoParagraphs and splitIntoWords deliver words and breaks; words  *)
(* are written one by one here.                                            *)
(***************************************************************************)
EXTENDS Integers, Sequences

CONSTANT Width   \* the width of the text

ASSUME WidthAssumption == Width \in Nat

VARIABLE writer

newWriter == [ position |-> 0, lastWritePosition |-> 0, startOfParagraph |-> TRUE,
               indent |-> 0, column |-> 0, line |-> <<>>, lines |-> <<>> ]

-----------------------------------------------------------------------------
(* The stream                                                              *)

blanks(w, n) == [w EXCEPT !.column = @ + n]

newline(w) == [w EXCEPT !.lines = Append(@, w.line), !.line = <<>>, !.column = 0]

put(w, word) ==
  [w EXCEPT !.line = Append(@, [at |-> w.column, word |-> word]),
            !.column = @ + word.len]

-----------------------------------------------------------------------------
(* The methods                                                             *)

setIndent(w, n) == [w EXCEPT !.indent = IF n > Width THEN Width ELSE n]

startLine(w) ==
  [ (IF w.position > 0 THEN newline(w) ELSE w)
      EXCEPT !.position = 0, !.lastWritePosition = 0, !.startOfParagraph = FALSE ]

(* Mutant: the members do not follow what the stream was given.            *)
skipUntold(w, n) ==
  IF n >= Width \/ n < w.position THEN startLine(w)
  ELSE [blanks(w, n - w.position) EXCEPT !.startOfParagraph = FALSE]

skipToColumnOrNewLine(w, n) ==
  IF n >= Width \/ n < w.position
    THEN startLine(w)
    ELSE [ blanks(w, n - w.position) EXCEPT !.position = n,
                                            !.startOfParagraph = FALSE ]

startParagraph(w) ==
  IF w.startOfParagraph
    THEN w
    ELSE [newline(startLine(w)) EXCEPT !.startOfParagraph = TRUE]

(* After a word, not after blanks that skip to a column, comes a blank.    *)
space(w) ==
  IF w.position > 0 /\ w.position = w.lastWritePosition
    THEN [blanks(w, 1) EXCEPT !.position = @ + 1]
    ELSE w

indented(w) ==
  IF w.position = 0 THEN [blanks(w, w.indent) EXCEPT !.position = w.indent] ELSE w

newPosition(w, word) ==
  w.position + (IF w.position = 0 THEN w.indent ELSE 1) + word.len

(* A step of write_paragraph, which clears the flag at its end.            *)
writeWord(w, word) ==
  LET ready == indented(IF newPosition(w, word) > Width THEN startLine(w) ELSE space(w))
  IN  [ put(ready, word) EXCEPT !.position = ready.position + word.len,
                                !.lastWritePosition = ready.position + word.len,
                                !.startOfParagraph = FALSE ]

-----------------------------------------------------------------------------
(* A client that calls the methods in any order                            *)

Call(Words) ==
  \/ \E word \in Words : writer' = writeWord(writer, word)
  \/ \E n \in Nat : \/ writer' = setIndent(writer, n)
                    \/ writer' = skipToColumnOrNewLine(writer, n)
  \/ writer' = startLine(writer)
  \/ writer' = startParagraph(writer)

AnyClient(Words) == writer = newWriter /\ [][Call(Words)]_writer

-----------------------------------------------------------------------------
Lines == writer.lines \o <<writer.line>>

End(piece) == piece.at + piece.word.len

Readable(line) ==
  /\ \A k \in 1..Len(line) : End(line[k]) > Width => Len(line) = 1
  /\ \A k \in 2..Len(line) : End(line[k - 1]) < line[k].at

(* However the methods are called, the lines can be read: a line is wider  *)
(* than the text only if it holds a single word, which no break could      *)
(* help, and two words of a line never touch (writer_impl.h:109-130).      *)
(* Writer decides both from its own positions, never from the stream.      *)
LinesReadable == \A i \in 1..Len(Lines) : Readable(Lines[i])

=============================================================================
