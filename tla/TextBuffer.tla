----------------------------- MODULE TextBuffer -----------------------------
(***************************************************************************)
(* What the editor promises: lines of text and a cursor in them.           *)
(***************************************************************************)
EXTENDS Integers, Sequences, SequencesExt

CONSTANTS
  Char,     \* the characters that can be typed
  Texts,    \* the texts editing begins with
  MaxLines, \* how many lines a text may have
  MaxLength \* how many characters a line may have

VARIABLES text, row, col \* the lines; the cursor, before character col + 1

textVars == <<text, row, col>>

Line == text[row]
Cut(s) == SubSeq(s, 1, IF Len(s) < MaxLength THEN Len(s) ELSE MaxLength)

TextInit == text \in Texts /\ row = 1 /\ col = 0

(* A character goes in before the cursor; a full line loses its last one,  *)
(* but takes none behind it.                                               *)
Type ==
  /\ col < MaxLength /\ col' = col + 1 /\ row' = row
  /\ \E c \in Char : text' = [text EXCEPT ![row] = Cut(InsertAt(Line, col + 1, c))]

(* Backspace takes the character before the cursor away; at the beginning  *)
(* of a line it only goes to the end of the line above.                    *)
Erase ==
  \/ /\ col > 0 /\ col' = col - 1 /\ row' = row
     /\ text' = [text EXCEPT ![row] = RemoveAt(Line, col)]
  \/ /\ col = 0 /\ row > 1
     /\ row' = row - 1 /\ col' = Len(text[row - 1]) /\ text' = text

(* Enter goes to the line below, which is made when there is none.         *)
NewLine ==
  /\ row < MaxLines /\ row' = row + 1 /\ col' = 0
  /\ text' = IF row = Len(text) THEN Append(text, <<>>) ELSE text

(* The cursor goes to another line, or one to the left or the right, and   *)
(* never leaves the text.                                                  *)
Move ==
  /\ text' = text
  /\ \/ row' = row /\ col' \in {col - 1, col + 1} \cap 0 .. Len(Line)
     \/ /\ row' \in {row - 1, row + 1} \cap 1 .. Len(text)
        /\ col' = IF col <= Len(text[row']) THEN col ELSE Len(text[row'])

TextNext == Type \/ Erase \/ NewLine \/ Move

TextSpec == TextInit /\ [][TextNext]_textVars
=============================================================================
