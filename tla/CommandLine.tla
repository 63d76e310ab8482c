---------------------------- MODULE CommandLine ----------------------------
(***************************************************************************)
(* What the line editor of the shell promises the person typing: a line of *)
(* text with a cursor, edited one key at a time, that ends as a submitted  *)
(* line, an interrupt or an end of input.  No byte array, no terminator    *)
(* and no stale bytes: those are the business of ShellEditor, which        *)
(* implements this specification.                                          *)
(***************************************************************************)
EXTENDS Naturals, Sequences, SequencesExt

CONSTANTS
  Chars,    (* the characters that can be typed into a line              *)
  MaxLen    (* the longest line the editor accepts                       *)

VARIABLES
  line,     (* the text typed so far                                     *)
  cursor,   (* how many characters are left of the cursor                *)
  result    (* "reading", or how the read ended                          *)

vars == <<line, cursor, result>>

Init ==
  /\ line = <<>>
  /\ cursor = 0
  /\ result = "reading"

Edit(newLine, newCursor) ==
  /\ result = "reading"
  /\ line' = newLine
  /\ cursor' = newCursor
  /\ UNCHANGED result

Insert(c) ==
  /\ Len(line) < MaxLen
  /\ Edit(InsertAt(line, cursor + 1, c), cursor + 1)

Backspace ==
  /\ cursor > 0
  /\ Edit(RemoveAt(line, cursor), cursor - 1)

Delete ==
  /\ cursor < Len(line)
  /\ Edit(RemoveAt(line, cursor + 1), cursor)

Kill == Edit(SubSeq(line, 1, cursor), cursor)

Move == \E k \in 0 .. Len(line) : Edit(line, k)

\* A recalled command replaces the whole line; which one is CommandHistory's
\* business.
Recall ==
  /\ line' \in Seq(Chars) \ {<<>>}
  /\ Len(line') <= MaxLen
  /\ Edit(line', Len(line'))

Finish ==
  /\ result = "reading"
  /\ \/ /\ result' = "line"
        /\ UNCHANGED <<line, cursor>>
     \/ /\ result' \in {"interrupt", "eof"}
        /\ line' = <<>>
        /\ cursor' = 0

\* The caller asks for the next line: it starts empty, whatever came before.
NextLine ==
  /\ result # "reading"
  /\ line' = <<>>
  /\ cursor' = 0
  /\ result' = "reading"

Next ==
  \/ \E c \in Chars : Insert(c)
  \/ Backspace \/ Delete \/ Kill \/ Move \/ Recall
  \/ Finish \/ NextLine

Spec == Init /\ [][Next]_vars
=============================================================================
