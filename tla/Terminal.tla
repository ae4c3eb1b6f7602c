------------------------------ MODULE Terminal ------------------------------
(***************************************************************************)
(* What the screen promises: a page of rows with a cursor on it.  Text     *)
(* that goes beyond the last row moves the page up by one row.             *)
(***************************************************************************)
EXTENDS Naturals, Sequences, SequencesExt

CONSTANTS Char, ROWS, COLS

VARIABLES page, row, col

Blank == [c \in 1 .. COLS |-> " "]

t == [page |-> page, row |-> row, col |-> col]

NewLine(x) ==
  IF x.row < ROWS THEN [x EXCEPT !.row = @ + 1, !.col = 1]
  ELSE [page |-> Append(Tail(x.page), Blank), row |-> ROWS, col |-> 1]

Put(x, c) ==
  LET y == [x EXCEPT !.page[x.row][x.col] = c]
  IN  IF x.col < COLS THEN [y EXCEPT !.col = @ + 1] ELSE NewLine(y)

Back(x) ==
  IF x.row = 1 /\ x.col = 1 THEN x
  ELSE LET y == IF x.col > 1 THEN [x EXCEPT !.col = @ - 1]
                ELSE [x EXCEPT !.row = @ - 1, !.col = COLS]
       IN  [y EXCEPT !.page[y.row][y.col] = " "]

Write(c) ==
  LET x == CASE c = "\n" -> NewLine(t)
             [] c = "\r" -> [t EXCEPT !.col = 1]
             [] c = "BS" -> Back(t)
             [] c = "\t" -> FoldLeft(Put, t, <<" ", " ", " ", " ", " ">>)
             [] OTHER    -> Put(t, c)
  IN  page' = x.page /\ row' = x.row /\ col' = x.col

Init == /\ page \in [1 .. ROWS -> [1 .. COLS -> Char]]
        /\ row \in 1 .. ROWS /\ col \in 1 .. COLS

vars == <<page, row, col>>

\* Steps that change nothing are allowed anyway.
Next == vars' # vars /\ \E c \in Char : Write(c)

Spec == Init /\ [][Next]_vars
=============================================================================
