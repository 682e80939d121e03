----------------------------- MODULE CGAScreen -----------------------------
(***************************************************************************)
(* CGAScreen: the text screen of the PC.  The cursor is a number of a      *)
(* cell, which the controller keeps.                                       *)
(***************************************************************************)
EXTENDS Integers, Sequences, SequencesExt

CONSTANTS cRows, cColumns  \* cColumns is a multiple of 4.

Cell == 0 .. cRows * cColumns - 1

NUL == ""
BS == "BS"

EmptyScreen == [cells |-> [c \in Cell |-> NUL], pos |-> 0]

\* Line cRows, below the last one, is accepted as well.
Outside(x, y) == x < 0 \/ x >= cColumns \/ y < 0 \/ y > cRows

setPosition(s, x, y) == IF Outside(x, y) THEN s ELSE [s EXCEPT !.pos = y * cColumns + x]

getPosition(s) == [x |-> s.pos % cColumns, y |-> s.pos \div cColumns]

\* The last line is blanked eight bytes at a time with a value of four: two
\* cells get a space and the next two are zero.
scrollup(cells) ==
    [c \in Cell |-> IF c + cColumns \in Cell THEN cells[c + cColumns]
                    ELSE IF (c % 4) \in {0, 1} THEN " " ELSE NUL]

\* One character, at the column x and the line y that print keeps, and the
\* cell at which it writes.
PrintCharacter(p, char) ==
    LET end   == p.x + 1 >= cColumns
        moved == CASE char = "\n" -> [p EXCEPT !.x = 0, !.y = @ + 1, !.at = (p.y + 1) * cColumns]
                   [] char = BS -> [p EXCEPT !.x = IF @ > 0 THEN @ - 1 ELSE @]
                   [] OTHER       -> [p EXCEPT !.cells[p.at] = char, !.at = @ + 1,
                                               !.x = IF end THEN 0 ELSE @ + 1,
                                               !.y = IF end THEN @ + 1 ELSE @]
    IN  IF moved.y >= cRows
        THEN [moved EXCEPT !.cells = scrollup(@), !.y = @ - 1,
                           !.at = (moved.y - 1) * cColumns + moved.x]
        ELSE moved

print(s, string) ==
    LET from == getPosition(s)
        p    == FoldLeft(PrintCharacter,
                         [cells |-> s.cells, x |-> from.x, y |-> from.y, at |-> s.pos], string)
    IN  setPosition([s EXCEPT !.cells = p.cells], p.x, p.y)
=============================================================================
