------------------------------- MODULE Screen -------------------------------
(***************************************************************************)
(* The text screen: kscreen (core/drivers/screen.cpp) and the printing     *)
(* functions of kconsole (core/console.cpp), as operators on a screen.     *)
(*                                                                         *)
(* A screen is VIDEO_MEMORY, row by row, and the cursor of                 *)
(* kscreen::outargs.  x may stand one past the last column: putc_core()    *)
(* goes to the next row only when the next character comes.  `gone` counts *)
(* the rows that update_scroll() has dropped; the code does not keep it.   *)
(* Colours and the hardware cursor are left out.                           *)
(***************************************************************************)
EXTENDS Integers, Sequences, SequencesExt

CONSTANTS
    Width, Height,  \* kscreen::WIDTH, kscreen::HEIGHT
    TabSize,        \* kconsole::TAB_SIZE
    Glyphs          \* the printable characters

ASSUME ScreenAssumption == /\ Width \in Nat \ {0} /\ Height \in Nat \ {0, 1}
                           /\ TabSize \in Nat \ {0}

(* Glyphs, and the control characters print() looks for.                   *)
Blank == " "
NewLine == "\n"
Tab == "\t"
Return == "\r"
Characters == Glyphs \cup {Blank, NewLine, Tab, Return}

Rows == 0 .. Height - 1
Columns == 0 .. Width - 1
BlankRow == [c \in Columns |-> Blank]

Screens(chars) == [cell : [Rows -> [Columns -> chars]], x : 0 .. Width, y : Rows, gone : Nat]

(* kscreen::clear()                                                        *)
Cleared == [cell |-> [r \in Rows |-> BlankRow], x |-> 0, y |-> 0, gone |-> 0]

UpdateScroll(s) ==
    IF s.y < Height THEN s
    ELSE [s EXCEPT !.cell = [r \in Rows |-> IF r = Height - 1 THEN BlankRow ELSE s.cell[r + 1]],
                   !.y = Height - 1,
                   !.gone = @ + 1]

(* putc_core() at the cursor of outargs                                    *)
PutcCore(s, ch) ==
    LET t == UpdateScroll(IF s.x >= Width THEN [s EXCEPT !.x = 0, !.y = @ + 1] ELSE s)
    IN  [t EXCEPT !.cell[t.y][t.x] = ch, !.x = @ + 1]

(* n blanks, one after the other                                           *)
Blanks(s, n) ==
    LET after[i \in 0 .. n] == IF i = 0 THEN s ELSE PutcCore(after[i - 1], Blank) IN after[n]

(* print() writes the runs between control characters with kscreen::print, *)
(* which is putc_core() on each character.                                 *)
PrintChar(s, ch) ==
    CASE ch = Return  -> s
      [] ch = NewLine -> UpdateScroll([s EXCEPT !.x = 0, !.y = @ + 1])
      [] ch = Tab     -> Blanks(s, TabSize)
      [] OTHER        -> PutcCore(s, ch)

(* The screens that printing text goes through, and the last of them.      *)
Printing(s, text) ==
    LET after[i \in 0 .. Len(text)] == IF i = 0 THEN s ELSE PrintChar(after[i - 1], text[i]) IN after

PrintText(s, text) == Printing(s, text)[Len(text)]

-----------------------------------------------------------------------------
(* The cursor as one number.  A cursor past the last column and a cursor   *)
(* at the start of the next row are the same place.                        *)
Place(s) == s.y * Width + s.x

(* calc_fit_substring(): the place after one more character.               *)
MutAdvance(p, ch) ==
    CASE ch = Return  -> p
      [] ch = NewLine -> p + Width - (p % Width)
      [] OTHER        -> p + 1

Advance(p, ch) ==
    CASE ch = Return  -> p
      [] ch = NewLine -> p + Width - (p % Width)
      [] ch = Tab     -> p + TabSize
      [] OTHER        -> p + 1

(* The places that the characters of text end at, from the place p on.     *)
PlacesAfter(text, p) ==
    LET after[i \in 0 .. Len(text)] == IF i = 0 THEN p ELSE Advance(after[i - 1], text[i]) IN after

(* The longest prefix of text that takes at most `limit` places from the   *)
(* place p on, and stays on the screen.                                    *)
FitSubstring(text, p, limit) ==
    LET left == Width * Height - p
        last == p + (IF limit > left THEN left ELSE limit)
        TooLong == {i \in 1 .. Len(text) : text[i] # Return /\ PlacesAfter(text, p)[i] > last}
    IN  IF TooLong = {} THEN Len(text) ELSE Min(TooLong) - 1
=============================================================================
