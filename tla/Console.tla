------------------------------ MODULE Console -------------------------------
(***************************************************************************)
(* kconsole (core/console.cpp): printing at the console's own cursor, and  *)
(* read_string(), the line editor behind every prompt.                     *)
(*                                                                         *)
(* There are two cursors: kconsole::cursor, and the one in                 *)
(* kscreen::outargs (x and y of `video`).  The menu, the dumper and the    *)
(* debugger write with kscreen where they like and move both; the          *)
(* paginator and dir do so within a row.  A key is what kps2::read_ascii() *)
(* returned (module Keyboard).                                             *)
(***************************************************************************)
EXTENDS Screen

CONSTANTS
    InputMaxChars,  \* INPUT_MAXCHARS
    Texts,          \* what the kernel prints, sequences of characters
    MoreText,       \* the paginator's prompt
    SizeColumn,     \* where dir puts the size of a file: 45
    SizeTexts,      \* the sizes it prints
    Spots,          \* where programs begin to write
    MaxGone         \* bound on the rows scrolled away

Backspace == "bs"
Escape == "esc"
Nul == "nul"

Keys == Glyphs \cup {Tab, NewLine, Backspace, Escape, Nul}

(* A line of input never fills the screen, so its start stays visible.     *)
ASSUME ConsoleAssumption == /\ InputMaxChars \in Nat /\ MaxGone \in Nat
                            /\ InputMaxChars * TabSize <= Width * (Height - 1)
                            /\ Glyphs \cap {NewLine, Return, Tab} = {} /\ Texts \subseteq Seq(Characters)

(* The prompt and the sizes fit in the row they are written to.            *)
ASSUME RowAssumption == /\ MoreText \in Seq(Glyphs) /\ Len(MoreText) <= Width
                        /\ SizeColumn \in Nat /\ SizeTexts \subseteq Seq(Glyphs)
                        /\ \A text \in SizeTexts : SizeColumn + Len(text) <= Width
                        /\ Spots \subseteq [x : 0 .. Width, y : Rows]

VARIABLES
    video,      \* VIDEO_MEMORY and kscreen::outargs
    cursor,     \* kconsole::cursor
    reading,    \* the kernel thread is in read_string()
    input,      \* input_buffer[0 .. i-1]
    start,      \* the place where the input began, rows scrolled away counted
    writer      \* console, program or pager: who has written since it was in order

consoleVars == <<video, cursor, reading, input, start, writer>>

ConsoleInit ==
    /\ video = Cleared /\ cursor = [x |-> 0, y |-> 0]
    /\ reading = FALSE /\ input = <<>> /\ start = 0 /\ writer = "console"

(* update_scursor()                                                        *)
UpdateScursor(s, c) == [s EXCEPT !.x = c.x, !.y = c.y]

(* sync_scursor_coords()                                                   *)
SyncScursor(s) == /\ video' = s
                  /\ cursor' = [x |-> s.x, y |-> s.y]

PlaceInAll(s) == s.gone * Width + Place(s)

Wiped == [Cleared EXCEPT !.gone = video.gone]

(* The kernel thread is neither in read_string() nor waiting at the        *)
(* paginator's prompt.                                                     *)
MayPrint == ~ reading /\ writer # "pager" /\ video.gone < MaxGone

(* kconsole::clear()                                                       *)
Clear == /\ ~ reading /\ writer # "pager"
         /\ SyncScursor(Wiped)
         /\ writer' = "console"
         /\ UNCHANGED <<reading, input, start>>

(* kconsole::print()                                                       *)
PrintAt(text) == SyncScursor(PrintText(UpdateScursor(video, cursor), text))

WriteString(text) == /\ MayPrint
                     /\ PrintAt(text)
                     /\ UNCHANGED <<reading, input, start, writer>>

(* A file in the output of dir: its name, its size in a column of its own, *)
(* also when the name has already passed it, and the end of the line.      *)
ListFile(name, size) ==
    LET named == PrintText(UpdateScursor(video, cursor), name)
        sized == PrintText([named EXCEPT !.x = SizeColumn], size)
    IN  /\ MayPrint /\ writer = "console"
        /\ SyncScursor(PrintChar(sized, NewLine))
        /\ UNCHANGED <<reading, input, start, writer>>

(* A program moves the cursor of outargs, writes there or (print(x, y))    *)
(* elsewhere, wipes the screen without the console, or moves the console's *)
(* cursor to that of outargs (sync_scursor_coords()).                      *)
RenderDirectly ==
    /\ MayPrint
    /\ \/ /\ \/ \E spot \in Spots : video' = UpdateScursor(video, spot)
             \/ \E ch \in Glyphs : video' = PutcCore(video, ch)
             \/ \E spot \in Spots, ch \in Glyphs :
                    video' = UpdateScursor(PutcCore(UpdateScursor(video, spot), ch), video)
          /\ UNCHANGED cursor
       \/ video' = Wiped /\ UNCHANGED cursor
       \/ SyncScursor(video)
    /\ writer' = "program"
    /\ UNCHANGED <<reading, input, start>>

(* The prompt of Paginator::iterate(), which comes at the start of a row,  *)
(* and the blanks over it once a key came.                                 *)
AskForMore ==
    /\ MayPrint /\ writer = "console"
    /\ cursor.x = 0 /\ UpdateScursor(video, cursor) = video
    /\ video' = PrintText(video, MoreText)
    /\ writer' = "pager"
    /\ UNCHANGED <<cursor, reading, input, start>>

GoOn ==
    /\ writer = "pager"
    /\ video' = Blanks([video EXCEPT !.x = 0], Len(MoreText))
    /\ writer' = "console"
    /\ UNCHANGED <<cursor, reading, input, start>>

(* Every program ends with clear(), so the console reads only in order.    *)
BeginRead == /\ MayPrint /\ writer = "console"
             /\ video' = UpdateScursor(video, cursor)
             /\ reading' = TRUE
             /\ input' = <<>>
             /\ start' = PlaceInAll(video')
             /\ UNCHANGED <<cursor, writer>>

(* scursor_step_back()                                                     *)
MutStepBack(s) == IF s.x = 0 THEN s ELSE [s EXCEPT !.x = @ - 1]

StepBack(s) == IF s.x = 0 THEN [s EXCEPT !.x = Width - 1, !.y = @ - 1]
               ELSE [s EXCEPT !.x = @ - 1]

StepsBack(s, n) ==
    LET after[i \in 0 .. n] == IF i = 0 THEN s ELSE StepBack(after[i - 1]) IN after[n]

(* Erasing a character: the cells of a tab are blank already.              *)
Erase(s, ch) ==
    IF ch = Tab THEN StepsBack(s, TabSize)
    ELSE StepBack(PutcCore(StepBack(s), Blank))

EraseKey == IF Len(input) = 0 THEN UNCHANGED <<video, cursor, input>>
            ELSE /\ SyncScursor(Erase(video, Last(input)))
                 /\ input' = SubSeq(input, 1, Len(input) - 1)

(* One key that does not end the input.                                    *)

Key(key) ==
    /\ reading
    /\ \/ key = Nul /\ UNCHANGED <<video, cursor, input>>
       \/ key = Backspace /\ EraseKey
       \/ /\ key \in Glyphs \cup {Tab, Escape}
          /\ IF Len(input) >= InputMaxChars THEN UNCHANGED <<video, cursor, input>>
             ELSE PrintAt(<<key>>) /\ input' = Append(input, key)
    /\ UNCHANGED <<reading, start, writer>>

EnterKey == /\ reading
            /\ PrintAt(<<NewLine>>)
            /\ reading' = FALSE
            /\ UNCHANGED <<input, start, writer>>

ConsoleNext ==
    \/ Clear
    \/ \E text \in Texts : WriteString(text)
    \/ \E name \in Texts, size \in SizeTexts : ListFile(name, size)
    \/ RenderDirectly \/ AskForMore \/ GoOn
    \/ BeginRead
    \/ \E key \in Keys : Key(key)
    \/ EnterKey

ConsoleSpec == ConsoleInit /\ [][ConsoleNext]_consoleVars

-----------------------------------------------------------------------------
(* Properties                                                              *)

(* What the input takes on the screen.                                     *)
Cells(ch) == IF ch = Tab THEN [i \in 1 .. TabSize |-> Blank] ELSE <<ch>>
Shown == FlattenSeq([i \in DOMAIN input |-> Cells(input[i])])

CellAt(p) == video.cell[p \div Width][p % Width]

(* However keys and backspaces alternate, over row ends, tabs and scrolls, *)
(* the screen shows the buffer: the cells from where the input began up to *)
(* the cursor spell what read_string() would return.  And unless a program *)
(* or the paginator has the screen, nothing stands behind the console's    *)
(* cursor: what programs drew and moved, the paginator's prompt, a size    *)
(* put over a long name, an erased character leave no trace.               *)
EchoIsInput ==
    /\ reading => LET first == start - video.gone * Width
                  IN  /\ first >= 0
                      /\ Place(video) = first + Len(Shown)
                      /\ \A i \in 1 .. Len(Shown) : CellAt(first + i - 1) = Shown[i]
    /\ writer = "console" =>
           \A p \in 0 .. Width * Height - 1 : p >= cursor.y * Width + cursor.x => CellAt(p) = Blank
=============================================================================
