------------------------------- MODULE Syslog -------------------------------
(***************************************************************************)
(* The kernel log (core/kernel.cpp): kernel_log() writes portions of text  *)
(* into the ring syslog_buffer, and the log viewer, open_syslogs()         *)
(* (core/shell.cpp), shows it in pages of kernel_render_logs().            *)
(*                                                                         *)
(* Writing and viewing are done by the one kernel thread; nothing is       *)
(* logged while the viewer is open, nor by an interrupt handler.  A        *)
(* portion is what vsprintf() hands to its consumer at a time.             *)
(***************************************************************************)
EXTENDS Screen

CONSTANTS
    SYSLOG_LENGTH,  \* the size of syslog_buffer
    Portions        \* the portions of text written

(* A tab fits on a page.                                                   *)
ASSUME SyslogAssumption == /\ SYSLOG_LENGTH \in Nat \ {0}
                           /\ Portions \subseteq Seq(Characters)
                           /\ TabSize <= Width * (Height - 1)

Places == 0 .. SYSLOG_LENGTH - 1
Unwritten == "unwritten"

VARIABLES
    buffer,     \* syslog_buffer
    writePtr,   \* syslog_writePtr
    isWrapped,  \* syslog_isWrapped
    viewing,    \* the kernel thread is in open_syslogs()
    pageIndex,  \* its page
    morePages,  \* what kernel_render_logs() returned for that page
    offset,     \* where in the flattened log that page began, and
    chunk,      \* how many characters of it were shown
    screen      \* the screen after that

logVars == <<buffer, writePtr, isWrapped>>
viewVars == <<viewing, pageIndex, morePages, offset, chunk, screen>>
vars == <<buffer, writePtr, isWrapped, viewing, pageIndex, morePages, offset, chunk, screen>>

Init == /\ buffer = [p \in Places |-> Unwritten]
        /\ writePtr = 0
        /\ isWrapped = FALSE
        /\ viewing = FALSE /\ pageIndex = 0 /\ morePages = FALSE
        /\ offset = 0 /\ chunk = 0
        /\ screen = Cleared

-----------------------------------------------------------------------------
(* kernel_log()                                                            *)

(* Only the end of a portion longer than the buffer is kept.               *)
Clamped(portion) ==
    IF Len(portion) > SYSLOG_LENGTH
    THEN SubSeq(portion, Len(portion) - SYSLOG_LENGTH + 1, Len(portion))
    ELSE portion

(* mem_copy() of text to the place p of the buffer                         *)
CopyTo(b, p, text) == [q \in Places |-> IF q - p + 1 \in DOMAIN text THEN text[q - p + 1] ELSE b[q]]

(* The consumer that kernel_log() passes to vsprintf().                    *)
KernelLog(portion) ==
    LET text == Clamped(portion)
        over == writePtr + Len(text) - SYSLOG_LENGTH
        excess == IF over > 0 THEN over ELSE 0
        firstPortionLength == Len(text) - excess
        once == CopyTo(buffer, writePtr, SubSeq(text, 1, firstPortionLength))
    IN  /\ ~ viewing
        /\ buffer' = CopyTo(once, 0, SubSeq(text, firstPortionLength + 1, Len(text)))
        /\ writePtr' = IF excess > 0 THEN excess ELSE writePtr + firstPortionLength
        /\ isWrapped' = (isWrapped \/ excess > 0)
        /\ UNCHANGED viewVars

Stretch(from, to) == [i \in 1 .. to - from |-> buffer[from + i - 1]]

MutFlattenLogs == Stretch(0, IF isWrapped THEN SYSLOG_LENGTH ELSE writePtr)

(* flatten_logs(), up to the terminating zero                              *)
FlattenLogs ==
    (IF isWrapped THEN Stretch(writePtr, SYSLOG_LENGTH) ELSE <<>>) \o Stretch(0, writePtr)

-----------------------------------------------------------------------------
(* The viewer.                                                             *)

MAX_SCREENSPACE == Width * (Height - 1)

(* A page of the log, as long as it fits from the top of the screen.       *)
PageLength(from) ==
    FitSubstring(SubSeq(FlattenLogs, from + 1, Len(FlattenLogs)), 0, MAX_SCREENSPACE)

MutPageStart(index) ==
    LET f[i \in 0 .. index] == IF i = 0 THEN 0 ELSE f[i - 1] + PageLength(0) IN f[index]

PageStarts(index) ==
    LET start[i \in 0 .. index] == IF i = 0 THEN 0 ELSE start[i - 1] + PageLength(start[i - 1]) IN start

PageStart(index) == PageStarts(index)[index]

(* kconsole::clear() and kernel_render_logs()                              *)

Render(index) ==
    LET from == PageStart(index)
        length == PageLength(from)
    IN  /\ offset' = from
        /\ chunk' = length
        /\ screen' = PrintText(Cleared, SubSeq(FlattenLogs, from + 1, from + length))
        /\ morePages' = (from + length < IF isWrapped THEN SYSLOG_LENGTH ELSE writePtr)

OpenSyslogs == /\ ~ viewing
               /\ viewing' = TRUE
               /\ pageIndex' = 0
               /\ Render(0)
               /\ UNCHANGED logVars

DownArrow == /\ viewing /\ morePages
             /\ pageIndex' = pageIndex + 1
             /\ Render(pageIndex + 1)
             /\ UNCHANGED <<logVars, viewing>>

UpArrow == /\ viewing /\ pageIndex > 0
           /\ pageIndex' = pageIndex - 1
           /\ Render(pageIndex - 1)
           /\ UNCHANGED <<logVars, viewing>>

(* The variables of a closed viewer are gone.                              *)
EscapeKey == /\ viewing
             /\ viewing' = FALSE /\ pageIndex' = 0 /\ morePages' = FALSE
             /\ offset' = 0 /\ chunk' = 0
             /\ screen' = Cleared
             /\ UNCHANGED logVars

Next == \/ \E portion \in Portions : KernelLog(portion)
        \/ OpenSyslogs \/ DownArrow \/ UpArrow \/ EscapeKey

Spec == Init /\ [][Next]_vars

-----------------------------------------------------------------------------
(* Properties                                                              *)

(* The flattened ring is the end of everything logged, in order, whatever  *)
(* the lengths written, also where a write ends at the end of the buffer,  *)
(* and viewing does not change it.                                         *)
KeepsTheTail == INSTANCE LogTail WITH SyslogLength <- SYSLOG_LENGTH, log <- FlattenLogs
IsLogTail == KeepsTheTail!LogSpec

(* Going a page down continues exactly where the page above ended, going   *)
(* up ends exactly where the page below began: no character is skipped or  *)
(* shown twice.                                                            *)
PagesAdjoin ==
    [][viewing /\ viewing' => \/ offset' = offset + chunk
                              \/ offset = offset' + chunk']_vars

(* The viewer stops exactly at the end of the log, and every page but an   *)
(* empty log's shows something, all of it: printing a page does not scroll *)
(* its first character away, although print() and calc_fit_substring()     *)
(* count the places of a line that fills its row differently.              *)
PagesAreWhole ==
    /\ viewing => /\ morePages <=> offset + chunk # Len(FlattenLogs)
                  /\ chunk = 0 => Len(FlattenLogs) = 0
    /\ screen.gone = 0
=============================================================================
