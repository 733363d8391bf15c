------------------------------ MODULE LogTail -------------------------------
(***************************************************************************)
(* What the kernel log promises: it keeps the last SyslogLength characters *)
(* of everything that was logged.                                          *)
(***************************************************************************)
EXTENDS Naturals, Sequences

CONSTANTS
    SyslogLength,   \* the characters kept
    Portions        \* what one write may hold

VARIABLE log

LastOf(text) == IF Len(text) <= SyslogLength THEN text
                ELSE SubSeq(text, Len(text) - SyslogLength + 1, Len(text))

LogInit == log = <<>>

Log == \E portion \in Portions : log' = LastOf(log \o portion)

LogSpec == LogInit /\ [][Log]_log
=============================================================================
