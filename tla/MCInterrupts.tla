---------------------------- MODULE MCInterrupts ----------------------------
(***************************************************************************)
(* Model checking of Interrupts: the timer and the keyboard, which have    *)
(* the kernel's two handlers, the lines shared with spurious interrupts    *)
(* and the slave's most important line.                                    *)
(***************************************************************************)
EXTENDS Interrupts

MCLines == {0, 1, 7, 8, 15}
MCHandlers == {32, 33}
=============================================================================
