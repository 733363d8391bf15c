----------------------------- MODULE MCKeyboard -----------------------------
(***************************************************************************)
(* Model checking of Keyboard.  Every caller in the kernel leaves          *)
(* discardQueue at its default, true.                                      *)
(***************************************************************************)
EXTENDS Keyboard

MCDiscards == {TRUE}
=============================================================================
