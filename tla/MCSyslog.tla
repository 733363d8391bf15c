------------------------------ MODULE MCSyslog ------------------------------
(***************************************************************************)
(* Model checking of Syslog: a log of 6 characters shown on a screen of 2  *)
(* by 3 cells, written in portions shorter than, as long as and longer     *)
(* than the log.                                                           *)
(***************************************************************************)
EXTENDS Syslog

MCGlyphs == {"a", "b"}
MCPortions == {<<>>, <<"a">>, <<"b">>, <<NewLine>>, <<"a", "b">>, <<"b", NewLine>>, <<Tab, "a">>,
               <<"a", "b", NewLine, "a", "b", Tab>>,
               <<NewLine, "a", "b", "b", "a", NewLine, "a", "b">>}
=============================================================================
