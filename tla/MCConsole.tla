----------------------------- MODULE MCConsole ------------------------------
(***************************************************************************)
(* Model checking of Console on a screen of 3 by 3 cells.                  *)
(***************************************************************************)
EXTENDS Console

MCGlyphs == {"a"}
MCTexts == {<<"a", "a">>, <<"a", NewLine, Tab, "a">>,
            <<"a", "a", "a", NewLine>>, <<Return, NewLine, NewLine, "a">>}
MCMoreText == <<"a", "a">>
MCSizeTexts == {<<"a">>, <<"a", "a">>}
MCSpots == {[x |-> 1, y |-> 2]}
=============================================================================
