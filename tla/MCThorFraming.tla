---------------------------- MODULE MCThorFraming -----------------------------
(* Commands of no, one, two and three symbols, one with a line break inside. *)
EXTENDS ThorFraming

MCLetters == {"x", "y", "nl"}
MCBodies == {<<>>, <<"x">>, <<"x", "y">>, <<"x", "nl", "y">>}

===============================================================================
