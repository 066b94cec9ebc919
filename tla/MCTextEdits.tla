---------------------------- MODULE MCTextEdits ----------------------------
(* An instance of TextEdits for TLC: all texts of up to three characters.     *)
EXTENDS TextEdits

CONSTANTS letters, new

MCTexts ==
    {[n \in 1 .. len |-> IF n \in breaks THEN Newline ELSE <<letters, n>>] :
        len \in 0 .. 3, breaks \in SUBSET (1 .. 3)}

MCNewTexts == {<<>>, <<new>>, <<new, Newline>>}
=============================================================================
