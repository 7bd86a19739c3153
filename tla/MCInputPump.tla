------------------------------ MODULE MCInputPump ------------------------------
(* InputPump on reads that cut the scalar at every byte, repeat its first     *)
(* byte, and hold a whole scalar between other keys.                          *)
EXTENDS InputPump

MCChunks == {<<"f4">>, <<"8f">>, <<"bf", "bd">>, <<"bf">>, <<"bd", "esc">>, <<"esc">>,
             <<"f4", "f4", "8f">>, <<"esc", "f4", "8f", "bf", "bd", "f4">>}
=============================================================================
