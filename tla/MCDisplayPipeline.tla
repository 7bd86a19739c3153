--------------------------- MODULE MCDisplayPipeline ---------------------------
(* DisplayPipeline with one delimiter, on reads that cut openers, fences,    *)
(* line endings and controls, and on one read that holds two whole blocks.   *)
EXTENDS DisplayPipeline

MCOpeners ==
  {[pattern |-> <<"dollar", "lf">>, closing |-> <<"dollar">>],
   [pattern |-> <<"dollar", "cr", "lf">>, closing |-> <<"dollar">>]}

MCChunks == {<<"dollar">>, <<"h">>, <<"lf">>, <<"cr">>, <<"esc">>, <<"bsl", "lf">>,
             <<"esc", "lbr", "q", "alt">>, <<"esc", "lbr", "q", "alt", "l">>,
             <<"dollar", "lf", "dollar", "lf", "dollar", "lf", "dollar", "lf", "let">>}
=============================================================================
