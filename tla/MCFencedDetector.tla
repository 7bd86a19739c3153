--------------------------- MODULE MCFencedDetector ---------------------------
(* FencedDetector with the display-math opener in both line endings and one  *)
(* backtick fence, on text cut inside openers, fences and line endings.      *)
EXTENDS FencedDetector

MCOpeners ==
  {[pattern |-> <<"dollar", "dollar", "lf">>, closing |-> <<"dollar", "dollar">>],
   [pattern |-> <<"dollar", "dollar", "cr", "lf">>, closing |-> <<"dollar", "dollar">>],
   [pattern |-> <<"fence", "name", "lf">>, closing |-> <<"fence">>],
   [pattern |-> <<"fence", "name", "cr", "lf">>, closing |-> <<"fence">>]}

MCByte == {"dollar", "fence", "name", "cr", "lf"}

MCChunks == {<<"dollar">>, <<"dollar", "dollar">>, <<"dollar", "dollar", "lf">>, <<"fence">>, <<"name">>,
             <<"lf">>, <<"cr", "lf">>, <<"cr">>}
=============================================================================
