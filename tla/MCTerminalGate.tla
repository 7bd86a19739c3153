---------------------------- MODULE MCTerminalGate ----------------------------
(* TerminalGate on chunks that open, close, nest, cut and overflow controls. *)
EXTENDS TerminalGate

MCChunks == {<<"let">>, <<"lf", "let">>, <<"lf">>, <<"cr">>, <<"bel">>, <<"bsl">>,
             <<"esc">>, <<"esc", "rbr">>, <<"esc", "dcs">>,
             <<"esc", "lbr", "q">>, <<"alt", "l">>, <<"esc", "lbr", "semi", "q", "alt">>,
             <<"esc", "lbr", "q", "alt", "h">>}
=============================================================================
