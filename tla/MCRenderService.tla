---------------------------- MODULE MCRenderService ----------------------------
(* Three blocks, two of the same source in different formats. *)
EXTENDS RenderService

MCBlocks == {[kind |-> "math", format |-> "tex", source |-> "s1"],
             [kind |-> "math", format |-> "openmath", source |-> "s1"],
             [kind |-> "mermaid", format |-> "mermaid", source |-> "s2"]}
MCKeyWeight(key) == IF key.source = "s1" THEN 1 ELSE 2
=============================================================================
