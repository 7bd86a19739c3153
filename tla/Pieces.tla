-------------------------------- MODULE Pieces --------------------------------
(* Pieces of text: records whose bytes are the source they stand for. *)
EXTENDS Naturals, Sequences

\* The source text a sequence of pieces stands for.
TextOf(pieces) ==
  LET text[i \in 0..Len(pieces)] ==
        IF i = 0 THEN <<>> ELSE text[i - 1] \o pieces[i].bytes
  IN text[Len(pieces)]
=============================================================================
