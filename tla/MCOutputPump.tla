----------------------------- MODULE MCOutputPump -----------------------------
(* OutputPump on a queue of two chunks: enough chunks to fill it, the hands   *)
(* of both threads, and one more.                                             *)
EXTENDS OutputPump
=============================================================================
