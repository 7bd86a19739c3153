---------------------------- MODULE MCRenderAttempt ----------------------------
(* RenderAttempt with room for two units of output: a process may stay within *)
(* it, fill it exactly, or exceed it by one or two.                           *)
EXTENDS RenderAttempt
=============================================================================
