------------------------------- MODULE MCServer -------------------------------
(* Server for TLC: a few clients that come, talk and leave. *)
EXTENDS Server
=============================================================================
