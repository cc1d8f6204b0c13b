----------------------------- MODULE MCConsole -----------------------------
(* Small screens for TLC. *)
EXTENDS Console
=============================================================================
