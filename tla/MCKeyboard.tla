----------------------------- MODULE MCKeyboard -----------------------------
(* Small instances of Keyboard for TLC. *)
EXTENDS Keyboard

MCTickLeaves == -9
=============================================================================
