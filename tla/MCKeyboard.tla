----------------------------- MODULE MCKeyboard -----------------------------
(* TLC instance of Keyboard: a letter, a shift and a lock key.  The device *)
(* holds more events than the ring, so both can overflow.                  *)
EXTENDS Keyboard
=============================================================================
