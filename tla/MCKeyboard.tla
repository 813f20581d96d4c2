----------------------------- MODULE MCKeyboard -----------------------------
(***************************************************************************)
(* A buffer of three slots and a line of three bytes, so that both fill    *)
(* up, and one scan code for each case of the handler.                     *)
(***************************************************************************)
EXTENDS Keyboard

MCCodes == {30, 14, 28, 42, 42 + 128, 58}
=============================================================================
