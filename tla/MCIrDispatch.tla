---------------------------- MODULE MCIrDispatch ----------------------------
(***************************************************************************)
(* TLC instance of IrDispatch: the chip stack and the shell as producers,  *)
(* two different frames of two parts each.                                 *)
(***************************************************************************)
EXTENDS IrDispatch
=============================================================================
