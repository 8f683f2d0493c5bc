---------------------------- MODULE MCPdmManager ----------------------------
(* TLC instances of PdmManager: with and without the shell's CFAR stream. *)
EXTENDS PdmManager
=============================================================================
