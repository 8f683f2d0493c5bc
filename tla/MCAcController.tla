--------------------------- MODULE MCAcController ---------------------------
(* TLC instance of AcController: three states and the off frame, three       *)
(* attempts, an AC that gets out of reach and back.                          *)
EXTENDS AcController
=============================================================================
