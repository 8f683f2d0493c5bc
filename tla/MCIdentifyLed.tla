--------------------------- MODULE MCIdentifyLed ---------------------------
(* TLC instance of IdentifyLed: the endpoints that share the LED. *)
EXTENDS IdentifyLed
=============================================================================
