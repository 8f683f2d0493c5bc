--------------------------- MODULE MCZclCallbacks ---------------------------
(***************************************************************************)
(* TLC instances of ZclCallbacks.  Modes Auto (the default, mapped to      *)
(* cooling at a fixed temperature), Cool and Heat use all three sources of *)
(* the setpoint.  2450 truncates to the fixed 24 degrees, and 700 and      *)
(* 3200, the limits of the setpoints, lie outside what the AC understands. *)
(***************************************************************************)
EXTENDS ZclCallbacks

ZapDefaults == [onOff |-> FALSE, mode |-> 1, cool |-> 2600, heat |-> 2000, fan |-> 0]
=============================================================================
