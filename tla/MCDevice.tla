------------------------------- MODULE MCDevice -------------------------------
(* TLC instance of Device: commands are tried twice, two measurements alternate, *)
(* there is one threshold besides the default, and one reboot.  What shares no   *)
(* state is not explored together.                                               *)
EXTENDS Device

Combinations == {{"sensor", "ac scd"}, {"sensor", "controllers", "reboot"},
                 {"controllers", "verifier", "reboot"},
                 {"frames", "ac threshold", "reboot"}}
===============================================================================
