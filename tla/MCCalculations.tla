--------------------------- MODULE MCCalculations ---------------------------
(* TLC instance of Calculations: every state the callers can ask for, every    *)
(* 16-bit word, and hashes around each forbidden passcode and the modulus.    *)
EXTENDS Calculations

CallerTemps == 16 .. 30
AllWords == 0 .. 65535
SampledPairs == {<<0, 0>>, <<190, 239>>, <<102, 110>>, <<255, 255>>}
NearForbidden ==
    UNION {{f + d : d \in {-3, -2, -1, 0}} : f \in Forbidden \ {0}}
    \cup {0, 1, 99999996, 99999997, 99999998, 199999995, 2147483647}
=============================================================================
