---------------------------- MODULE Conversions ----------------------------
(***************************************************************************)
(* The arithmetic between the outside and the attributes: what the sensor  *)
(* sends, checked and converted (scd40_manager.cpp), and the passcode that *)
(* is derived from a hash of the chip's identity (hw_pairing.cpp).         *)
(***************************************************************************)
EXTENDS Integers, Sequences

-----------------------------------------------------------------------------
(* sensirion_crc, with bytes as functions from their 8 bits *)

BitsOf(byte) == [i \in 0 .. 7 |-> (byte \div 2 ^ i) % 2]

Xor(a, b) == [i \in 0 .. 7 |-> (a[i] + b[i]) % 2]

\* Mutant of Shift: the polynomial is forgotten.
ShiftOnly(crc) == [i \in 0 .. 7 |-> IF i = 0 THEN 0 ELSE crc[i - 1]]

\* One of the eight rounds per byte: polynomial 0x31.
Shift(crc) ==
    LET shifted == [i \in 0 .. 7 |-> IF i = 0 THEN 0 ELSE crc[i - 1]]
    IN  IF crc[7] = 1 THEN Xor(shifted, BitsOf(49)) ELSE shifted

SensirionCrc(bytes) ==
    LET round[n \in 0 .. 8 * Len(bytes)] ==
            IF n = 0 THEN BitsOf(255)
            ELSE Shift(IF n % 8 = 1 THEN Xor(round[n - 1], bytes[(n + 7) \div 8])
                       ELSE round[n - 1])
    IN  round[8 * Len(bytes)]

\* A word of the sensor comes as two bytes and their checksum.
WordAccepted(word) == SensirionCrc(<<word[1], word[2]>>) = word[3]

-----------------------------------------------------------------------------
(* scd40_read_measurement and co2_to_air_quality *)

\* Hundredths of a degree, and of a percent of humidity.
Temperature(raw) == -4500 + ((17500 * raw) \div 65535)

\* Mutant of Humidity: a shift by 16 in place of the division.
HumidityShifted(raw) == (10000 * raw) \div 65536

Humidity(raw) == (10000 * raw) \div 65535

AirQuality(ppm) ==
    CASE ppm < 400 -> "Good"
      [] ppm \in 400 .. 599 -> "Fair"
      [] ppm \in 600 .. 999 -> "Moderate"
      [] ppm \in 1000 .. 1499 -> "Poor"
      [] ppm \in 1500 .. 1999 -> "VeryPoor"
      [] OTHER -> "ExtremelyPoor"

-----------------------------------------------------------------------------
(* make_passcode *)

Forbidden == {0, 11111111, 22222222, 33333333, 44444444, 55555555, 66666666,
              77777777, 88888888, 99999999, 12345678, 87654321}

\* Mutant of Bumped: the code itself is checked, not replaced.
BumpedNot(code) == code

Bumped(code) == IF code \in Forbidden THEN (code % 99999998) + 1 ELSE code

MakePasscode(h) == Bumped((h % 99999998) + 1)
=============================================================================
