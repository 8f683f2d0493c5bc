----------------------------- MODULE IrProtocol -----------------------------
(***************************************************************************)
(* The frame of the Hitachi protocol (ir_protocol.cpp): how an AC state    *)
(* becomes 25 bytes, 53 bytes and 427 pulses, and what the AC unit can     *)
(* read back from them.  The frame is the whole state of the conversation: *)
(* a frame that read as another state would go unnoticed.                  *)
(***************************************************************************)
EXTENDS Naturals, Sequences, FiniteSets

CONSTANT Temps        \* temperatures that are encoded, 16..30 in the callers

ASSUME TempAssumption == Temps \subseteq 0 .. 63

IR_MAX_PULSES == 430

AcModes   == [VENTILATION |-> 1, COOLING |-> 3, DEHUMIDIFY |-> 5, HEATING |-> 6]
FanSpeeds == [SPEED_1 |-> 1, SPEED_2 |-> 2, SPEED_3 |-> 3, SPEED_4 |-> 4, AUTO |-> 5,
              SPEED_5 |-> 6]

AcStates == [power : BOOLEAN, mode : DOMAIN AcModes, temp : Temps, fan : DOMAIN FanSpeeds]

Wakeup == [mark |-> 30000, space |-> 49500]
Header == [mark |-> 3380, space |-> 1700]
One    == [mark |-> 384, space |-> 1234]
Zero   == [mark |-> 384, space |-> 399]
Trail  == [mark |-> 384, space |-> 0]

-----------------------------------------------------------------------------
(* encode_raw *)

ModeNibble(s) == AcModes[IF s.power THEN s.mode ELSE "HEATING"]

PowerFlags(s) == CASE ~s.power                                  -> 225
                   [] s.power /\ s.mode \in {"HEATING", "COOLING"} -> 241
                   [] OTHER                                     -> 240

\* Mutant of EncodeRaw: the fan speed takes the place of the mode.
EncodeRawSwapped(s) == [i \in 0 .. 24 |->
    CASE i = 5  -> (s.temp * 4) % 256
      [] i = 11 -> ModeNibble(s) * 16 + FanSpeeds[s.fan]
      [] i = 12 -> PowerFlags(s)
      [] OTHER  -> 0]

EncodeRaw(s) == [i \in 0 .. 24 |->
    CASE i = 0  -> 64
      [] i \in {1, 21, 22, 23, 24} -> 255
      [] i = 2  -> 204
      [] i = 3  -> 146
      [] i = 4  -> 19
      [] i = 5  -> (s.temp * 4) % 256
      [] i = 11 -> FanSpeeds[s.fan] * 16 + ModeNibble(s)
      [] i = 12 -> PowerFlags(s)
      [] i = 15 -> 128
      [] i = 16 -> 3
      [] i = 17 -> 1
      [] i = 18 -> 136
      [] OTHER  -> 0]

-----------------------------------------------------------------------------
(* encode_command and ac_encode_pulses *)

Preamble == <<1, 16, 0>>

\* Mutant of EncodeCommand: every byte is repeated instead of complemented.
EncodeCommandRepeated(s) == [k \in 0 .. 52 |->
    IF k < 3 THEN Preamble[k + 1] ELSE EncodeRaw(s)[(k - 3) \div 2]]

EncodeCommand(s) == [k \in 0 .. 52 |->
    IF k < 3 THEN Preamble[k + 1]
    ELSE LET byte == EncodeRaw(s)[(k - 3) \div 2]
         IN  IF k % 2 = 1 THEN byte ELSE 255 - byte]

Bit(byte, n) == (byte \div 2 ^ n) % 2

\* Bits are sent with the least significant first.
AcEncodePulses(s) ==
    LET command == EncodeCommand(s)
        DataBit(i) == IF Bit(command[i \div 8], i % 8) = 1 THEN One ELSE Zero
    IN  [i \in 1 .. 427 |-> CASE i = 1          -> Wakeup
                              [] i = 2          -> Header
                              [] i \in 3 .. 426 -> DataBit(i - 3)
                              [] i = 427        -> Trail]

-----------------------------------------------------------------------------
(* What the AC unit makes of a frame: the reference the encoder is held to *)

Received(pulses, k) ==
    LET Value(n) == IF pulses[8 * k + n + 3].space > 800 THEN 2 ^ n ELSE 0
    IN  Value(0) + Value(1) + Value(2) + Value(3)
        + Value(4) + Value(5) + Value(6) + Value(7)

\* Byte i of the 25, which comes with its complement.
Field(pulses, i) == Received(pulses, 2 * i + 3)

Accepted(pulses) ==
    /\ <<Received(pulses, 0), Received(pulses, 1), Received(pulses, 2)>> = <<1, 16, 0>>
    /\ \A i \in 0 .. 24 : Field(pulses, i) + Received(pulses, 2 * i + 4) = 255
=============================================================================
