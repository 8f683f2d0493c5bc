---------------------------- MODULE Calculations ----------------------------
(***************************************************************************)
(* The device's pure functions, each applied to its inputs and held to     *)
(* what its result is for: frames must read back as the state they encode, *)
(* measurements must be those the sensor sent, passcodes must be legal.    *)
(***************************************************************************)
EXTENDS IrProtocol, Conversions

CONSTANTS RawWords,    \* 16-bit words of the sensor that are converted
          SentWords,   \* words, as pairs of bytes, that are sent with a checksum
          Hashes       \* hashes of the chip's identity

ASSUME CalculationsAssumption ==
    /\ \A raw \in RawWords : raw \in Nat /\ raw <= 65535
    /\ SentWords \subseteq (0 .. 255) \X (0 .. 255)
    /\ \A hash \in Hashes : hash \in Nat

VARIABLES input,   \* a record with the kind of input and the input
          output   \* what the function made of it

vars == <<input, output>>

Nothing == [kind |-> "nothing"]

\* Two of the 24 bits of a word that are flipped on the bus, or one, or none.
Flips == {{}} \cup {{i, j} : i, j \in 0 .. 23}

Inputs == [kind : {"state"}, state : AcStates]
          \cup [kind : {"raw"}, raw : RawWords]
          \cup [kind : {"word"}, word : SentWords, flips : Flips]
          \cup [kind : {"hash"}, hash : Hashes]

Init == input \in Inputs /\ output = Nothing

-----------------------------------------------------------------------------
Sent(word) == LET bytes == <<BitsOf(word[1]), BitsOf(word[2])>>
              IN  Append(bytes, SensirionCrc(bytes))

Flipped(word, flips) == [b \in 1 .. 3 |->
    [i \in 0 .. 7 |-> (word[b][i] + (IF 8 * (b - 1) + i \in flips THEN 1 ELSE 0)) % 2]]

Encode == /\ output = Nothing /\ input.kind = "state"
          /\ output' = [kind |-> "pulses", pulses |-> AcEncodePulses(input.state)]
          /\ UNCHANGED input

Convert == /\ output = Nothing /\ input.kind = "raw"
           /\ output' = [kind |-> "reading", temperature |-> Temperature(input.raw),
                         humidity |-> Humidity(input.raw),
                         airQuality |-> AirQuality(input.raw)]
           /\ UNCHANGED input

Check == /\ output = Nothing /\ input.kind = "word"
         /\ output' = [kind |-> "check",
                       ok |-> WordAccepted(Flipped(Sent(input.word), input.flips))]
         /\ UNCHANGED input

Derive == /\ output = Nothing /\ input.kind = "hash"
          /\ output' = [kind |-> "passcode", code |-> MakePasscode(input.hash)]
          /\ UNCHANGED input

Next == Encode \/ Convert \/ Check \/ Derive

Spec == Init /\ [][Next]_vars

-----------------------------------------------------------------------------
(* Properties *)

\* The AC unit accepts every frame, and reads from it the power state, temperature
\* and fan speed that were asked for, and the mode if it is to run: no field
\* spills into its neighbour, and nothing is lost in a shift or a cast.
RoundTrip == output.kind = "pulses" =>
    LET Read(i) == Field(output.pulses, i)
        s == input.state
    IN  /\ Accepted(output.pulses)
        /\ (Read(12) = 225) = ~s.power
        /\ Read(5) \div 4 = s.temp
        /\ Read(11) \div 16 = FanSpeeds[s.fan]
        /\ s.power => Read(11) % 16 = AcModes[s.mode]

\* The data bits take the same time whatever they say, and with them the frame:
\* the dispatch thread busy-waits for 0.59 s for every transmission
\* (ir_driver.h:28 says about 1.2 s), and the frame fits into its buffer.
AirTimeIsFixed == output.kind = "pulses" =>
    LET Count(pulse) == Cardinality({i \in DOMAIN output.pulses :
                                        output.pulses[i] = pulse})
    IN  /\ Count(One) = 202 /\ Count(Zero) = 222
        /\ Len(output.pulses) <= IR_MAX_PULSES

\* The integer conversions lose less than a hundredth against the formula of the
\* sensor, T = -45 + 175 * raw / 65535 and RH = 100 * raw / 65535, no product
\* leaves 32 bits, and the results fit their int16_t and uint16_t.
ReadingIsExact == output.kind = "reading" =>
    LET tError == 17500 * input.raw - 65535 * (output.temperature + 4500)
        hError == 10000 * input.raw - 65535 * output.humidity
    IN  /\ 0 <= tError /\ tError < 65535
        /\ 0 <= hError /\ hError < 65535
        /\ 17500 * input.raw <= 2147483647
        /\ output.temperature >= -4500 /\ output.temperature <= 13000
        /\ output.humidity >= 0 /\ output.humidity <= 10000

\* A word with one or two bits flipped on the bus is never taken for a measurement,
\* and one that arrives as it was sent always is.
CorruptionIsSeen == output.kind = "check" => (output.ok <=> input.flips = {})

\* A passcode is one the Matter specification allows: 8 digits, and none of the
\* forbidden ones even after the bump.
PasscodeIsValid == output.kind = "passcode" =>
    /\ output.code >= 1 /\ output.code <= 99999998
    /\ output.code \notin Forbidden
=============================================================================
