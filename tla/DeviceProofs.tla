---------------------------- MODULE DeviceProofs ----------------------------
(***************************************************************************)
(* Proofs about Device.  Every step of the device is a step of the sensor  *)
(* manager or leaves it alone, and the same goes for the credentials, so   *)
(* that each invariant is carried over the steps of its own component.     *)
(***************************************************************************)
EXTENDS Device, TLAPS

SensorSteps == \/ SensorStart \/ Measure \/ Tick \/ Poll
               \/ MatterLocks \/ MatterUnlocks \/ ShellScd
               \/ SensorReset
               \/ UNCHANGED sensorVars

PairingSteps == Derive \/ GetVerifier \/ PairingReset \/ UNCHANGED pairingVars

LEMMA BootMovesSensor == Boot => SensorStart \/ UNCHANGED sensorVars
BY DEF Boot, BootPairing, BootServer, BootIr, BootScd, BootScdDone, BootMic, BootKernel,
       BootLoad, BootEnable, others

LEMMA BootMovesPairing == Boot => Derive \/ UNCHANGED pairingVars
BY DEF Boot, BootPairing, BootServer, BootIr, BootScd, BootScdDone, BootMic, BootKernel,
       BootLoad, BootEnable, others

LEMMA FramesMoveNeither == Frames => UNCHANGED <<sensorVars, pairingVars>>
BY DEF Frames, ShellOff, Callback, DispTake, Transmit, Listen, ListenUninitialised, unaired

LEMMA ThresholdMovesNeither == Threshold => UNCHANGED <<sensorVars, pairingVars>>
BY DEF Threshold, SetThreshold, SaveThreshold, SaveFails, untuned

\* The device moves the sensor manager only the way the sensor manager moves.
LEMMA MovesSensor == [Next]_vars => SensorSteps
<1> SUFFICES ASSUME [Next]_vars PROVE SensorSteps
    OBVIOUS
<1> USE DEF SensorSteps
<1>1. CASE Boot
    BY <1>1, BootMovesSensor
<1>2. CASE Frames \/ Threshold
    BY <1>2, FramesMoveNeither, ThresholdMovesNeither
<1>3. CASE \/ InSensor(Measure) \/ InSensor(Tick) \/ InSensor(Poll)
           \/ InSensor(MayBe("controllers") /\ MatterLocks) \/ Release
           \/ InSensor(MayBe("ac scd") /\ setting = None /\ ShellScd)
    BY <1>3 DEF InSensor, Release
<1>4. CASE Verify
    BY <1>4 DEF Verify, InPairing
<1>5. CASE Reboot
    BY <1>5 DEF Reboot
<1>6. CASE UNCHANGED vars
    BY <1>6 DEF vars
<1> QED
    BY <1>1, <1>2, <1>3, <1>4, <1>5, <1>6 DEF Next

\* The same for the credentials.
LEMMA MovesPairing == [Next]_vars => PairingSteps
<1> SUFFICES ASSUME [Next]_vars PROVE PairingSteps
    OBVIOUS
<1> USE DEF PairingSteps
<1>1. CASE Boot
    BY <1>1, BootMovesPairing
<1>2. CASE Frames \/ Threshold
    BY <1>2, FramesMoveNeither, ThresholdMovesNeither
<1>3. CASE \/ InSensor(Measure) \/ InSensor(Tick) \/ InSensor(Poll)
           \/ InSensor(MayBe("controllers") /\ MatterLocks) \/ Release
           \/ InSensor(MayBe("ac scd") /\ setting = None /\ ShellScd)
    BY <1>3 DEF InSensor, Release
<1>4. CASE Verify
    BY <1>4 DEF Verify, InPairing
<1>5. CASE Reboot
    BY <1>5 DEF Reboot
<1>6. CASE UNCHANGED vars
    BY <1>6 DEF vars
<1> QED
    BY <1>1, <1>2, <1>3, <1>4, <1>5, <1>6 DEF Next

-----------------------------------------------------------------------------
(* The credentials *)

\* Work is done again only while the verifier is not marked as ready, and it is
\* marked and copied only when it is whole.
Whole == /\ verifierReady => verifier = "whole" /\ call \notin {"generate", "serialize"}
         /\ call \in {"mark", "copy"} => verifier = "whole"
         /\ VerifierIsWhole

LEMMA InitWhole == Init => Whole
BY DEF Init, PairingInit, Whole, VerifierIsWhole

LEMMA PairingKeepsWhole == Whole /\ PairingSteps => Whole'
<1> SUFFICES ASSUME Whole, PairingSteps PROVE Whole'
    OBVIOUS
<1> USE DEF Whole, VerifierIsWhole
<1>1. CASE Derive
    BY <1>1 DEF Derive
<1>2. CASE Refuse \/ Ask
    BY <1>2 DEF Refuse, Ask, pairingVars
<1>3. CASE Generate(TRUE) \/ Generate(FALSE)
    BY <1>3 DEF Generate
<1>4. CASE Serialize \/ SerializeFails
    BY <1>4 DEF Serialize, SerializeFails
<1>5. CASE MarkReady
    BY <1>5 DEF MarkReady
<1>6. CASE CopyOut \/ TooSmall
    BY <1>6 DEF CopyOut, TooSmall
<1>7. CASE PairingReset
    BY <1>7 DEF PairingReset
<1>8. CASE UNCHANGED pairingVars
    BY <1>8 DEF pairingVars
<1> QED
    BY <1>1, <1>2, <1>3, <1>4, <1>5, <1>6, <1>7, <1>8 DEF PairingSteps, GetVerifier

\* No commissioner is given a verifier that was not completely generated and
\* serialised, however often either failed before, over any number of reboots.
THEOREM VerifierIsWholeCorrect == Spec => []VerifierIsWhole
<1>1. Whole /\ [Next]_vars => Whole'
    BY PairingKeepsWhole, MovesPairing
<1>2. Whole => VerifierIsWhole
    BY DEF Whole
<1> QED
    BY <1>1, <1>2, InitWhole, PTL DEF Spec

-----------------------------------------------------------------------------
(* The detection threshold *)

\* Between the halves of "ac threshold" the value in RAM is the one to be saved;
\* without a saved one it is the default; and after the load it is the saved one.
Kept == /\ setting # None /\ ~adrift => threshold = setting
        /\ setting = None /\ ~adrift /\ stored = None => threshold = DefaultThreshold
        /\ ThresholdIsKept

LEMMA InitKept == Init => Kept
BY DEF Init, Kept, ThresholdIsKept

LEMMA NextKept == Kept /\ [Next]_vars => Kept'
<1> SUFFICES ASSUME Kept, [Next]_vars PROVE Kept'
    OBVIOUS
<1> USE DEF Kept, ThresholdIsKept
<1>1. CASE BootPairing \/ BootServer \/ BootIr \/ BootScd \/ BootScdDone
    BY <1>1 DEF BootPairing, BootServer, BootIr, BootScd, BootScdDone, Advance, tuneVars,
                bootVars
<1>2. CASE BootMic \/ BootKernel \/ BootEnable
    BY <1>2 DEF BootMic, BootKernel, BootEnable, Advance, tuneVars
<1>3. CASE BootLoad
    BY <1>3 DEF BootLoad, LoadThreshold, Advance
<1>4. CASE Frames
    BY <1>4 DEF Frames, ShellOff, Callback, DispTake, Transmit, Listen,
                ListenUninitialised, unaired, tuneVars, bootVars
<1>5. CASE SetThreshold
    BY <1>5, ThresholdAssumption DEF SetThreshold
<1>6. CASE SaveThreshold \/ SaveFails
    BY <1>6 DEF SaveThreshold, SaveFails, untuned, bootVars
<1>7. CASE \/ InSensor(Measure) \/ InSensor(Tick) \/ InSensor(Poll)
           \/ InSensor(MayBe("controllers") /\ MatterLocks) \/ Release
           \/ InSensor(MayBe("ac scd") /\ setting = None /\ ShellScd) \/ Verify
    <2>1. UNCHANGED <<bootVars, tuneVars>>
        BY <1>7 DEF InSensor, InPairing, Release, Verify
    <2> QED
        BY <2>1 DEF bootVars, tuneVars
<1>8. CASE Reboot
    BY <1>8 DEF Reboot
<1>9. CASE UNCHANGED vars
    BY <1>9 DEF vars, bootVars, tuneVars
<1> QED
    BY <1>1, <1>2, <1>3, <1>4, <1>5, <1>6, <1>7, <1>8, <1>9 DEF Next, Boot, Threshold

\* Whatever thresholds are set, whenever, over any number of reboots: the one in
\* use after boot is the one in the settings, but for the named exceptions.
THEOREM ThresholdIsKeptCorrect == Spec => []ThresholdIsKept
<1>1. Kept => ThresholdIsKept
    BY DEF Kept
<1> QED
    BY <1>1, InitKept, NextKept, PTL DEF Spec

-----------------------------------------------------------------------------
(* The sensor *)

Storing == {"temp", "rh", "quality", "co2", "unlock"}

OneReading == words.co2 = words.temp /\ words.co2 = words.rh

\* The poll is where the lock says; what it stores is of one measurement; and the
\* attributes it has not yet stored are the only ones that differ.
Stored == /\ PollsOnlyIfStarted
          /\ lock = "poll" <=> poll \in Storing
          /\ poll \in Storing \cup {"lock", "store"} => OneReading
          /\ lock # "poll" => /\ attrs.temp = attrs.co2 /\ attrs.rh = attrs.co2
                              /\ attrs.quality = attrs.co2
          /\ poll \in Storing \ {"temp"} => attrs.temp = words.co2
          /\ poll \in {"quality", "co2", "unlock"} => attrs.rh = words.co2
          /\ poll \in {"co2", "unlock"} => attrs.quality = words.co2
          /\ poll = "unlock" => attrs.co2 = words.co2

\* The first half of a copy is of the last reading as long as that stands.
Copied == /\ last.co2 = last.rh
          /\ scd = "copy" /\ ~overtaken => seen.co2 = last.co2
          /\ PrintIsOneReading

SensorInv == SensorTypeOK /\ Stored /\ Copied

LEMMA Bounds == /\ 0 \in 0 .. Attempts - 1
                /\ 0 \in Numbers
                /\ \A n \in Numbers : (n % MaxReading) + 1 \in Numbers
                /\ \A n \in 0 .. Attempts - 1 :
                      n < Attempts - 1 => n + 1 \in 0 .. Attempts - 1
BY SensorAssumption, SMTT(30) DEF Numbers

LEMMA InitSensor == Init => SensorInv
<1> SUFFICES ASSUME SensorInit PROVE SensorInv
    BY DEF Init
<1>1. SensorTypeOK
    BY Bounds DEF SensorInit, SensorTypeOK, NoWords, Words
<1>2. Stored /\ Copied
    BY DEF SensorInit, Stored, Copied, PollsOnlyIfStarted, PrintIsOneReading, Storing,
           NoWords
<1> QED
    BY <1>1, <1>2 DEF SensorInv

LEMMA SensorKeepsTypes == SensorTypeOK /\ SensorSteps => SensorTypeOK'
<1> SUFFICES ASSUME SensorTypeOK, SensorSteps PROVE SensorTypeOK'
    OBVIOUS
<1> USE DEF SensorTypeOK
<1>1. CASE SensorStart
    <2>1. CASE I2cMissing \/ I2cReady
        BY <1>1, <2>1 DEF SensorStart, I2cMissing, I2cReady, sensor, pollVars, scdVars
    <2>2. CASE StopWritten
        <3>1. tries' \in 0 .. Attempts - 1
            BY <2>2, Bounds DEF StopWritten, Nack, Unanswered
        <3>2. init' \in {"stop", "start"} /\ measuring' \in BOOLEAN
            BY <2>2 DEF StopWritten
        <3> QED
            BY <1>1, <2>2, <3>1, <3>2 DEF SensorStart, StopWritten, sensor, pollVars, scdVars
    <2>3. CASE StartWritten
        BY <1>1, <2>3, Bounds DEF SensorStart, StartWritten, sensor, pollVars, scdVars
    <2>4. CASE StartFails
        <3>1. tries' \in 0 .. Attempts - 1
            BY <2>4, Bounds DEF StartFails, Nack, Unanswered
        <3>2. init' \in {"start", "failed"}
            BY <2>4 DEF StartFails
        <3> QED
            BY <1>1, <2>4, <3>1, <3>2 DEF SensorStart, StartFails, sensor, pollVars, scdVars
    <2> QED
        BY <1>1, <2>1, <2>2, <2>3, <2>4 DEF SensorStart
<1>2. CASE Measure \/ Tick
    <2>1. CASE Measure
        BY <2>1, Bounds DEF Measure, initVars, pollVars, scdVars
    <2>2. CASE Tick
        BY <2>2 DEF Tick, initVars, sensor, scdVars
    <2> QED
        BY <1>2, <2>1, <2>2
<1>3. CASE Poll
    <2> USE DEF Step, initVars, scdVars, sensor, polling, storing
    <2>1. CASE PollStart
        BY <2>1 DEF PollStart
    <2>2. CASE Written
        BY <2>2, Bounds DEF Written
    <2>3. CASE NotWritten
        <3>1. tries' \in 0 .. Attempts - 1
            BY <2>3, Bounds DEF NotWritten, Nack, Unanswered
        <3>2. poll' \in {poll, "idle"}
            BY <2>3 DEF NotWritten
        <3> QED
            BY <2>3, <3>1, <3>2 DEF NotWritten
    <2>4. CASE ReadReady \/ ReadFails
        <3>1. dataReady' \in BOOLEAN
            BY <2>4, Zenon DEF ReadReady, ReadFails
        <3>2. poll' \in {"askData", "idle"}
            BY <2>4 DEF ReadReady, ReadFails
        <3> QED
            <4>1. CASE ReadReady
                BY <3>1, <3>2, <4>1 DEF ReadReady
            <4>2. CASE ReadFails
                BY <3>1, <3>2, <4>2 DEF ReadFails
            <4> QED
                BY <2>4, <4>1, <4>2
    <2>5. CASE ReadData
        BY <2>5 DEF ReadData, Words
    <2>6. CASE LockStack \/ UnlockStack
        BY <2>6, SMTT(30) DEF LockStack, UnlockStack
    <2>7. CASE SetTemp \/ SetHumidity
        BY <2>7, SMTT(30) DEF SetTemp, SetHumidity, Words
    <2>8. CASE SetAirQuality \/ SetCo2
        BY <2>8, SMTT(30) DEF SetAirQuality, SetCo2, Words
    <2>9. CASE StoreLast
        BY <2>9, Bounds DEF StoreLast, NoWords, Words
    <2> QED
        BY <1>3, <2>1, <2>2, <2>3, <2>4, <2>5, <2>6, <2>7, <2>8, <2>9 DEF Poll
<1>4. CASE MatterLocks \/ MatterUnlocks
    BY <1>4 DEF MatterLocks, MatterUnlocks, initVars, sensor, pollVars, scdVars
<1>5. CASE ShellScd
    <2> USE DEF idleScd, initVars, sensor, pollVars
    <2>1. CASE CopyFirst
        BY <2>1, Bounds DEF CopyFirst, Words
    <2>2. CASE CopySecond
        BY <2>2 DEF CopySecond, Words
    <2>3. CASE PrintReading
        <3>1. seen' \in Words
            BY <2>3, Bounds DEF PrintReading, NoWords, Words
        <3>2. scd' \in {"idle", "copy", "print"} /\ overtaken' \in BOOLEAN
            BY <2>3 DEF PrintReading
        <3>3. UNCHANGED idleScd
            BY <2>3 DEF PrintReading
        <3> QED
            BY <3>1, <3>2, <3>3
    <2> QED
        BY <1>5, <2>1, <2>2, <2>3 DEF ShellScd
<1>6. CASE SensorReset
    BY <1>6, Bounds DEF SensorReset, sensor, NoWords, Words
<1>7. CASE UNCHANGED sensorVars
    BY <1>7 DEF sensorVars, initVars, sensor, pollVars, scdVars
<1> QED
    BY <1>1, <1>2, <1>3, <1>4, <1>5, <1>6, <1>7 DEF SensorSteps

LEMMA SensorKeepsStored == SensorTypeOK /\ Stored /\ SensorSteps => Stored'
<1> SUFFICES ASSUME SensorTypeOK, Stored, SensorSteps PROVE Stored'
    OBVIOUS
<1> USE DEF Stored, PollsOnlyIfStarted, OneReading, Storing
<1>1. CASE SensorStart
    <2>1. UNCHANGED <<poll, words, lock, attrs, pollWork>>
        BY <1>1 DEF SensorStart, pollVars
    <2>2. PollsOnlyIfStarted'
        BY <1>1, <2>1 DEF SensorStart, I2cMissing, I2cReady, StopWritten, StartWritten,
                          StartFails, sensor
    <2> QED
        BY <2>1, <2>2
<1>2. CASE Measure \/ Tick
    BY <1>2 DEF Measure, Tick, initVars, sensor, pollVars
<1>3. CASE Poll
    <2> USE DEF Step, initVars, sensor, polling, storing
    <2>1. CASE PollStart \/ Written \/ NotWritten
        BY <2>1 DEF PollStart, Written, NotWritten
    <2>2. CASE ReadReady \/ ReadFails
        BY <2>2 DEF ReadReady, ReadFails
    <2>3. CASE ReadData
        <3>1. OneReading'
            BY <2>3 DEF ReadData, SensorTypeOK, Words
        <3> QED
            BY <2>3, <3>1 DEF ReadData
    <2>4. CASE LockStack \/ UnlockStack
        BY <2>4 DEF LockStack, UnlockStack
    <2>5. CASE SetTemp \/ SetHumidity
        BY <2>5 DEF SetTemp, SetHumidity, SensorTypeOK
    <2>6. CASE SetAirQuality \/ SetCo2
        BY <2>6 DEF SetAirQuality, SetCo2, SensorTypeOK
    <2>7. CASE StoreLast
        BY <2>7 DEF StoreLast
    <2> QED
        BY <1>3, <2>1, <2>2, <2>3, <2>4, <2>5, <2>6, <2>7 DEF Poll
<1>4. CASE MatterLocks \/ MatterUnlocks
    BY <1>4 DEF MatterLocks, MatterUnlocks, initVars, sensor, pollVars
<1>5. CASE ShellScd
    BY <1>5 DEF ShellScd, CopyFirst, CopySecond, PrintReading, idleScd, initVars, sensor,
                pollVars
<1>6. CASE SensorReset
    BY <1>6 DEF SensorReset, sensor
<1>7. CASE UNCHANGED sensorVars
    BY <1>7 DEF sensorVars, initVars, sensor, pollVars
<1> QED
    BY <1>1, <1>2, <1>3, <1>4, <1>5, <1>6, <1>7 DEF SensorSteps

LEMMA SensorKeepsCopied == SensorTypeOK /\ Stored /\ Copied /\ SensorSteps => Copied'
<1> SUFFICES ASSUME SensorTypeOK, Stored, Copied, SensorSteps PROVE Copied'
    OBVIOUS
<1> USE DEF Copied, PrintIsOneReading
<1>1. CASE SensorStart \/ Measure \/ Tick \/ MatterLocks \/ MatterUnlocks
    <2>1. UNCHANGED <<last, scd, seen, overtaken>>
        BY <1>1 DEF SensorStart, Measure, Tick, MatterLocks, MatterUnlocks, pollVars, scdVars
    <2> QED
        BY <2>1
<1>2. CASE Poll
    <2>1. CASE StoreLast
        BY <2>1 DEF StoreLast, Step, Stored, OneReading, scdVars
    <2>2. CASE ~StoreLast
        <3>1. UNCHANGED <<last, scd, seen, overtaken>>
            BY <1>2, <2>2 DEF Poll, PollStart, Written, NotWritten, ReadReady, ReadData,
                              ReadFails, LockStack, SetTemp, SetHumidity, SetAirQuality,
                              SetCo2, UnlockStack, polling, storing, scdVars
        <3> QED
            BY <3>1
    <2> QED
        BY <2>1, <2>2
<1>3. CASE ShellScd
    <2> USE DEF idleScd, pollVars
    <2>1. CASE CopyFirst
        BY <2>1 DEF CopyFirst, SensorTypeOK, Words
    <2>2. CASE CopySecond
        BY <2>2 DEF CopySecond, SensorTypeOK, Words
    <2>3. CASE PrintReading
        BY <2>3 DEF PrintReading
    <2> QED
        BY <1>3, <2>1, <2>2, <2>3 DEF ShellScd
<1>4. CASE SensorReset
    BY <1>4 DEF SensorReset, NoWords
<1>5. CASE UNCHANGED sensorVars
    BY <1>5 DEF sensorVars, pollVars, scdVars
<1> QED
    BY <1>1, <1>2, <1>3, <1>4, <1>5 DEF SensorSteps

LEMMA SensorCorrect == Spec => []SensorInv
<1>1. SensorInv /\ [Next]_vars => SensorInv'
    BY MovesSensor, SensorKeepsTypes, SensorKeepsStored, SensorKeepsCopied DEF SensorInv
<1> QED
    BY <1>1, InitSensor, PTL DEF Spec

\* A controller never reads attributes of two measurements, however the polls fail
\* and whenever it takes the lock.
THEOREM AttributesAreOneReadingCorrect == Spec => []AttributesAreOneReading
<1>1. SensorInv => AttributesAreOneReading
    <2> SUFFICES ASSUME SensorInv, lock # "poll"
                 PROVE  \E n \in Numbers : \A a \in DOMAIN attrs : attrs[a] = n
        BY DEF AttributesAreOneReading
    <2>1. attrs.co2 \in Numbers /\ DOMAIN attrs = {"temp", "rh", "quality", "co2"}
        BY DEF SensorInv, SensorTypeOK
    <2>2. /\ attrs.temp = attrs.co2 /\ attrs.rh = attrs.co2
          /\ attrs.quality = attrs.co2
        BY DEF SensorInv, Stored
    <2> QED
        BY <2>1, <2>2
<1> QED
    BY <1>1, SensorCorrect, PTL

\* "ac scd" prints two readings in one only if a poll stored one in the middle of
\* its copy.
THEOREM PrintIsOneReadingCorrect == Spec => []PrintIsOneReading
<1>1. SensorInv => PrintIsOneReading
    BY DEF SensorInv, Copied
<1> QED
    BY <1>1, SensorCorrect, PTL

\* Only a sensor that accepted its start command is ever polled.
THEOREM PollsOnlyIfStartedCorrect == Spec => []PollsOnlyIfStarted
<1>1. SensorInv => PollsOnlyIfStarted
    BY DEF SensorInv, Stored
<1> QED
    BY <1>1, SensorCorrect, PTL

-----------------------------------------------------------------------------
(* Types *)

DeviceTypes == /\ main \in {"pairing", "prepare", "server", "identify", "ir", "scd", "mic",
                            "nrfx", "kernel", "load", "enable", "loop", "aborted"}
               /\ irInit \in BOOLEAN /\ pdmInit \in BOOLEAN /\ queued \in BOOLEAN
               /\ disp \in {"idle", "transmit", "listen", "fault"}
               /\ threshold \in Values
               /\ stored \in Thresholds \cup {None}
               /\ setting \in Thresholds \cup {None}
               /\ adrift \in BOOLEAN
               /\ reboots \in 0 .. MaxReboots
               /\ scenario \in Scenarios

LEMMA Reboots == /\ MaxReboots \in Nat /\ 0 \in 0 .. MaxReboots
                 /\ \A n \in 0 .. MaxReboots :
                       n < MaxReboots => n + 1 \in 0 .. MaxReboots
BY DeviceAssumption

LEMMA PairingKeepsTypes == PairingTypeOK /\ PairingSteps => PairingTypeOK'
<1> SUFFICES ASSUME PairingTypeOK, PairingSteps PROVE PairingTypeOK'
    OBVIOUS
<1> USE DEF PairingTypeOK, Contents
<1>1. CASE Derive \/ PairingReset \/ UNCHANGED pairingVars
    BY <1>1 DEF Derive, PairingReset, pairingVars
<1>2. CASE Refuse \/ Ask \/ MarkReady \/ CopyOut \/ TooSmall
    BY <1>2 DEF Refuse, Ask, MarkReady, CopyOut, TooSmall, pairingVars
<1>3. CASE Generate(TRUE) \/ Generate(FALSE)
    BY <1>3 DEF Generate
<1>4. CASE Serialize \/ SerializeFails
    BY <1>4 DEF Serialize, SerializeFails
<1> QED
    BY <1>1, <1>2, <1>3, <1>4 DEF PairingSteps, GetVerifier

LEMMA NextDeviceTypes == DeviceTypes /\ [Next]_vars => DeviceTypes'
<1> SUFFICES ASSUME DeviceTypes, [Next]_vars PROVE DeviceTypes'
    OBVIOUS
<1> USE DEF DeviceTypes
<1>1. CASE BootPairing \/ BootServer \/ BootIr \/ BootEnable
    BY <1>1 DEF BootPairing, BootServer, BootIr, BootEnable, Advance, tuneVars, irVars,
                others
<1>2. CASE BootScd \/ BootScdDone \/ BootMic \/ BootKernel
    BY <1>2 DEF BootScd, BootScdDone, BootMic, BootKernel, Advance, tuneVars, bootVars,
                irVars, others
<1>3. CASE BootLoad
    BY <1>3 DEF BootLoad, LoadThreshold, Advance, others, irVars, Values
<1>4. CASE Frames
    <2>1. UNCHANGED <<bootVars, tuneVars, reboots, scenario>>
        BY <1>4 DEF Frames, ShellOff, Callback, DispTake, Transmit, Listen,
                    ListenUninitialised, unaired
    <2>2. queued' \in BOOLEAN /\ disp' \in {"idle", "transmit", "listen", "fault"}
        BY <1>4 DEF Frames, ShellOff, Callback, DispTake, Transmit, Listen,
                    ListenUninitialised
    <2> QED
        BY <2>1, <2>2 DEF bootVars, tuneVars
<1>5. CASE SetThreshold
    BY <1>5 DEF SetThreshold, untuned, bootVars, irVars, Values
<1>6. CASE SaveThreshold \/ SaveFails
    BY <1>6 DEF SaveThreshold, SaveFails, untuned, bootVars, irVars
<1>7. CASE \/ InSensor(Measure) \/ InSensor(Tick) \/ InSensor(Poll)
           \/ InSensor(MayBe("controllers") /\ MatterLocks) \/ Release
           \/ InSensor(MayBe("ac scd") /\ setting = None /\ ShellScd) \/ Verify
    <2>1. UNCHANGED <<bootVars, irVars, tuneVars, reboots, scenario>>
        BY <1>7 DEF InSensor, InPairing, Release, Verify
    <2> QED
        BY <2>1 DEF bootVars, irVars, tuneVars
<1>8. CASE Reboot
    <2>1. reboots' \in 0 .. MaxReboots
        BY <1>8, Reboots DEF Reboot
    <2> QED
        BY <1>8, <2>1 DEF Reboot, Values
<1>9. CASE UNCHANGED vars
    BY <1>9 DEF vars, bootVars, irVars, tuneVars
<1> QED
    BY <1>1, <1>2, <1>3, <1>4, <1>5, <1>6, <1>7, <1>8, <1>9 DEF Next, Boot, Threshold

\* Every variable of the device keeps its type.
THEOREM TypeCorrect == Spec => []TypeOK
<1> DEFINE Typed == SensorTypeOK /\ PairingTypeOK /\ DeviceTypes
<1>1. Init => Typed
    <2> SUFFICES ASSUME Init PROVE Typed
        OBVIOUS
    <2>1. SensorTypeOK
        BY InitSensor DEF SensorInv
    <2>2. PairingTypeOK
        BY DEF Init, PairingInit, PairingTypeOK, Contents
    <2>3. DeviceTypes
        BY Reboots DEF Init, DeviceTypes, Values
    <2> QED
        BY <2>1, <2>2, <2>3
<1>2. Typed /\ [Next]_vars => Typed'
    BY MovesSensor, MovesPairing, SensorKeepsTypes, PairingKeepsTypes, NextDeviceTypes
<1>3. Typed => TypeOK
    BY DEF TypeOK, DeviceTypes
<1> QED
    BY <1>1, <1>2, <1>3, PTL DEF Spec
=============================================================================
