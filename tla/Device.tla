------------------------------- MODULE Device -------------------------------
(***************************************************************************)
(* The boot of the device (app_task.cpp) and what already runs meanwhile:  *)
(* AppTask::Init goes through its steps on the main thread, each of which  *)
(* may fail, while the shell accepts commands, the dispatch thread waits   *)
(* for frames, the chip stack asks for a verifier and, once it is started, *)
(* the sensor is polled.  With it, the detection threshold, which lives in *)
(* RAM and in the settings, and reboots.                                   *)
(*                                                                         *)
(* Composed of Scd40Manager and HwPairing, whose actions leave the rest of *)
(* the device alone; retries and ACKs of a frame are IrDispatch's part.    *)
(***************************************************************************)
EXTENDS Scd40Manager, HwPairing

CONSTANTS Thresholds,         \* values given to "ac threshold"
          DefaultThreshold,   \* 25.0
          MaxReboots,         \* bound of the exploration
          Scenarios           \* sets of what may happen in one behaviour

Happenings == {"sensor", "controllers", "verifier", "frames", "ac scd", "ac threshold",
               "reboot"}

ASSUME DeviceAssumption == MaxReboots \in Nat /\ Scenarios \subseteq SUBSET Happenings

VARIABLES main,        \* where the main thread stands in AppTask::Init
          irInit,      \* the PWM registers are set up
          pdmInit,     \* ack_sem and pdm_process_work are initialised
          queued,      \* a frame waits for the dispatch thread
          disp,        \* what the dispatch thread does; "fault" stops the whole kernel
          threshold,   \* detect_threshold
          stored,      \* pdm/threshold in flash
          setting,     \* the value "ac threshold" is about to save
          adrift,      \* history: since the boot a save or the load failed, or the
                       \* load came between the two halves of "ac threshold"
          reboots,
          scenario     \* what may happen in this behaviour

bootVars  == <<main, irInit, pdmInit>>
irVars    == <<queued, disp>>
tuneVars  == <<threshold, stored, setting, adrift>>
vars == <<sensorVars, pairingVars, bootVars, irVars, tuneVars, reboots, scenario>>

None == "none"
ASSUME ThresholdAssumption == None \notin Thresholds

Values == Thresholds \cup {DefaultThreshold}

TypeOK ==
    /\ SensorTypeOK
    /\ PairingTypeOK
    /\ main \in {"pairing", "prepare", "server", "identify", "ir", "scd", "mic", "nrfx",
                 "kernel", "load", "enable", "loop", "aborted"}
    /\ irInit \in BOOLEAN /\ pdmInit \in BOOLEAN /\ queued \in BOOLEAN
    /\ disp \in {"idle", "transmit", "listen", "fault"}
    /\ threshold \in Values
    /\ stored \in Thresholds \cup {None}
    /\ setting \in Thresholds \cup {None}
    /\ adrift \in BOOLEAN
    /\ reboots \in 0 .. MaxReboots
    /\ scenario \in Scenarios

Init ==
    /\ SensorInit
    /\ PairingInit
    /\ main = "pairing" /\ irInit = FALSE /\ pdmInit = FALSE
    /\ queued = FALSE /\ disp = "idle"
    /\ threshold = DefaultThreshold
    /\ stored = None /\ setting = None /\ adrift = FALSE
    /\ reboots = 0
    /\ scenario \in Scenarios

MayBe(happening) == happening \in scenario

-----------------------------------------------------------------------------
(* AppTask::Init *)

Advance(from, to) == main = from /\ main' = to

BootPairing == /\ Advance("pairing", "prepare")
               /\ Derive
               /\ UNCHANGED <<sensorVars, irInit, pdmInit, irVars, tuneVars, reboots, scenario>>

others == <<sensorVars, pairingVars, irVars, reboots, scenario>>

\* PrepareServer and StartServer end StartApp and main if they fail; a failed
\* registration of an Identify cluster is only logged.
BootServer == /\ \/ Advance("prepare", "server") \/ Advance("prepare", "aborted")
                 \/ Advance("server", "identify") \/ Advance("server", "aborted")
                 \/ Advance("identify", "ir")
              /\ UNCHANGED <<others, tuneVars, irInit, pdmInit>>

BootIr == /\ Advance("ir", "scd")
          /\ irInit' = TRUE
          /\ UNCHANGED <<others, tuneVars, pdmInit>>

BootScd == /\ main = "scd"
           /\ SensorStart /\ (MayBe("sensor") \/ init' = "failed")
           /\ UNCHANGED <<pairingVars, bootVars, irVars, tuneVars, reboots, scenario>>

\* Mutant of BootScdDone: a missing sensor is waited for.
BootScdStarted == /\ Advance("scd", "mic")
                  /\ init = "done"
                  /\ UNCHANGED <<others, tuneVars, irInit, pdmInit>>

\* A missing sensor is only logged.
BootScdDone == /\ Advance("scd", "mic")
               /\ init \in {"done", "failed"}
               /\ UNCHANGED <<others, tuneVars, irInit, pdmInit>>

\* pdm_manager_init: three ways to return early, and none to tell the caller.
BootMic == /\ \/ Advance("mic", "nrfx") \/ Advance("mic", "enable")
              \/ Advance("nrfx", "kernel") \/ Advance("nrfx", "enable")
           /\ UNCHANGED <<others, tuneVars, irInit, pdmInit>>

BootKernel == /\ Advance("kernel", "load")
              /\ pdmInit' = TRUE
              /\ UNCHANGED <<others, tuneVars, irInit>>

\* settings_load_subtree, with pdm_settings_set for the entry that is found.
LoadThreshold == /\ threshold' = IF stored = None THEN threshold ELSE stored
                 /\ adrift' = (adrift \/ setting # None)
                 /\ UNCHANGED <<stored, setting>>

\* Mutant of BootLoad: the entry's length is not the expected one.
BootLoadMismatch == /\ Advance("load", "enable")
                    /\ UNCHANGED <<others, tuneVars, irInit, pdmInit>>

BootLoad == /\ Advance("load", "enable")
            /\ \/ LoadThreshold
               \/ adrift' = TRUE /\ UNCHANGED <<threshold, stored, setting>>
            /\ UNCHANGED <<others, irInit, pdmInit>>

BootEnable == /\ Advance("enable", "loop")
              /\ UNCHANGED <<others, tuneVars, irInit, pdmInit>>

Boot == \/ BootPairing \/ BootServer \/ BootIr \/ BootScd \/ BootScdDone
        \/ BootMic \/ BootKernel \/ BootLoad \/ BootEnable

-----------------------------------------------------------------------------
(* Frames: "ac off" at any time, attribute callbacks once ir_ready is set *)

unaired == <<sensorVars, pairingVars, bootVars, tuneVars, reboots, scenario>>

\* The shell is one thread, which has one command at a time.
Prompt == scd = "idle" /\ setting = None

ShellOff == /\ Prompt /\ MayBe("frames")
            /\ queued' = TRUE
            /\ UNCHANGED <<unaired, disp>>

Callback == /\ main = "loop" /\ MayBe("frames")
            /\ queued' = TRUE
            /\ UNCHANGED <<unaired, disp>>

DispTake == /\ disp = "idle" /\ queued
            /\ queued' = FALSE
            /\ disp' = "transmit"
            /\ UNCHANGED unaired

\* load_duty waits for an event the PWM raises only when it is set up.
Transmit == /\ disp = "transmit" /\ irInit
            /\ disp' = "listen"
            /\ UNCHANGED <<unaired, queued>>

Listen == /\ disp = "listen" /\ pdmInit
          /\ disp' \in {"idle", "transmit"}
          /\ UNCHANGED <<unaired, queued>>

\* k_sem_reset and k_sem_take of a semaphore that was never initialised: the wait
\* may happen to time out, or follow a null pointer; the build does not reset
\* on a fatal error (CONFIG_RESET_ON_FATAL_ERROR=n).
ListenUninitialised == /\ disp = "listen" /\ ~pdmInit
                       /\ disp' \in {"idle", "transmit", "fault"}
                       /\ UNCHANGED <<unaired, queued>>

-----------------------------------------------------------------------------
(* "ac threshold": pdm_manager_save_threshold *)

untuned == <<sensorVars, pairingVars, bootVars, irVars, reboots, scenario>>

SetThreshold == /\ Prompt /\ MayBe("ac threshold")
                /\ \E t \in Thresholds : threshold' = t /\ setting' = t
                /\ UNCHANGED <<untuned, stored, adrift>>

SaveThreshold == /\ setting # None
                 /\ stored' = setting
                 /\ setting' = None
                 /\ UNCHANGED <<untuned, threshold, adrift>>

\* Only logged: the shell prints "Set and saved" all the same.
SaveFails == /\ setting # None
             /\ setting' = None
             /\ adrift' = TRUE
             /\ UNCHANGED <<untuned, threshold, stored>>

-----------------------------------------------------------------------------
Reboot == /\ reboots < MaxReboots /\ MayBe("reboot")
          /\ reboots' = reboots + 1
          /\ SensorReset
          /\ PairingReset
          /\ main' = "pairing" /\ irInit' = FALSE /\ pdmInit' = FALSE
          /\ queued' = FALSE /\ disp' = "idle"
          /\ threshold' = DefaultThreshold /\ setting' = None /\ adrift' = FALSE
          /\ UNCHANGED <<stored, scenario>>

Alive == disp # "fault"

\* An action of one component, while the kernel runs.
InSensor(action)  == /\ Alive /\ action
                     /\ UNCHANGED <<pairingVars, bootVars, irVars, tuneVars, reboots, scenario>>
InPairing(action) == /\ Alive /\ action
                     /\ UNCHANGED <<sensorVars, bootVars, irVars, tuneVars, reboots, scenario>>

Frames    == ShellOff \/ Callback \/ DispTake \/ Transmit \/ Listen \/ ListenUninitialised
Threshold == SetThreshold \/ SaveThreshold \/ SaveFails

\* GetSpake2pVerifier runs with the chip stack lock held.
Verify  == InPairing(MayBe("verifier") /\ lock = "matter" /\ GetVerifier)
Release == InSensor(call = "idle" /\ MatterUnlocks)

Next == \/ Alive /\ (Boot \/ Frames \/ Threshold)
        \/ InSensor(Measure) \/ InSensor(Tick) \/ InSensor(Poll)
        \/ InSensor(MayBe("controllers") /\ MatterLocks) \/ Release
        \/ InSensor(MayBe("ac scd") /\ setting = None /\ ShellScd)
        \/ Verify
        \/ Reboot

\* Threads and timers run on, and the sensor measures; its bus does not fail for
\* ever, and the lock is handed to the poll when it waits for it.  Nobody has to
\* type a command, and the dispatch thread need not get anywhere.
Fairness == /\ WF_vars(Alive /\ Boot)
            /\ WF_vars(InSensor(Measure)) /\ WF_vars(InSensor(Tick))
            /\ WF_vars(InSensor(Poll))
            /\ \A command \in {"askReady", "askData"} :
                  SF_vars(InSensor(poll = command /\ Written))
            /\ SF_vars(InSensor(poll' = "askData" /\ ReadReady))
            /\ SF_vars(InSensor(ReadData)) /\ SF_vars(InSensor(LockStack))
            /\ WF_vars(call # "idle" /\ Verify) /\ SF_vars(Release)

Spec == Init /\ [][Next]_vars /\ Fairness

-----------------------------------------------------------------------------
(* Properties *)

\* The device boots, whatever sensor, microphone and settings do: a missing part
\* costs its function, never the others'.
BootCompletes == main = "pairing" ~> main \in {"loop", "aborted"} \/ ~Alive

\* Once it has been started, the sensor is heard in the end, however many polls
\* fail before.
SensorIsHeard == timer ~> attrs.co2 # 0 \/ ~timer \/ ~Alive

\* The threshold in use is the one that survives the next boot: after the load and
\* between commands RAM and flash agree unless a save or the load failed or the
\* load overtook a command that was typed during boot.
ThresholdIsKept ==
    pdmInit /\ main # "load" /\ setting = None /\ ~adrift =>
        threshold = IF stored = None THEN DefaultThreshold ELSE stored

\* "Enable IR transmission now that init is complete" (app_task.cpp:98): no frame
\* is on the air, and no ACK is waited for, before the microphone's semaphore
\* and work item are initialised.
ListensOnlyIfInitialised == disp = "listen" => pdmInit
=============================================================================
