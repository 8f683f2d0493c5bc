---------------------------- MODULE Scd40Manager ----------------------------
(***************************************************************************)
(* The sensor manager (scd40_manager.cpp): its start on the main thread,   *)
(* the poll on the system workqueue, and "ac scd" of the shell, which      *)
(* copies the last reading while the workqueue may preempt it.  A reading  *)
(* is known by the number of the measurement it comes from; 0 stands for   *)
(* the zeroes and nulls of a device that has not measured yet.             *)
(***************************************************************************)
EXTENDS Naturals

CONSTANTS Attempts,       \* tries of scd40_write_cmd, 60 in the code
          MaxReading      \* measurements are numbered 1..MaxReading, over and over

ASSUME SensorAssumption == {Attempts, MaxReading} \subseteq Nat \ {0}

VARIABLES init,       \* where scd40_manager_init stands
          tries,      \* the tries of the command that is being written
          measuring,  \* has the sensor accepted start_periodic?
          now,        \* the number of the sensor's newest measurement
          dataReady,  \* the sensor's own flag
          timer,      \* does poll_timer run?
          pollWork,   \* is poll_work submitted?
          poll,       \* where poll_work_handler stands
          words,      \* its locals co2_ppm, temp_001c and rh_001pct
          lock,       \* owner of the chip stack lock
          attrs,      \* the four measured attributes
          last,       \* last_reading
          scd,        \* where cmd_scd stands
          seen,       \* its copy of last_reading
          overtaken   \* history: a reading was stored while it was being copied

sensor     == <<measuring, now, dataReady>>
initVars   == <<init, timer>>
pollVars   == <<pollWork, poll, words, attrs, last>>
scdVars    == <<scd, seen>>
sensorVars == <<initVars, tries, sensor, pollVars, lock, scdVars, overtaken>>

Numbers == 0 .. MaxReading
Words   == [co2 : Numbers, temp : Numbers, rh : Numbers]
NoWords == [co2 |-> 0, temp |-> 0, rh |-> 0]

SensorTypeOK ==
    /\ init \in {"called", "stop", "start", "done", "failed"}
    /\ tries \in 0 .. Attempts - 1
    /\ measuring \in BOOLEAN /\ now \in Numbers /\ dataReady \in BOOLEAN
    /\ timer \in BOOLEAN /\ pollWork \in BOOLEAN
    /\ poll \in {"idle", "askReady", "readReady", "askData", "readData", "lock",
                 "temp", "rh", "quality", "co2", "unlock", "store"}
    /\ words \in Words /\ last \in Words
    /\ lock \in {"free", "poll", "matter"}
    /\ attrs \in [temp : Numbers, rh : Numbers, quality : Numbers, co2 : Numbers]
    /\ scd \in {"idle", "copy", "print"} /\ seen \in Words
    /\ overtaken \in BOOLEAN

\* The sensor keeps its supply over a reboot: it may be measuring already.
SensorInit ==
    /\ init = "called" /\ tries = 0 /\ timer = FALSE
    /\ measuring \in BOOLEAN /\ now = 0 /\ dataReady = FALSE
    /\ pollWork = FALSE /\ poll = "idle" /\ words = NoWords
    /\ lock = "free"
    /\ attrs = [temp |-> 0, rh |-> 0, quality |-> 0, co2 |-> 0]
    /\ last = NoWords
    /\ scd = "idle" /\ seen = NoWords /\ overtaken = FALSE

\* The same from any state, except for the sensor itself.
SensorReset ==
    /\ init' = "called" /\ tries' = 0 /\ timer' = FALSE
    /\ pollWork' = FALSE /\ poll' = "idle" /\ words' = NoWords
    /\ lock' = "free"
    /\ attrs' = [temp |-> 0, rh |-> 0, quality |-> 0, co2 |-> 0]
    /\ last' = NoWords
    /\ scd' = "idle" /\ seen' = NoWords /\ overtaken' = FALSE
    /\ UNCHANGED sensor

-----------------------------------------------------------------------------
(* The sensor: it measures and keeps the newest result until it is read *)

Measure == /\ measuring
           /\ now' = (now % MaxReading) + 1
           /\ dataReady' = TRUE
           /\ UNCHANGED <<measuring, initVars, tries, pollVars, lock, scdVars, overtaken>>

-----------------------------------------------------------------------------
(* scd40_write_cmd: a command is tried until it is acknowledged *)

Nack == tries < Attempts - 1 /\ tries' = tries + 1

\* The last try failed, too.
Unanswered == tries = Attempts - 1 /\ tries' = 0

-----------------------------------------------------------------------------
(* scd40_manager_init *)

I2cMissing == /\ init = "called"
              /\ init' = "failed"
              /\ UNCHANGED <<timer, tries, sensor>>

I2cReady == /\ init = "called"
            /\ init' = "stop"
            /\ UNCHANGED <<timer, tries, sensor>>

\* The result of the stop command is ignored.
StopWritten == /\ init = "stop"
               /\ \/ tries' = 0 /\ init' = "start" /\ measuring' = FALSE
                  \/ Nack /\ UNCHANGED <<init, measuring>>
                  \/ Unanswered /\ init' = "start" /\ UNCHANGED measuring
               /\ UNCHANGED <<timer, now, dataReady>>

StartWritten == /\ init = "start"
                /\ tries' = 0
                /\ init' = "done"
                /\ measuring' = TRUE
                /\ timer' = TRUE
                /\ UNCHANGED <<now, dataReady>>

\* Mutant of StartFails: the sensor is polled all the same.
StartFailsIgnored == /\ init = "start"
                     /\ \/ Nack /\ UNCHANGED <<init, timer>>
                        \/ Unanswered /\ init' = "done" /\ timer' = TRUE
                     /\ UNCHANGED sensor

StartFails == /\ init = "start"
              /\ \/ Nack /\ UNCHANGED init
                 \/ Unanswered /\ init' = "failed"
              /\ UNCHANGED <<timer, sensor>>

SensorStart == /\ I2cMissing \/ I2cReady \/ StopWritten \/ StartWritten \/ StartFails
               /\ UNCHANGED <<pollVars, lock, scdVars, overtaken>>

-----------------------------------------------------------------------------
(* poll_timer_handler and poll_work_handler *)

\* A work item that is still queued is not queued twice.
Tick == /\ timer
        /\ pollWork' = TRUE
        /\ UNCHANGED <<initVars, tries, sensor, poll, words, attrs, last, lock, scdVars,
                       overtaken>>

Step(from, to) == poll = from /\ poll' = to

PollStart == /\ Step("idle", "askReady")
             /\ pollWork
             /\ pollWork' = FALSE
             /\ UNCHANGED <<initVars, tries, sensor, words, attrs, last, lock, scdVars,
                            overtaken>>

polling == <<initVars, pollWork, attrs, last, lock, scdVars, overtaken>>

\* SCD40_CMD_DATA_READY and SCD40_CMD_READ_MEASUREMENT.
Written == /\ Step("askReady", "readReady") \/ Step("askData", "readData")
           /\ tries' = 0
           /\ UNCHANGED <<polling, sensor, words>>

NotWritten == /\ poll \in {"askReady", "askData"}
              /\ \/ Nack /\ UNCHANGED poll
                 \/ Unanswered /\ poll' = "idle"
              /\ UNCHANGED <<polling, sensor, words>>

\* Mutant of ReadReady: the mask hides every bit.
ReadReadyMasked == /\ Step("readReady", "idle")
                   /\ UNCHANGED <<polling, tries, sensor, words>>

\* The checksum of this word is not looked at: any answer may arrive.
ReadReady == /\ \/ Step("readReady", "askData")
                \/ Step("readReady", "idle")
             /\ UNCHANGED <<polling, tries, sensor, words>>

ReadData == /\ Step("readData", "lock")
            /\ dataReady
            /\ dataReady' = FALSE
            /\ words' = [w \in DOMAIN words |-> now]
            /\ UNCHANGED <<polling, tries, measuring, now>>

\* Mutant of ReadFails: the words that were checked before the bad one are kept
\* and the error is lost.
ReadFailsHalfway == /\ Step("readData", "lock")
                    /\ dataReady' = FALSE
                    /\ words' = [words EXCEPT !.co2 = now]
                    /\ UNCHANGED <<polling, tries, measuring, now>>

\* The sensor does not answer (it has nothing to say, for one) or a checksum is
\* wrong; in the latter case the measurement is lost.
ReadFails == /\ Step("readData", "idle")
             /\ dataReady' \in {dataReady, FALSE}
             /\ UNCHANGED <<polling, tries, measuring, now, words>>

storing == <<initVars, tries, sensor, pollWork, words, scdVars>>

LockStack == /\ Step("lock", "temp")
             /\ lock = "free"
             /\ lock' = "poll"
             /\ UNCHANGED <<storing, attrs, last, overtaken>>

SetTemp == /\ Step("temp", "rh")
           /\ attrs' = [attrs EXCEPT !.temp = words.temp]
           /\ UNCHANGED <<storing, last, lock, overtaken>>

SetHumidity == /\ Step("rh", "quality")
               /\ attrs' = [attrs EXCEPT !.rh = words.rh]
               /\ UNCHANGED <<storing, last, lock, overtaken>>

SetAirQuality == /\ Step("quality", "co2")
                 /\ attrs' = [attrs EXCEPT !.quality = words.co2]
                 /\ UNCHANGED <<storing, last, lock, overtaken>>

SetCo2 == /\ Step("co2", "unlock")
          /\ attrs' = [attrs EXCEPT !.co2 = words.co2]
          /\ UNCHANGED <<storing, last, lock, overtaken>>

UnlockStack == /\ Step("unlock", "store")
               /\ lock' = "free"
               /\ UNCHANGED <<storing, attrs, last, overtaken>>

StoreLast == /\ Step("store", "idle")
             /\ last' = words
             /\ words' = NoWords
             /\ overtaken' = (overtaken \/ scd = "copy")
             /\ UNCHANGED <<initVars, tries, sensor, pollWork, scdVars, attrs, lock>>

\* The Matter thread, and with it every controller, has the lock now and then.
MatterLocks == /\ lock = "free" /\ lock' = "matter"
               /\ UNCHANGED <<initVars, tries, sensor, pollVars, scdVars, overtaken>>

MatterUnlocks == /\ lock = "matter" /\ lock' = "free"
                 /\ UNCHANGED <<initVars, tries, sensor, pollVars, scdVars, overtaken>>

-----------------------------------------------------------------------------
(* cmd_scd: the structure is copied in two machine words, the second of which   *)
(* holds rh_001pct and valid                                                    *)

idleScd == <<initVars, tries, sensor, pollVars, lock>>

CopyFirst == /\ scd = "idle"
             /\ scd' = "copy"
             /\ seen' = [last EXCEPT !.rh = 0]
             /\ UNCHANGED <<idleScd, overtaken>>

CopySecond == /\ scd = "copy"
              /\ scd' = "print"
              /\ seen' = [seen EXCEPT !.rh = last.rh]
              /\ UNCHANGED <<idleScd, overtaken>>

\* The reading, or, if it is not valid (NoWords), a warning.
PrintReading == /\ scd = "print"
                /\ scd' = "idle"
                /\ seen' = NoWords
                /\ overtaken' = FALSE
                /\ UNCHANGED idleScd

-----------------------------------------------------------------------------
Poll == \/ PollStart \/ Written \/ NotWritten \/ ReadReady \/ ReadData \/ ReadFails
        \/ LockStack \/ SetTemp \/ SetHumidity \/ SetAirQuality \/ SetCo2
        \/ UnlockStack \/ StoreLast

ShellScd == CopyFirst \/ CopySecond \/ PrintReading

-----------------------------------------------------------------------------
(* Properties *)

\* Temperature, humidity, air quality and CO2 are of one measurement whenever a
\* controller can read them, and none of them is the rest of a poll that failed
\* half-way.
AttributesAreOneReading ==
    lock # "poll" => \E n \in Numbers : \A a \in DOMAIN attrs : attrs[a] = n

\* What "ac scd" prints is one measurement, if no poll stored another one between
\* the two halves of its copy (scd40_manager.cpp:174 and 178 share no lock).
PrintIsOneReading ==
    scd = "print" /\ ~overtaken => seen.co2 = seen.rh

\* A sensor that has not accepted the start command is not polled: the poll keeps
\* the system workqueue, which the ACK detection needs, asleep for 6 s each time.
PollsOnlyIfStarted == timer \/ pollWork \/ poll # "idle" => init = "done" /\ measuring
=============================================================================
