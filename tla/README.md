# Shirokumakun-Matter: TLA+ models and proofs

TLA+ models of the firmware under `src/src/`: a Matter-over-Thread controller
for a Hitachi air conditioner. It turns Matter attributes into infrared frames,
listens for the 2 kHz beep with which the AC acknowledges one, reads a CO2
sensor and offers a USB shell. The modules are checked with TLC on small
instances, and what matters most is proved with TLAPS for every value of the
constants.

Contents: 1 inventory, 2 modules and their code, 3 runs, 4 bounds, 5 scheduling
and fairness, 6 where code and documentation disagree, 7 proofs, 8 what is left
out, 9 plan.

## 1. Inventory

### Threads and contexts

| context | priority | runs |
|---|---|---|
| interrupts | above all | `pdm_event_handler`, `blink_timer_fn`, `stop_timer_fn`, `poll_timer_handler` |
| system workqueue | cooperative | `pdm_process_work_handler`, `poll_work_handler`, `blink_work_fn` |
| Matter (chip) thread | above the two below | attribute writes, Identify delegate; holds the chip stack lock |
| main thread | | `AppTask::Init`, then idle |
| `ir_dispatch_thread` | preemptible 10 | `ir_dispatch_thread_fn` -> `ir_send_command` |
| shell thread | lowest | `ac ...`, `matter ...`, `reboot` |

### Components

| component | state | operations | correct if |
|---|---|---|---|
| **IR dispatch** (`ir_driver.cpp` 49-77, 153-165) | pending and active frame, mutex, binary semaphore, attempt counter | `ir_dispatch_command`, dispatch thread, `ir_send_command` | frames are never torn, no command is stored without a wake-up, the newest command is sent, old ones do not pile up |
| **IR waveform** (`ir_driver.cpp` 79-151) | PWM registers, one duty word | `ir_driver_init`, `ir_transmit`, `load_duty` | pulse timing (real time, not modelled) |
| **IR protocol** (`ir_protocol.cpp`) | none | `ac_encode_pulses` | the AC reads back the state that was asked for |
| **ACK detection** (`pdm_manager.cpp`) | two buffers, ready index and flag, capture flag, ACK semaphore, verbose flags, driver state | `start_listen`, `collect_ack`, work handler, interrupt, `verbose_start`, `verbose_stop` | an ACK belongs to its own transmission, a beep is not missed, the microphone is on only while somebody wants it |
| **Attribute callbacks** (`zcl_callbacks.cpp`) | `last_sent`, `last_sent_valid`, `ir_ready` | boot snapshot, `MatterPostAttributeChangeCallback` | the AC follows the attributes; booting is silent |
| **Identify LED** (`identify_led.cpp`) | two timers, work item, `blink_on`, the LED | start, stop, effect, shell trigger | blinks while an Identify runs, stops afterwards |
| **SCD40 sensor** (`scd40_manager.cpp`) | timer, work item, last reading, the cluster attributes | poll every 15 s with up to 60 retries per command, `get_last_reading` | readings are consistent and arrive; a failed read changes nothing |
| **Pairing credentials** (`hw_pairing.cpp`) | derived values, lazily built verifier | getters of `CommissionableDataProvider` | the passcode is a legal one; a verifier is served only when complete |
| **Detection threshold** (`pdm_manager.cpp` 53-62, 235-241, 267-279) | float in RAM and in settings | load at boot, `ac threshold` | what was confirmed is what is used and kept |
| **Application task** (`app_task.cpp`, `main.cpp`) | boot order | `Init`, task loop | components are used only once they are initialised |
| **Shell** (`shell_commands.cpp`) | none of its own | `ac off|scd|cfar|threshold`, `matter ...`, `reboot` | what it prints is what happened |
| **QR code** (`qrcodegen.c`, `cmd_qr`) | the symbol and the lines on the terminal | `qrcodegen_encodeText`, rendering | a standard reader gets the pairing payload back |
| **Data model** (`zap-generated/`) | the stack's attribute block; tables that point into each other by position | attribute writes, events, commands, descriptions | no attribute overlaps another, what is offered is served, the descriptions agree |
| Board and build files | | | no behaviour of their own |

### How they interact

```
 controller --write--> attributes --callback--> zcl_callbacks --ac_encode_pulses-->
   ir_dispatch_command --mailbox--> dispatch thread --ir_transmit--> AC
                                       |   ^
                          start_listen |   | ack_sem          AC --beep--> microphone
                                       v   |                                  |
                                    pdm_manager <--work item-- workqueue <--interrupt
 shell: "ac off" -> ir_dispatch_command; "ac cfar" -> pdm_manager; "matter identify" -> LED
 SCD40 poll (workqueue): sleeps there while it retries; sets LocalTemperature,
                         which is a Thermostat attribute and runs the callback, too
```

What is hard: three owners of the microphone's start and stop (dispatch thread,
shell on, shell off), a workqueue shared by the ACK detection and a sensor poll
that sleeps on it, a snapshot of attributes that is taken while they may be
written, state that is remembered as sent before anybody knows whether it
arrived, a boot that goes on for seconds while shell and dispatch thread already
run, a reading that is stored and copied without a lock, and an LED that several users start and stop without counting. The
list of hazards, each at its line and with the properties that watch it, is
`"hazards"` in `PROJECT.json`.

## 2. Modules and the code they model

Line by line correspondence is `"map"` in `PROJECT.json`. Operators marked
"Mutant of ..." are faulty variants of a definition; nothing in the
specifications uses them. Each property has one, and TLC finds the property
violated when it takes the definition's place.

**LatestMailbox** - what `ir_dispatch_command` promises (`ir_driver.h` 41-46):
a one-place mailbox in which a new command replaces the queued one. `slot` is
the newest command, `fetched` the one the consumer took last, `owed` says that
the consumer is bound to look again. An owed command is fetched or replaced in
the end.

**CommandSource** - the other side of the hand-over: what the dispatch side sees of
everything that asks the AC for a state. `recorded` is what the source believes to
have asked for last, `latest` the frame dispatched last. A frame is dispatched
only if it differs from the recorded one, and is recorded with it; `Off` goes past
the record; between `Restart` and `Declare` there is no record and nothing is sent.
ZclCallbacks implements it in all its steps; AcController is made of its actions.

**IrDispatch** - the implementation. A frame is a function from parts to the
command a part belongs to (part 0 the pulse count, the others chunks of
pulses), copied part by part, so that a torn frame is a state of the model.
Every statement of `ir_dispatch_command` and `ir_dispatch_thread_fn` is an
action; `Transmit`, `Acked`, `NotAcked` and `GiveUp` are the retry loop of
`ir_send_command`, with the listen window's outcome left open. `staleTx` is a
history variable: how many superseded frames went on the air since the newest
one was stored. `Mailbox` is the refinement mapping: the slot is the last part
of the pending buffer, what was fetched the last part of the active one, and
`owed` says that the semaphore is given, about to be given, or that the thread
is on its way to the buffer.

**AcController** - the whole way of a command, one level up: a callback posts a
frame into a `LatestMailbox` and records it, the dispatch thread fetches and
transmits it up to `IR_RETRY_COUNT` times, an AC hears an attempt or not, its
beep is heard or not, and `GiveUp` tells nobody. It is composed of the two
interfaces: `Send` and `ShellOff` are actions of CommandSource conjoined with `Post`,
`Fetch` is that of the mailbox. What stands behind the interfaces is shown by their
implementers: ZclCallbacks implements CommandSource (`ImplementsSource`, checked and
proved), so that the one-step `Send` stands for `Encode`, `DispatchFrame` and `Record`
with whatever comes between them; IrDispatch implements the mailbox
(`ImplementsMailbox`, checked and, for safety, proved). `LinkChanges` (external) takes
the AC out of reach and back at any time, also between two attempts. The history
variable `struck` says whether that has touched the frame the thread has.

**IrProtocol** - `encode_raw`, `encode_command` and `ac_encode_pulses` as
operators on the code's own byte values and timings, and a receiver to hold them to: it
checks preamble and complements and reads the fields back. `AcEncodePulses` gives the
pulses by their position in the buffer, not by appending them: a sequence that is
put together piece by piece cannot be reasoned about without induction.

**Conversions** - checksum and fixed-point arithmetic of the sensor
(`sensirion_crc`, `scd40_read_measurement`, `co2_to_air_quality`) and
`make_passcode`. **Calculations** applies these and IrProtocol to their inputs,
one function call per behaviour, and states what each result is for.

**Scd40Manager** - the sensor, `scd40_manager_init`, the poll on the workqueue
with its retries, the four attribute setters under the stack lock, and
`last_reading`, stored after the lock is released and copied by `ac scd` in two
halves. A reading is a number, so that a mixture of two is a state of the model.

**HwPairing** - `GetSpake2pVerifier` with its two failing steps.

**Device** - `AppTask::Init` step by step, each with its failures, composed with
Scd40Manager and HwPairing and with what already runs during boot: the shell,
the dispatch thread (reduced to one frame), the chip stack. It also has the
detection threshold (RAM, settings, the load at boot, `ac threshold`) and reboots.
`InSensor` and `InPairing` lift a component's action to the device. `scenario`
says what may happen in a behaviour.

**QrCode** - `qrcodegen.c` as far as `matter qr` reaches it. Bytes are polynomials
over GF(2), given as the sets of their exponents, symbols sets of dark modules.
**QrReader** goes through `qrcodegen_encodeSegmentsAdvanced` stage by stage
(`Choose`, `Fill`, `Draw`, `Mask`), prints the symbol line by line as `cmd_qr`
does, and then scans the terminal (`Collect`, `Decode`, `Unpack`) with a reader
built from the standard's tables, not from the encoder. What the C code draws in loops
is given in closed form where proofs are about it: the k-th module of the zigzag,
the two places of a format bit, penalties as numbers of windows.

**EndpointConfig** and **StaticConfig** - ZAP's tables, translated entry by entry
without types and defaults. **DataModel** walks them the way the stack does:
addresses by adding up sizes, cluster functions by counting mask bits, commands
by list and by dispatcher.

**PdmManager** - the listen window. The dispatch thread goes `BeginListen`
(`k_sem_reset`), `Clear`, `Arm`, `Start`, `AckTaken` or `Timeout`, `Disarm`,
`Stop`; the interrupt is `BufferFull` and `Stopped`; the work item is
`ClaimNothing`, `Claim`, `Copy` and `Verdict`; the shell is `CfarOn`/`OnCheck`/`OnStart`
and `CfarOff`/`OffStop`. A buffer is what one would hear in it: quiet or beep.
Interrupts come also while the work item copies it, so that `Copy` may find two
recordings in one buffer and take them for either; and the kernel's timer ends the
wait also while the work item runs.
External: the nrfx driver with its states idle, running and stopping
(`nrfx_pdm_stop` is asynchronous, and its STOPPED event gives back both buffers
with the samples they hold), and the two scheduling predicates of section 5.
`heard`, `cut` and `due` are history variables; `due` follows one beep from the
interrupt until somebody has taken it, or until something has come between.

**ZclCallbacks** - the path from attributes to AC states. `ReadOnOff` ...
`Publish` is the boot snapshot, one action per attribute read, since it takes
no lock; `AttributeChange` and `TempReport` start the callback, which is
`NotReady`, `Skip` or `Encode`, `DispatchFrame`, `Record`. `ShellOff` is
`ac off`, `Reboot` a warm reboot, which keeps OnOff and resets the rest
(the attributes' storage in `ac_controller.zap`). `air` is the AC's own state; a
dispatched frame counts as received here. The history variable `astray` is set
by what goes past `last_sent` (a write during boot, `ac off`, a reboot) and
cleared by the next dispatched frame. `Source` is the refinement mapping: a frame
counts as recorded from its dispatch on, two statements before `last_sent` is
assigned, and there is no record while `last_sent_valid` is false.

**IdentifyLed** - one step per statement of `start_blink` and `stop_blink`, on
the Matter thread or the shell thread, with the timers expiring at any time
and the toggling on the workqueue. `identify` is the set of endpoints whose
Identify timer runs. `effect`, `late` and `shared` are history variables: `late` says
that a `blink_work` was still to run when the LED was switched off last, `shared` that
since the Matter thread started the blinking last an Identify has ended or the shell has
armed its timer, which ends the blinking for everybody.

The MC modules extend a specification and give it TLC values; the `.cfg`
files choose the scenario with boolean constants (`Verbose`, `EarlyWrites`,
`ShellOffs`, `Reboots`, `Effects`, `Shell`) or with `Scenarios`.

## 3. Runs

| run | distinct states | checks | shows |
|---|---|---|---|
| MCIrDispatch | 48517 | `TypeOK`, `FrameIsWhole`, `NoLostWakeup`, `BoundedStaleness`, `ImplementsMailbox`, `LatestIsSent` | two producers and the dispatch thread in every order |
| MCAcController | 4253 | `FollowsLastWord`, `ArrivesInReach` | retries, outages and replaced commands, from the attribute to the AC |
| MCPdmManager | 79880 | `AckIsFreshUnlessCut`, `BeepIsAcked`, `MicHasOwner`, `MicGoesOff` | windows, interrupts, sensor polls and the CFAR stream in every order |
| MCZclCallbacks | 106102 | `TypeOK`, `BootSilent`, `AcFollows`, `CatchesUp`, `ImplementsSource` | writes at any time, `ac off`, reboots |
| MCIdentifyLed | 15882 | `BlinkHasOwner`, `IdentifyKeepsBlinking`, `LitOnlyIfLate`, `IdentifyEndsBlinking` | two endpoints, effects and the shell on one LED |
| MCDevice | 72992 | `AttributesAreOneReading`, `PrintIsOneReading`, `PollsOnlyIfStarted`, `VerifierIsWhole`, `ThresholdIsKept`, `BootCompletes`, `SensorIsHeard` | every failure during boot, and what runs meanwhile |
| MCCalculations | 135016 | `RoundTrip`, `AirTimeIsFixed`, `ReadingIsExact`, `CorruptionIsSeen`, `PasscodeIsValid` | the pure functions on all or on the critical inputs |
| MCQrReader | 370 | `ScansBack`, `PrintsBestFit`, `ModulesAreRead` | texts at the limits of modes and versions, to the terminal and back |
| MCDataModel | 6120 | `ReadsBack`, `CallsItsOwn`, `OffersWhatItDoes`, `DescriptionsAgree` | every attribute, event, command and cluster of the tables |
| MCPdmFalseAck | | `AckIsFresh` violated | see section 6 |
| MCZclEarly | | `ChangeIsSent` violated | |
| MCBootTransmit | | `ListensOnlyIfInitialised` violated | |

Deadlock is checked except where the system comes to an end: MCCalculations and
MCQrReader (one computation each), and MCDevice and MCBootTransmit, where the boot
may end in "aborted" or a fault may halt the kernel (`CONFIG_RESET_ON_FATAL_ERROR=n`,
`prj.conf`).

## 4. Bounds

* MCIrDispatch: two producers are all there are that can overlap (the chip stack
  lock serialises the Matter thread and the workqueue; the other is the shell).
  Two commands are the least that can be mixed up, a frame of two parts the
  least that can be torn, three attempts the least with a first, a middle and a
  last. The theorems of section 7 hold for any of these.
* MCAcController: three states and the off frame, so that a frame may be replaced
  by a third one while the first is retried; three attempts. The link is good or bad
  and changes at any time: a good one carries the last attempt of a burst at the
  latest if it stays good throughout, over a bad one anything goes, also a false ACK.
  `FollowsLastWord` is proved for any frames and attempts.
* MCPdmManager has no bounds: the component is finite once a buffer is one
  sample, and TLC visits all of it.
* MCZclCallbacks: system modes 1 (the default, not mapped: cooling at 24), 3 and
  4 use all three sources of the setpoint; 2450 truncates to the fixed 24
  degrees, 3200 is clamped; two fan modes. Other values take the same branches;
  `TempInRange` and `TempIsSetpoint` cover all setpoints. The AC starts in the
  state the attributes stand for, the best case; `Reboot` produces the others.
* MCIdentifyLed: two endpoints of three; endpoints only matter as a set that is
  empty or not, and the three invariants are proved for any set.
* MCDevice: `Attempts = 2` for 60 (a first and a last try), `MaxReading = 2` (two
  measurements that differ; more only repeat), one threshold besides the default,
  one reboot. `Combinations` names what is explored together; what is left apart
  shares no variable but the stack lock. All five invariants are proved without
  these bounds.
* MCCalculations: all 720 states the callers can ask for, all 65536 raw words, all
  one- and two-bit errors in four words (the code is linear, so that which
  errors are seen does not depend on the word), hashes around every forbidden
  passcode. All five properties are proved for every input.
* MCQrReader: ten texts up to the 63 characters of `qr_str`: each mode, the empty
  text, texts that leave 0 or 1 bit for the terminator, levels that are boosted,
  and one or two blocks; they use versions 1 to 4. That version and level
  are right is held against the standard's capacity tables, and proved for every
  text up to that length (`PrintsBestFit`); so is what the reader makes of the
  terminal before it decodes (`ModulesAreRead`).
* MCDataModel: the tables themselves are the instance. `MaxWrites = 1`: every byte
  of the block says whose it is, so that one write shows any overlap.

No state constraint is used. `staleTx` is bounded by what it counts.

## 5. Scheduling and fairness

* IrDispatch interleaves its threads in any way, which covers every assignment
  of priorities. The producers and the thread get weak fairness: Zephyr runs
  what is runnable. Taking the mutex gets strong fairness: `k_mutex_unlock` hands
  it to the waiter directly. Nobody is obliged to issue a command, and no ACK
  is assumed.
* AcController: the dispatch thread runs on, nothing else is assumed. The link may
  change for ever or not at all.
* PdmManager and IdentifyLed use the build's priorities, since arbitrary
  interleavings would report races that cannot happen. `QueueYields` says that
  the cooperative workqueue lets threads run: it is idle, or its handler sleeps.
  The shell runs only while the threads above it are blocked. A transmission is
  a busy-wait, so the shell does not run in it, but `disp = "transmit"` also
  stands for the dispatch thread waiting for a command.
* `[]<>QueueYields` is the assumption that the workqueue is not saturated: a
  buffer takes 64 ms to fill and a few to examine, a blink ticks every 250 ms.
* Steps of threads below the queue get strong fairness, because the queue
  disables them again and again. Expiring timers and arriving interrupts get weak
  fairness. Nobody is obliged to type a command or to write an attribute.
* ZclCallbacks: both threads keep running, and the sensor is polled for ever; the
  poll gets the stack lock however often controllers write (strong fairness).
  A report reaches the callback when the reading differs from the last one, in
  hundredths of a degree, so it is assumed to differ again and again. A device
  without a sensor has no temperature reports and no `CatchesUp`.
* Device: main thread, timer, workqueue and sensor run on (weak fairness). For
  `SensorIsHeard` each command of a poll succeeds if it is tried again and again,
  and the poll gets the lock if it is free again and again (strong fairness); for
  `BootCompletes` none of that is needed. The stack releases its lock. Both
  properties except a kernel that a fault has halted. The shell is one thread
  with one command at a time (`Prompt`).

## 6. Where code and documentation disagree

Three disagreements have a run whose property says what a comment promises.

* **A false ACK** (MCPdmFalseAck). `ac cfar off` stops the driver without asking
  whether a listen window is open. The STOPPED event gives back the queued buffer
  with the samples of an earlier window; the window is still open, and an old
  beep in it becomes the ACK of a frame the AC may never have got.
* **An early write is lost** (MCZclEarly). A write between `StartServer` and the
  end of `zcl_callbacks_ready` finds `ir_ready` false; if it comes before its
  attribute is read, the snapshot records it as sent. The window lasts more than
  1.5 s, because `scd40_manager_init` sleeps in between. If it comes after the
  read, the next temperature report sends it (`CatchesUp`).
* **A transmission before boot ends** (MCBootTransmit). "Enable IR transmission now
  that init is complete" (`app_task.cpp:98`) holds for the callbacks only: `ac off`
  goes to the dispatch thread, which has been running from the start, and waits
  for the ACK with a semaphore `pdm_manager_init` has not initialised yet.

Others are described by the models and have no run of their own:

* **The LED stays lit** (`late` in IdentifyLed). "The LED blinks while the Matter Identify timer
  counts down" (`identify_led.cpp:5`), but `stop_blink` leaves a `blink_work` pending that
  the blink timer has submitted. If the sensor poll sleeps on the workqueue meanwhile,
  the work item runs after the LED was switched off, toggles it on, and nothing
  switches it off again. `LitOnlyIfLate`, which is proved, says that there is no other
  way to a lit LED; without its exception `late` TLC finds this one.
* The stream dies: every window stops the driver at its end (`pdm_manager.cpp:182`),
  also when `ac cfar on` had started it ("Stream CFAR power readings", `README.md:28`);
  the flags go on saying that it runs. `MicHasOwner` is what remains.
* "PDM capture is only active during the listen window opened by the IR driver"
  (`pdm_manager.h:5-6`): it is also active while `ac cfar on` streams
  (`pdm_manager.cpp:248`). `MicHasOwner` names both owners.
* A beep is missed: the detection shares the workqueue with the SCD40 poll, which
  sleeps there for up to 6 s per command (`scd40_manager.cpp:92`); the window is 1 s
  (`ir_driver.h:33-35`). The command is then sent again although it was acknowledged.
  `BeepIsAcked`, which is proved, says that nothing but the queue's being late loses
  one: the poll, a second buffer before the first is examined, or the timeout itself.
* `ac off`, then on: `cmd_off` does not touch `last_sent` (`shell_commands.cpp:36`). A
  controller that then asks for the state it had asked for last is skipped
  (`zcl_callbacks.cpp:146`). `AcFollows` excepts it; `FollowsLastWord` says that the AC then has
  what it was told last, which is "off".
* Who goes unheard stays unheard: the result of `ir_send_command` is thrown away
  (`ir_driver.cpp:64`), and the state is already recorded as sent. `FollowsLastWord`
  says that it takes an outage during the very last transmission, and `ArrivesInReach`
  that the next command gets through again.
* A warm reboot: the attributes but OnOff go back to their defaults, the snapshot
  declares these sent, and the AC goes on with what it had. `AcFollows` excepts it.
* "Persisted across reboots" (`README.md:29`): when `settings_save_one` fails it is only
  logged (`pdm_manager.cpp:273-275`), the shell prints "Set and saved"
  (`shell_commands.cpp:89`), and the old threshold is back after a reboot. The load at
  boot (`pdm_manager.cpp:236`) may also come between the two halves of the command and
  put the old value back into RAM. `ThresholdIsKept` excepts both by `adrift`.
* `scd40_manager.cpp:11` names `TemperatureMeasurement::MeasuredValue` of endpoint 1. Only
  `LocalTemperature` of its Thermostat is set; the endpoint has no such server cluster,
  only a client.

* An effect never ends (`identify_led.cpp:62`), and takes over a shell blink that
  would. `BlinkHasOwner` excepts it.
* The first to finish stops all (`identify_led.cpp:61`): with two Identifies running,
  the end of one stops the LED. The shell's 5 s timer does the same to an Identify, if it
  is armed after its start. `IdentifyKeepsBlinking`, which is proved, excepts these two
  by `shared` and says that nothing else ends the blinking of a running Identify.
* `ac off` "immediately" (`shell_commands.cpp:28`) may wait for ten attempts of an
  older frame, which is what `BoundedStaleness` bounds.
* A frame takes 0.59 s, not the 1.2 s of `ir_driver.h:28` (`AirTimeIsFixed`); the
  sensor is polled every 15 s (`scd40_manager.cpp:39`), not 30 s (`app_task.cpp:89`,
  `scd40_manager.h`).
* `ac scd` ("the most recent SCD40 reading", `README.md:27`) may print a mixture of two readings when a poll stores one during its
  copy, or a reading of zeros as valid when that is the first. The answer to
  "data ready" is used without its checksum.
* `hw_pairing.h` lets `Init` build the verifier; it is built on first use.
* In the data model: the Thermostat's FeatureMap default is 0x03 in
  `endpoint_config.h:607` and 0x23 in its static configuration and in
  `ac_controller.matter`; the static configuration of carbon dioxide lacks two attributes
  (`KnownGap`); the static configuration of Identify knows endpoint 1 only;
  `app/cluster-callbacks.cpp` lacks OnOff; the cooling limits up to 32 degrees
  and the heating limits up to 30 are wider than what a frame can ask for.

## 7. Proofs

Checked by `tlapm` without assumptions other than the named ones on constants,
which TLC evaluates in the runs. Every invariant that a passing run checks is proved,
except `ScansBack` of QrReader and the four of DataModel (see the end of this section).
So is type correctness of every module that has a `TypeOK`; the runs of AcController,
PdmManager, IdentifyLed and Device leave it to the proof.

**IrDispatchProofs**, for any producers, commands, frame length and retry count.
None of the properties is inductive; the invariant is built in layers, each
using the ones before:

1. `TypeOK`.
2. `Locking`: who is between lock and unlock owns the mutex.
3. `Buffers`: nobody else writes the pending buffer, so it is whole unless its
   owner is writing, and what has been copied so far equals it.
4. `NoLostWakeup`: if pending and active frame differ, somebody will wake the
   thread. Layer 3 says that they agree after a copy.
5. `Staleness`: the count of stale transmissions follows the attempt counter.

Theorems: `TypeCorrect`, `FrameIsWholeCorrect`, `NoLostWakeupCorrect`,
`BoundedStalenessCorrect`, and `SafetyRefinement`: initial states map to initial
states of `LatestMailbox` and every step to a `Post`, a `Fetch` or a stutter.

**AcControllerProofs**, for any frames and number of attempts. `Supplied` (what the
thread is bound to fetch, and what it has, are frames) gives types;
`FollowsLastWordCorrect` rests on two invariants. `Following`: `last_sent` is the wanted
state; the mailbox holds nothing, that state or the off frame; while the thread owes
no fetch the mailbox holds what it fetched last; and an AC that heard the last burst
has the fetched frame. `Answerable` is about the bursts nobody heard, which the thread
cannot tell from the others: a link that is bad during one is remembered, after the
last attempt the frame has been heard or the link was struck, and so has any frame the
thread is done with.

**ZclCallbacksProofs**, for any attribute values. `TempInRange` and
`TempIsSetpoint` are about the conversion alone. `SnapshotInv` says that, as long
as no attribute changes, what the snapshot has read is still true and
`last_sent` is what the attributes stand for; it gives `BootSilentCorrect`.
`FollowInv` follows a state from the attributes through `frame` and `air` to
`last_sent`, as long as nothing went past it; it gives `AcFollowsCorrect`.
`ImplementsSourceCorrect` maps every step to a step of CommandSource or to none. It
needs `SourceInv`: `last_sent` cannot change between the comparison and the
dispatch, since the snapshot, the only other one to write it, is published by then.

**PdmManagerProofs**. `Owned` adds to `MicHasOwner` that a driver running in the
first steps of a window belongs to the stream. `Excused` is what may stand behind an
ACK: a beep of this transmission, or a shell stop recorded in `cut`. `Fresh` says
that from "clear" on whatever the window knows is excused: a beep that is available,
one being examined, a count in `ack_sem`, the result. It needs the middle cases,
because at the program point where the result appears nothing shows any more where
it came from. `BeepIsAckedCorrect` is the other direction. `OnItsWay` is where a beep
that is due may be: in the released buffer with the work item submitted, in the copy
and in the buffer copied, in what is being examined, in `ack_sem`. `Passed` adds what
keeps it there: the capture flag is up, the buffer is not the one the DMA fills, and
the driver runs, because no thread that could stop it gets the processor before the
queue is done.

**IdentifyLedProofs**, for any set of endpoints: `Answered` says that a running blink
timer has an active Identify, a running stop timer or effect, the Matter thread on
its way to stop it, or the shell command that runs it. `Kept` says that while an Identify
runs unshared the blink timer runs and the stop timer does not, so that one left by an
earlier shell blink cannot expire under it. `Accounted` says that with the
timer stopped the LED is lit, or about to be written, only while the Matter thread is
on its way to switch it off or because of a late work item.

**DeviceProofs**, for any number of attempts, readings, thresholds and reboots. Two
frame lemmas come first: a step of the device moves the sensor manager, or the
credentials, only by a step of its own (`MovesSensor`, `MovesPairing`). Then each
invariant is carried over the steps of its component: `Whole` (the verifier is
complete where it is marked and copied), `Kept` (what "ac threshold" is about to
save is what RAM holds), `Stored` (which attributes already belong to the poll's
reading at each of its steps) and `Copied` (the first half of a copy is of the
last reading unless overtaken).

**CalculationsProofs**, for every input.

* The conversions for every raw value and the passcode for every hash, by the
  remainder that truncating division leaves and by what `hw_pairing.cpp:59` says: no
  two forbidden passcodes are adjacent.
* Frames (`RoundTripCorrect`): bit t of a field stands at a known position of the buffer, a
  byte is the sum of its bits, and a sum of shifted fields gives every field back.
* Air time (`AirTimeIsFixedCorrect`): `AirTime` counts the ones. Each byte that is
  followed by its complement has one `One` at one of two places for each of its
  bits, which gives a bijection with a set of known size.
* Checksum (`TwoFlipsAreSeen`): the code is linear over XOR, so that whether an error is
  seen does not depend on the word; what remains is that the checksums of the 24
  single-bit errors are not zero and differ from each other. TLC samples four words.

**QrReaderProofs**, for every text of `qr_str`. `FitsIsCapacity`: the encoder's test
whether a segment fits (polynomial, tables, sum of bits) agrees with the standard's
capacity table for every number of characters, version 1 to 4 and level. With it
`ChoiceIsBest` gives what `Chosen` decides, and `Drafted` carries it from stage to
stage to the last line on the terminal: `PrintsBestFitCorrect`. "QR encode failed" is
never printed.

`ModulesAreReadCorrect` goes on from there. `Painted` says what has been made of the
text at every stage; for the last step it needs that `BestMask` finds a mask, since of
eight integers one is the first smallest. On the terminal every module is then dark
just if it was drawn (`CellsAreModules`), and four facts about the two sides, each
found on its own way in the code and in the standard, do the rest:

* `FormatIsStandard`: the remainder loop, unrolled ten times and followed bit by bit
  (`CheckBits`), gives the 32 tabulated words; no two of them name the same
  level and mask (`FormatIsFound`), and drawing them disturbs neither each other nor
  the data (`FormatIsDrawn`, `FormatLeavesData`).
* `CopiesAreInPlace`: both copies stand where the standard has them.
* `FunctionsAreReserved`: the rectangles that the encoder keeps free, for versions 1 to
  4, are the reserved areas of the standard.
* `MaskIsUndone`: the standard's mask formulas undo the encoder's.

`ZigzagIsStandard` adds, for versions 1 to 9, that the encoder's k-th module is the
standard's.

Only model-checked:

* The liveness properties and the fairness part of `ImplementsMailbox`, which are out
  of TLAPS's reach here: `LatestIsSent`, `ArrivesInReach`, `MicGoesOff`, `CatchesUp`,
  `IdentifyEndsBlinking`, `BootCompletes`, `SensorIsHeard`.
* `ScansBack`: the ways from the text to the codewords and from the modules read back
  to the text go through folds over the data (segments, Reed-Solomon remainders, the
  syndromes, the sequence of data cells), and what a fold returns for every input
  takes induction. `PrintsBestFit` and `ModulesAreRead` are the parts of it in
  between: version, level, format, mask, placement and lines.
* The data model: its tables are one finite instance without parameters, and TLC
  visits all of it.

## 8. Not modelled, and why

* Pulse timing, PWM registers, the FFT and the CFAR arithmetic: real time and
  floating point. A detection is right about what it copied; a copy of two
  recordings (the workqueue would have to be 64 ms late) is taken for one of them.
* Matter itself: subscriptions, commissioning, persistence. Modelled as writes at
  any time and as what survives a reboot.
* FNV-1a and PBKDF2 (`hw_pairing.cpp`): the derived values are opaque, `make_passcode`
  takes any hash. The getters that return a field are left out.
* `qrcodegen.c`: ECI and byte-array segments, Kanji and buffer size computations, which
  the program does not call; versions above 9, which `cmd_qr` excludes.
* `zap-generated`: types, values of defaults, events and access flags of the
  attributes; declarations without behaviour. The defaults the callbacks
  depend on are constants of MCZclCallbacks.
* `matter info`, which only prints, and `matter reset`, which calls the SDK.
* Board, bootloader and build files have no behaviour of their own.

## 9. Plan

Done: the command path (IrDispatch, ZclCallbacks, AcController and the two interfaces
between them, LatestMailbox and CommandSource), ACK detection, Identify, sensor,
credentials, boot and threshold, the pure functions, QR code and data model, with
proofs for eight components.

Worth adding next, in this order:

1. A proof that Reed-Solomon remainders have no syndromes, over one block length at a
   time, where the loops can be unrolled as that of the format is.
2. QR versions 5 to 9 in a run of their own, if `qr_str` ever grows.
