---------------------------- MODULE ZclCallbacks ----------------------------
(***************************************************************************)
(* From Matter attributes to IR commands (zcl_callbacks.cpp): the callback *)
(* that turns the attributes of endpoint 1 into an AC state and dispatches *)
(* it if it differs from the last one, and the snapshot the main thread    *)
(* takes at the end of boot.  With them, "ac off" of the shell, which      *)
(* dispatches a frame of its own, and warm reboots.                        *)
(*                                                                         *)
(* The callback runs under the chip stack lock, on the Matter thread for a *)
(* write and on the workqueue for a temperature report; the snapshot and   *)
(* the shell do not take the lock.  A dispatched frame counts as received  *)
(* by the AC: IrDispatch and PdmManager are about that part.               *)
(***************************************************************************)
EXTENDS Integers

CONSTANTS SystemModes, CoolSetpoints, HeatSetpoints, FanModes,  \* values written by controllers
          DefaultAttrs,  \* the attributes' defaults in ac_controller.zap
          EarlyWrites,   \* may a controller write before the snapshot is published?
          ShellOffs,     \* is "ac off" used?
          Reboots        \* does the device reboot?

Attrs == [onOff : BOOLEAN, mode : SystemModes, cool : CoolSetpoints,
          heat : HeatSetpoints, fan : FanModes]

ASSUME SetpointAssumption == CoolSetpoints \subseteq Int /\ HeatSetpoints \subseteq Int
ASSUME ModeAssumption     == SystemModes \subseteq Nat /\ FanModes \subseteq Nat
ASSUME DefaultAssumption  == DefaultAttrs \in Attrs
ASSUME ScenarioAssumption == {EarlyWrites, ShellOffs, Reboots} \subseteq BOOLEAN

-----------------------------------------------------------------------------
(* The AC state an attribute state stands for *)

AcMode(m) == CASE m = 3 -> "COOLING"
               [] m = 4 -> "HEATING"
               [] m = 7 -> "VENTILATION"
               [] m = 8 -> "DEHUMIDIFY"
               [] OTHER -> "COOLING"

FanSpeed(f) == CASE f \in {0, 1} -> "SPEED_1"
                 [] f = 2 -> "SPEED_3"
                 [] f = 3 -> "SPEED_5"
                 [] OTHER -> "AUTO"

\* C division truncates towards zero.
Degrees(s) == IF s >= 0 THEN s \div 100 ELSE -((-s) \div 100)

\* Mutant of TempC: the upper bound is not enforced.
TempCUnbounded(s) == LET t == Degrees(s) % 256
                     IN  IF t < 16 THEN 16 ELSE t

\* (uint8_t)(setpoint / 100), which wraps modulo 256, clamped.
TempC(s) == LET t == Degrees(s) % 256
            IN  IF t < 16 THEN 16 ELSE IF t > 30 THEN 30 ELSE t

Setpoint(mode, a) == CASE mode = 3 -> a.cool
                       [] mode = 4 -> a.heat
                       [] OTHER -> 2400

AcState(power, mode, setpoint, fan) ==
    [power |-> power, mode |-> AcMode(mode), temp |-> TempC(setpoint), fan |-> FanSpeed(fan)]

Desired(a) == AcState(a.onOff, a.mode, Setpoint(a.mode, a), a.fan)

\* The constant frame of cmd_off.
OffFrame == [power |-> FALSE, mode |-> "COOLING", temp |-> 24, fan |-> "AUTO"]

AcStates == [power : BOOLEAN, mode : {"COOLING", "HEATING", "VENTILATION", "DEHUMIDIFY"},
             temp : 16 .. 30, fan : {"SPEED_1", "SPEED_3", "SPEED_5", "AUTO"}]

-----------------------------------------------------------------------------
VARIABLES attr,           \* the attributes of endpoint 1
          main,           \* where the main thread stands in AppTask::Init
          snap,           \* locals of zcl_callbacks_ready
          lastSent,       \* last_sent
          lastSentValid,  \* last_sent_valid
          irReady,        \* ir_ready
          cb,             \* where the callback stands
          frame,          \* the state it dispatches
          air,            \* the AC's own state: the last frame dispatched to it
          sent,           \* history: the callback dispatched a frame since boot
          touched,        \* history: an attribute changed since the snapshot began
          astray          \* history: since a frame was dispatched last, "ac off", a
                          \* reboot or a write during boot went past last_sent

bootVars == <<main, snap>>
cbVars   == <<cb, frame>>
sentVars == <<lastSent, lastSentValid, irReady>>
history == <<sent, touched, astray>>
vars == <<attr, bootVars, sentVars, cbVars, air, history>>

TypeOK ==
    /\ attr \in Attrs
    /\ main \in {"init", "mode", "setpoint", "fan", "publish", "done"}
    /\ snap \in [power : BOOLEAN, mode : Nat, setpoint : Int, fan : Nat]
    /\ lastSent \in AcStates
    /\ lastSentValid \in BOOLEAN
    /\ irReady \in BOOLEAN
    /\ cb \in {"idle", "eval", "send", "record"}
    /\ frame \in AcStates
    /\ air \in AcStates
    /\ sent \in BOOLEAN
    /\ touched \in BOOLEAN
    /\ astray \in BOOLEAN

\* The initial values of the locals of zcl_callbacks_ready.
Locals == [power |-> FALSE, mode |-> 3, setpoint |-> 2400, fan |-> 5]

\* At power-up the AC is in the state the attributes stand for, the best case.
\* The fields of the zero-initialised last_sent are not looked at.
Init == /\ attr = DefaultAttrs
        /\ main = "init" /\ snap = Locals
        /\ lastSent = OffFrame /\ lastSentValid = FALSE /\ irReady = FALSE
        /\ cb = "idle" /\ frame = OffFrame
        /\ air = Desired(DefaultAttrs)
        /\ sent = FALSE /\ touched = FALSE /\ astray = FALSE

-----------------------------------------------------------------------------
(* The main thread: zcl_callbacks_ready, one action per attribute read *)

ReadStep(from, to) == /\ main = from
                      /\ main' = to
                      /\ UNCHANGED <<attr, sentVars, cbVars, air, sent, astray>>

ReadOnOff == /\ ReadStep("init", "mode")
             /\ snap' = [snap EXCEPT !.power = attr.onOff]
             /\ touched' = FALSE

ReadMode == /\ ReadStep("mode", "setpoint")
            /\ snap' = [snap EXCEPT !.mode = attr.mode]
            /\ UNCHANGED touched

ReadSetpoint == /\ ReadStep("setpoint", "fan")
                /\ snap' = [snap EXCEPT !.setpoint = Setpoint(snap.mode, attr)]
                /\ UNCHANGED touched

ReadFan == /\ ReadStep("fan", "publish")
           /\ snap' = [snap EXCEPT !.fan = attr.fan]
           /\ UNCHANGED touched

Publish == /\ main = "publish"
           /\ main' = "done"
           /\ lastSent' = AcState(snap.power, snap.mode, snap.setpoint, snap.fan)
           /\ lastSentValid' = TRUE
           /\ irReady' = TRUE
           /\ UNCHANGED <<attr, snap, cbVars, air, history>>

-----------------------------------------------------------------------------
(* MatterPostAttributeChangeCallback and send_ir_if_changed *)

\* A write to OnOff, Thermostat or FanControl of endpoint 1 by a controller.
AttributeChange ==
    /\ cb = "idle"
    /\ EarlyWrites \/ main = "done"
    /\ cb' = "eval"
    /\ attr' \in Attrs \ {attr}
    /\ \E field \in DOMAIN attr : attr' = [attr EXCEPT ![field] = attr'[field]]
    /\ touched' = TRUE
    /\ astray' = (astray \/ main # "done")
    /\ UNCHANGED <<bootVars, sentVars, frame, air, sent>>

\* LocalTemperature is a Thermostat attribute, too: the report of the SCD40 poll
\* runs the callback without having changed anything the frame depends on.
TempReport ==
    /\ cb = "idle"
    /\ cb' = "eval"
    /\ UNCHANGED <<attr, bootVars, sentVars, frame, air, history>>

NotReady ==
    /\ cb = "eval"
    /\ ~irReady
    /\ cb' = "idle"
    /\ UNCHANGED <<attr, bootVars, sentVars, frame, air, history>>

\* Mutant of Unchanged: the fan is not compared.
UnchangedButFan == /\ lastSentValid
                   /\ [Desired(attr) EXCEPT !.fan = "AUTO"] = [lastSent EXCEPT !.fan = "AUTO"]

\* Mutant of Unchanged: last_sent is not compared.
NeverUnchanged == FALSE

Unchanged == lastSentValid /\ Desired(attr) = lastSent

Skip ==
    /\ cb = "eval"
    /\ irReady
    /\ Unchanged
    /\ cb' = "idle"
    /\ UNCHANGED <<attr, bootVars, sentVars, frame, air, history>>

\* Mutant of Encode: ir_ready is not consulted.
EncodeUnready ==
    /\ cb = "eval"
    /\ ~Unchanged
    /\ cb' = "send"
    /\ frame' = Desired(attr)
    /\ UNCHANGED <<attr, bootVars, sentVars, air, history>>

Encode ==
    /\ cb = "eval"
    /\ irReady
    /\ ~Unchanged
    /\ cb' = "send"
    /\ frame' = Desired(attr)
    /\ UNCHANGED <<attr, bootVars, sentVars, air, history>>

DispatchFrame ==
    /\ cb = "send"
    /\ cb' = "record"
    /\ air' = frame
    /\ sent' = TRUE
    /\ astray' = FALSE
    /\ UNCHANGED <<attr, bootVars, sentVars, frame, touched>>

\* Mutant of Record: last_sent is not updated.
RecordNothing ==
    /\ cb = "record"
    /\ cb' = "idle"
    /\ UNCHANGED <<attr, bootVars, sentVars, frame, air, history>>

Record ==
    /\ cb = "record"
    /\ cb' = "idle"
    /\ lastSent' = frame
    /\ lastSentValid' = TRUE
    /\ UNCHANGED <<attr, bootVars, irReady, frame, air, history>>

-----------------------------------------------------------------------------
\* cmd_off: neither the OnOff attribute nor last_sent learns of it.
ShellOff == /\ ShellOffs
            /\ air' = OffFrame
            /\ astray' = TRUE
            /\ UNCHANGED <<attr, bootVars, sentVars, cbVars, sent, touched>>

\* Of the attributes, OnOff is kept in flash; the AC does not notice.
Reboot == /\ Reboots
          /\ attr' = [DefaultAttrs EXCEPT !.onOff = attr.onOff]
          /\ main' = "init" /\ snap' = Locals
          /\ lastSent' = OffFrame /\ lastSentValid' = FALSE /\ irReady' = FALSE
          /\ cb' = "idle" /\ frame' = OffFrame
          /\ sent' = FALSE /\ touched' = FALSE /\ astray' = TRUE
          /\ UNCHANGED air

-----------------------------------------------------------------------------
Snapshot == ReadOnOff \/ ReadMode \/ ReadSetpoint \/ ReadFan \/ Publish
Callback == NotReady \/ Skip \/ Encode \/ DispatchFrame \/ Record

Next == Snapshot \/ AttributeChange \/ TempReport \/ Callback \/ ShellOff \/ Reboot

\* Both threads keep running, and the sensor is polled for ever and its readings,
\* in hundredths of a degree, keep changing; the poll gets the chip stack lock
\* however often controllers write.
Fairness == WF_vars(Snapshot) /\ WF_vars(Callback) /\ SF_vars(TempReport)

Spec == Init /\ [][Next]_vars /\ Fairness

-----------------------------------------------------------------------------
(* Properties *)

\* Nothing AcState can return: a temperature the AC does not understand.
NoFrame == [OffFrame EXCEPT !.temp = 0]

\* A frame counts as recorded from its dispatch on, which is before last_sent is
\* assigned: the chip stack lock is held in between.
Recorded == IF ~lastSentValid THEN NoFrame
            ELSE IF cb = "record" THEN frame
            ELSE lastSent

Source == INSTANCE CommandSource WITH Frames <- AcStates, recorded <- Recorded, latest <- air

\* However the snapshot, writes, temperature reports, "ac off" and reboots
\* interleave, a frame is dispatched only when the state differs from the recorded
\* one, and never before there is a record.
ImplementsSource == Source!Spec

Settled == main = "done" /\ cb = "idle"

\* "prevents MatterPostAttributeChangeCallback from firing IR during Matter stack
\* attribute restoration at boot" (app_task.cpp:98-100): nothing is sent until
\* an attribute changes after the snapshot began, however the callbacks
\* interleave with its reads.
BootSilent == sent => touched

\* The AC is told of every change: between callbacks its state is the one the
\* attributes stand for.  A disturbance that went past last_sent lasts at most
\* until the next frame, which carries the whole state.
AcFollows == Settled /\ ~astray => air = Desired(attr)

\* Whatever the snapshot got wrong, the next temperature report puts right:
\* last_sent catches up with the attributes.
CatchesUp == irReady ~> lastSent = Desired(attr) \/ ~irReady

\* "When Thermostat (EP1) or FanControl (EP1) attributes change, reads the current
\* state and transmits a full IR command" (zcl_callbacks.cpp:4-5): in the end
\* the AC has what the attributes say.
ChangeIsSent == (air # Desired(attr)) ~> (air = Desired(attr))
=============================================================================
