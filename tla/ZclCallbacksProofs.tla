------------------------- MODULE ZclCallbacksProofs -------------------------
(***************************************************************************)
(* Proofs about ZclCallbacks, for any sets of attribute values: what the   *)
(* temperature conversion guarantees, that booting is silent, and that the *)
(* AC follows the attributes.                                              *)
(***************************************************************************)
EXTENDS ZclCallbacks, TLAPS

-----------------------------------------------------------------------------
(* The temperature conversion *)

\* Whatever the setpoint, the frame carries a temperature the AC understands.
THEOREM TempInRange == \A s \in Int : TempC(s) \in 16 .. 30
<1> TAKE s \in Int
<1>1. Degrees(s) \in Int
    BY DEF Degrees
<1>2. Degrees(s) % 256 \in 0 .. 255
    BY <1>1
<1> QED
    BY <1>2 DEF TempC

\* Between the limits of the Thermostat cluster (700 and 3200) neither the signed
\* division nor the 8-bit cast shows: the temperature is the setpoint in whole
\* degrees, rounded down, or the bound of 16..30 it lies beyond.
THEOREM TempIsSetpoint ==
    ASSUME NEW s \in 700 .. 3200
    PROVE  TempC(s) = IF s < 1600 THEN 16 ELSE IF s >= 3100 THEN 30 ELSE s \div 100
<1>1. Degrees(s) = s \div 100
    BY DEF Degrees
<1>2. /\ s \div 100 \in 7 .. 32
      /\ 100 * (s \div 100) <= s
      /\ s < 100 * (s \div 100) + 100
    BY SMTT(30)
<1>3. (s \div 100) % 256 = s \div 100
    BY <1>2
<1>4. (s < 1600 <=> s \div 100 < 16) /\ (s >= 3100 <=> s \div 100 > 30)
    BY <1>2, SMTT(30)
<1> QED
    BY <1>1, <1>2, <1>3, <1>4 DEF TempC

-----------------------------------------------------------------------------
(* Typing *)

LEMMA SetpointInt == \A a \in Attrs, m \in Nat : Setpoint(m, a) \in Int
BY SetpointAssumption DEF Attrs, Setpoint

LEMMA AcStateType ==
    \A power \in BOOLEAN, m \in Nat, s \in Int, f \in Nat : AcState(power, m, s, f) \in AcStates
<1> SUFFICES ASSUME NEW power \in BOOLEAN, NEW m \in Nat, NEW s \in Int, NEW f \in Nat
             PROVE  AcState(power, m, s, f) \in AcStates
    OBVIOUS
<1>1. AcMode(m) \in {"COOLING", "HEATING", "VENTILATION", "DEHUMIDIFY"}
    BY DEF AcMode
<1>2. FanSpeed(f) \in {"SPEED_1", "SPEED_3", "SPEED_5", "AUTO"}
    BY DEF FanSpeed
<1> QED
    BY <1>1, <1>2, TempInRange DEF AcState, AcStates

LEMMA AttrsType == \A a \in Attrs : a.onOff \in BOOLEAN /\ a.mode \in Nat /\ a.fan \in Nat
BY ModeAssumption DEF Attrs

LEMMA DesiredType == \A a \in Attrs : Desired(a) \in AcStates
BY AcStateType, SetpointInt, AttrsType DEF Desired

LEMMA OffFrameType == OffFrame \in AcStates
BY DEF OffFrame, AcStates

LEMMA LocalsType == Locals \in [power : BOOLEAN, mode : Nat, setpoint : Int, fan : Nat]
BY DEF Locals

LEMMA InitTypeOK == Init => TypeOK
BY DefaultAssumption, DesiredType, OffFrameType, LocalsType DEF Init, TypeOK

LEMMA NextTypeOK == TypeOK /\ [Next]_vars => TypeOK'
<1> SUFFICES ASSUME TypeOK, [Next]_vars PROVE TypeOK'
    OBVIOUS
<1> USE DEF TypeOK
<1>1. CASE ReadOnOff
    BY <1>1, AttrsType DEF ReadOnOff, ReadStep, sentVars, cbVars, history
<1>2. CASE ReadMode
    BY <1>2, AttrsType DEF ReadMode, ReadStep, sentVars, cbVars, history
<1>3. CASE ReadSetpoint
    BY <1>3, SetpointInt DEF ReadSetpoint, ReadStep, sentVars, cbVars, history
<1>4. CASE ReadFan
    BY <1>4, AttrsType DEF ReadFan, ReadStep, sentVars, cbVars, history
<1>5. CASE Publish
    BY <1>5, AcStateType DEF Publish, cbVars, history
<1>6. CASE AttributeChange
    BY <1>6 DEF AttributeChange, bootVars, sentVars, history
<1>7. CASE TempReport
    BY <1>7 DEF TempReport, bootVars, sentVars, history
<1>8. CASE NotReady
    BY <1>8 DEF NotReady, bootVars, sentVars, history
<1>9. CASE Skip
    BY <1>9 DEF Skip, bootVars, sentVars, history
<1>10. CASE Encode
    BY <1>10, DesiredType DEF Encode, bootVars, sentVars, history
<1>11. CASE DispatchFrame
    BY <1>11 DEF DispatchFrame, bootVars, sentVars, history
<1>12. CASE Record
    BY <1>12 DEF Record, bootVars, history
<1>13. CASE ShellOff
    BY <1>13, OffFrameType DEF ShellOff, bootVars, sentVars, cbVars, history
<1>14. CASE Reboot
    <2>1. attr' \in Attrs
        BY <1>14, DefaultAssumption DEF Reboot, Attrs
    <2> QED
        BY <1>14, <2>1, OffFrameType, LocalsType DEF Reboot
<1>15. CASE UNCHANGED vars
    BY <1>15 DEF vars, bootVars, sentVars, cbVars, history
<1> QED
    BY <1>1, <1>2, <1>3, <1>4, <1>5, <1>6, <1>7, <1>8, <1>9, <1>10, <1>11,
       <1>12, <1>13, <1>14, <1>15 DEF Next, Snapshot, Callback

\* All variables keep their types; last_sent and every dispatched frame are states
\* the protocol can encode.
THEOREM TypeCorrect == Spec => []TypeOK
BY InitTypeOK, NextTypeOK, PTL DEF Spec

-----------------------------------------------------------------------------
(* Booting is silent *)

Reading == {"mode", "setpoint", "fan", "publish"}

\* As long as no attribute changes, what has been read of them is still true, and
\* last_sent, once it is published, is the state they stand for.
SnapshotInv ==
    /\ irReady <=> main = "done"
    /\ cb \in {"send", "record"} => irReady /\ touched
    /\ BootSilent
    /\ main = "init" => ~sent
    /\ ~touched /\ main \in Reading => snap.power = attr.onOff
    /\ ~touched /\ main \in Reading \ {"mode"} => snap.mode = attr.mode
    /\ ~touched /\ main \in {"fan", "publish"} => snap.setpoint = Setpoint(attr.mode, attr)
    /\ ~touched /\ main = "publish" => snap.fan = attr.fan
    /\ main = "done" => lastSentValid
    /\ ~touched /\ main = "done" => lastSent = Desired(attr)

LEMMA InitSnapshotInv == Init => SnapshotInv
BY DEF Init, SnapshotInv, BootSilent, Reading

LEMMA NextSnapshotInv == TypeOK /\ SnapshotInv /\ [Next]_vars => SnapshotInv'
<1> SUFFICES ASSUME TypeOK, SnapshotInv, [Next]_vars PROVE SnapshotInv'
    OBVIOUS
<1> USE DEF TypeOK, SnapshotInv, BootSilent, Reading
<1>1. CASE ReadOnOff
    BY <1>1 DEF ReadOnOff, ReadStep, sentVars, cbVars, history
<1>2. CASE ReadMode
    BY <1>2 DEF ReadMode, ReadStep, sentVars, cbVars, history
<1>3. CASE ReadSetpoint
    BY <1>3 DEF ReadSetpoint, ReadStep, sentVars, cbVars, history
<1>4. CASE ReadFan
    BY <1>4 DEF ReadFan, ReadStep, sentVars, cbVars, history
<1>5. CASE Publish
    BY <1>5 DEF Publish, cbVars, history, Desired
<1>6. CASE AttributeChange
    BY <1>6 DEF AttributeChange, bootVars, sentVars, history
<1>7. CASE TempReport
    BY <1>7 DEF TempReport, bootVars, sentVars, history
<1>8. CASE NotReady
    BY <1>8 DEF NotReady, bootVars, sentVars, history
<1>9. CASE Skip
    BY <1>9 DEF Skip, bootVars, sentVars, history
<1>10. CASE Encode
    BY <1>10 DEF Encode, bootVars, sentVars, history, Unchanged
<1>11. CASE DispatchFrame
    BY <1>11 DEF DispatchFrame, bootVars, sentVars, history
<1>12. CASE Record
    BY <1>12 DEF Record, bootVars, history
<1>13. CASE ShellOff
    BY <1>13 DEF ShellOff, bootVars, sentVars, cbVars, history
<1>14. CASE Reboot
    BY <1>14 DEF Reboot
<1>15. CASE UNCHANGED vars
    BY <1>15 DEF vars, bootVars, sentVars, cbVars, history
<1> QED
    BY <1>1, <1>2, <1>3, <1>4, <1>5, <1>6, <1>7, <1>8, <1>9, <1>10, <1>11,
       <1>12, <1>13, <1>14, <1>15 DEF Next, Snapshot, Callback

\* Nothing is transmitted at boot until an attribute changes after the snapshot
\* began: restored attributes and temperature reports stay silent.
THEOREM BootSilentCorrect == Spec => []BootSilent
<1>1. SnapshotInv => BootSilent
    BY DEF SnapshotInv
<1> QED
    BY <1>1, InitSnapshotInv, NextSnapshotInv, TypeCorrect, PTL DEF Spec

-----------------------------------------------------------------------------
(* The AC follows the attributes *)

\* Unless something went past it, last_sent is what the AC got, and what the
\* attributes stand for except while the callback is about to see to it.
FollowInv ==
    /\ main # "done" /\ ~astray => ~touched /\ air = Desired(attr)
    /\ main = "done" /\ cb \in {"idle", "eval"} /\ ~astray => air = lastSent
    /\ main = "done" /\ cb = "idle" /\ ~astray => lastSent = Desired(attr)
    /\ cb = "send" => frame = Desired(attr)
    /\ cb = "record" => frame = Desired(attr) /\ (~astray => air = frame)

LEMMA InitFollowInv == Init => FollowInv
BY DEF Init, FollowInv

LEMMA NextFollowInv == TypeOK /\ SnapshotInv /\ FollowInv /\ [Next]_vars => FollowInv'
<1> SUFFICES ASSUME TypeOK, SnapshotInv, FollowInv, [Next]_vars PROVE FollowInv'
    OBVIOUS
<1> USE DEF TypeOK, SnapshotInv, FollowInv, Reading
<1>1. CASE ReadOnOff
    BY <1>1 DEF ReadOnOff, ReadStep, sentVars, cbVars, history
<1>2. CASE ReadMode
    BY <1>2 DEF ReadMode, ReadStep, sentVars, cbVars, history
<1>3. CASE ReadSetpoint
    BY <1>3 DEF ReadSetpoint, ReadStep, sentVars, cbVars, history
<1>4. CASE ReadFan
    BY <1>4 DEF ReadFan, ReadStep, sentVars, cbVars, history
<1>5. CASE Publish
    BY <1>5 DEF Publish, cbVars, history, Desired
<1>6. CASE AttributeChange
    BY <1>6 DEF AttributeChange, bootVars, sentVars, history
<1>7. CASE TempReport
    BY <1>7 DEF TempReport, bootVars, sentVars, history
<1>8. CASE NotReady
    BY <1>8 DEF NotReady, bootVars, sentVars, history
<1>9. CASE Skip
    BY <1>9 DEF Skip, bootVars, sentVars, history, Unchanged
<1>10. CASE Encode
    BY <1>10 DEF Encode, bootVars, sentVars, history, Unchanged
<1>11. CASE DispatchFrame
    BY <1>11 DEF DispatchFrame, bootVars, sentVars, history
<1>12. CASE Record
    BY <1>12 DEF Record, bootVars, history
<1>13. CASE ShellOff
    BY <1>13 DEF ShellOff, bootVars, sentVars, cbVars, history
<1>14. CASE Reboot
    BY <1>14 DEF Reboot
<1>15. CASE UNCHANGED vars
    BY <1>15 DEF vars, bootVars, sentVars, cbVars, history
<1> QED
    BY <1>1, <1>2, <1>3, <1>4, <1>5, <1>6, <1>7, <1>8, <1>9, <1>10, <1>11,
       <1>12, <1>13, <1>14, <1>15 DEF Next, Snapshot, Callback

\* Whatever is written in whatever order, between callbacks the AC is in the
\* state the attributes stand for, unless "ac off", a reboot or a write during
\* boot came between and no frame was dispatched since.
THEOREM AcFollowsCorrect == Spec => []AcFollows
<1>1. FollowInv => AcFollows
    BY DEF FollowInv, AcFollows, Settled
<1> QED
    BY <1>1, InitSnapshotInv, NextSnapshotInv, InitFollowInv, NextFollowInv, TypeCorrect,
       PTL DEF Spec

-----------------------------------------------------------------------------
(* The callback and the snapshot are a CommandSource *)

\* Why a dispatched frame is never the recorded one: last_sent cannot change
\* between the comparison and the dispatch, as the snapshot is published by then.
SourceInv ==
    /\ lastSentValid => main = "done"
    /\ cb = "send" => frame # lastSent

LEMMA InitSourceInv == Init => SourceInv
BY DEF Init, SourceInv

LEMMA NextSourceInv == SnapshotInv /\ SourceInv /\ [Next]_vars => SourceInv'
<1> SUFFICES ASSUME SnapshotInv, SourceInv, [Next]_vars PROVE SourceInv'
    OBVIOUS
<1> USE DEF SnapshotInv, SourceInv
<1>1. CASE ReadOnOff \/ ReadMode \/ ReadSetpoint \/ ReadFan
    BY <1>1 DEF ReadOnOff, ReadMode, ReadSetpoint, ReadFan, ReadStep, sentVars, cbVars
<1>2. CASE Publish
    BY <1>2 DEF Publish, cbVars
<1>3. CASE AttributeChange \/ TempReport \/ NotReady \/ Skip
    BY <1>3 DEF AttributeChange, TempReport, NotReady, Skip, bootVars, sentVars
<1>4. CASE Encode
    BY <1>4 DEF Encode, Unchanged, bootVars, sentVars
<1>5. CASE DispatchFrame
    BY <1>5 DEF DispatchFrame, bootVars, sentVars
<1>6. CASE Record
    BY <1>6 DEF Record, bootVars
<1>7. CASE ShellOff
    BY <1>7 DEF ShellOff, bootVars, sentVars, cbVars
<1>8. CASE Reboot
    BY <1>8 DEF Reboot
<1>9. CASE UNCHANGED vars
    BY <1>9 DEF vars, bootVars, sentVars, cbVars
<1> QED
    BY <1>1, <1>2, <1>3, <1>4, <1>5, <1>6, <1>7, <1>8, <1>9 DEF Next, Snapshot, Callback

LEMMA NoFrameIsNone == NoFrame \notin AcStates
BY DEF NoFrame, OffFrame, AcStates

\* Whatever the interleaving of the snapshot, writes, temperature reports, "ac off"
\* and reboots, a frame is dispatched only when the state differs from the recorded
\* one, together with the record, and never before there is a record.
THEOREM ImplementsSourceCorrect == Spec => ImplementsSource
<1>1. ASSUME Init PROVE Source!Init
    BY <1>1, DefaultAssumption, DesiredType DEF Init, Source!Init, Recorded
<1>2. ASSUME TypeOK, TypeOK', SnapshotInv, SourceInv, [Next]_vars
      PROVE  [Source!Next]_<<Recorded, air>>
    <2> USE <1>2 DEF SnapshotInv, SourceInv, Recorded
    <2>1. CASE ReadOnOff \/ ReadMode \/ ReadSetpoint \/ ReadFan
        BY <2>1 DEF ReadOnOff, ReadMode, ReadSetpoint, ReadFan, ReadStep, sentVars, cbVars
    <2>2. CASE Publish
        <3>1. Recorded = NoFrame /\ Recorded' = lastSent'
            BY <2>2 DEF Publish, cbVars
        <3>2. lastSent' \in AcStates
            BY DEF TypeOK
        <3> QED
            BY <2>2, <3>1, <3>2 DEF Publish, Source!Next, Source!Declare
    <2>3. CASE AttributeChange \/ TempReport \/ NotReady \/ Skip \/ Encode
        BY <2>3 DEF AttributeChange, TempReport, NotReady, Skip, Encode, sentVars
    <2>4. CASE DispatchFrame
        <3>1. Recorded = lastSent /\ Recorded' = frame
            BY <2>4 DEF DispatchFrame, sentVars
        <3>2. lastSent \in AcStates /\ frame \in AcStates /\ frame # lastSent
            BY <2>4 DEF DispatchFrame, TypeOK
        <3> QED
            BY <2>4, <3>1, <3>2, NoFrameIsNone DEF DispatchFrame, Source!Next, Source!Send
    <2>5. CASE Record
        BY <2>5 DEF Record
    <2>6. CASE ShellOff
        BY <2>6 DEF ShellOff, sentVars, cbVars, Source!Next, Source!Off
    <2>7. CASE Reboot
        BY <2>7 DEF Reboot, Source!Next, Source!Restart
    <2>8. CASE UNCHANGED vars
        BY <2>8 DEF vars, sentVars, cbVars
    <2> QED
        BY <2>1, <2>2, <2>3, <2>4, <2>5, <2>6, <2>7, <2>8 DEF Next, Snapshot, Callback
<1> QED
    BY <1>1, <1>2, InitSnapshotInv, NextSnapshotInv, InitSourceInv, NextSourceInv, TypeCorrect,
       PTL DEF Spec, ImplementsSource, Source!Spec, Source!source
=============================================================================
