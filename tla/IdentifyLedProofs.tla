------------------------- MODULE IdentifyLedProofs -------------------------
(***************************************************************************)
(* Proofs about IdentifyLed, for any endpoints, with and without           *)
(* TriggerEffect and the shell: types, that a blinking LED has somebody to *)
(* stop it, that an Identify is not ended by a timer left over, and that   *)
(* the LED goes dark with the blinking.                                    *)
(***************************************************************************)
EXTENDS IdentifyLed, TLAPS

\* A step of thread t changes its own program counter and no other.
LEMMA GotoChanges ==
    ASSUME TypeOK, NEW t \in Threads, NEW from, NEW to, Goto(t, from, to)
    PROVE  /\ pc[t] = from /\ pc'[t] = to
           /\ \A u \in Threads \ {t} : pc'[u] = pc[u]
           /\ DOMAIN pc' = Threads
           /\ pc' = [u \in Threads |-> IF u = t THEN to ELSE pc[u]]
BY DEF Goto, TypeOK

\* The part of the type invariant that says where the threads stand.
Counters ==
    /\ pc \in [Threads -> {"idle", "auto_stop"} \cup StartSteps \cup StopSteps]
    /\ pc["chip"] # "auto_stop"
    /\ pc["shell"] \notin StopSteps

LEMMA ChipStep ==
    ASSUME TypeOK, NEW from, NEW to \in {"idle"} \cup StartSteps \cup StopSteps,
           Goto("chip", from, to)
    PROVE  Counters'
<1>1. "chip" \in Threads /\ "shell" \in Threads
    BY DEF Threads
<1>2. /\ pc' = [u \in Threads |-> IF u = "chip" THEN to ELSE pc[u]]
      /\ pc'["chip"] = to /\ pc'["shell"] = pc["shell"]
    BY <1>1, GotoChanges
<1> QED
    BY <1>2 DEF TypeOK, Counters, StartSteps, StopSteps

LEMMA ShellStep ==
    ASSUME TypeOK, NEW from, NEW to \in {"idle", "auto_stop"} \cup StartSteps,
           Goto("shell", from, to)
    PROVE  Counters'
<1>1. "chip" \in Threads /\ "shell" \in Threads
    BY DEF Threads
<1>2. /\ pc' = [u \in Threads |-> IF u = "shell" THEN to ELSE pc[u]]
      /\ pc'["shell"] = to /\ pc'["chip"] = pc["chip"]
    BY <1>1, GotoChanges
<1> QED
    BY <1>2 DEF TypeOK, Counters, StartSteps, StopSteps

LEMMA InitTypeOK == Init => TypeOK
BY DEF Init, TypeOK, Threads, StartSteps, StopSteps

LEMMA NextTypeOK == TypeOK /\ [Next]_vars => TypeOK'
<1> SUFFICES ASSUME TypeOK, [Next]_vars PROVE TypeOK'
    OBVIOUS
<1> USE DEF history
<1>1. CASE BlinkExpires \/ StopExpires
    BY <1>1 DEF BlinkExpires, StopExpires, SwitchOff, BlinkIsComing, queueVars, TypeOK
<1>2. CASE Toggle \/ WriteLed \/ OtherWork
    BY <1>2 DEF Toggle, WriteLed, OtherWork, TypeOK
<1>3. ASSUME NEW t \in Threads, Start(t) PROVE TypeOK'
    <2>1. Counters'
        BY <1>3, ChipStep, ShellStep
        DEF Start, StartStopTimerOff, StartReset, StartBlink, Threads, StartSteps
    <2> QED
        BY <1>3, <2>1
        DEF Start, StartStopTimerOff, StartReset, StartBlink, queueVars, TypeOK, Counters
<1>4. CASE StopStopTimerOff \/ StopBlinkOff \/ StopLedOff
    <2>1. Counters'
        BY <1>4, ChipStep DEF StopStopTimerOff, StopBlinkOff, StopLedOff, StopSteps
    <2> QED
        BY <1>4, <2>1
        DEF StopStopTimerOff, StopBlinkOff, StopLedOff, SwitchOff, BlinkIsComing,
            queueVars, TypeOK, Counters
<1>5. ASSUME NEW ep \in Endpoints, OnIdentifyStart(ep) \/ OnIdentifyStop(ep) PROVE TypeOK'
    <2>1. Counters'
        BY <1>5, ChipStep DEF OnIdentifyStart, OnIdentifyStop, StartSteps, StopSteps
    <2> QED
        BY <1>5, <2>1 DEF OnIdentifyStart, OnIdentifyStop, queueVars, TypeOK, Counters
<1>6. CASE OnTriggerEffect
    <2>1. Counters'
        BY <1>6, ChipStep DEF OnTriggerEffect, StartSteps
    <2> QED
        BY <1>6, <2>1 DEF OnTriggerEffect, queueVars, TypeOK, Counters
<1>7. CASE Trigger \/ AutoStop
    <2>1. Counters'
        BY <1>7, ShellStep DEF Trigger, AutoStop, StartSteps
    <2> QED
        BY <1>7, <2>1 DEF Trigger, AutoStop, queueVars, TypeOK, Counters
<1>8. CASE UNCHANGED vars
    BY <1>8 DEF vars, queueVars, TypeOK
<1> QED
    BY <1>1, <1>2, <1>3, <1>4, <1>5, <1>6, <1>7, <1>8
    DEF Next, Queue, Cluster, ChipBusy, ShellBusy, Threads

\* All variables keep their types: only the shell arms the auto-stop timer, and
\* only the Matter thread stops the blinking.
THEOREM TypeCorrect == Spec => []TypeOK
BY InitTypeOK, NextTypeOK, PTL DEF Spec

-----------------------------------------------------------------------------
\* Who answers for a running blink timer in the middle of everything: an Identify, a
\* timer, an effect, the Matter thread on its way to stop it, or the shell,
\* which ends every blink it starts by arming the auto-stop timer.  A blink the
\* Matter thread is about to start already has its Identify or its effect.
Answered ==
    /\ blinkTimer => \/ identify # {} \/ stopTimer \/ effect
                     \/ pc["chip"] \in {"stop_stop_timer_off", "stop_blink_off"}
                     \/ pc["shell"] # "idle"
    /\ pc["chip"] \in StartSteps => identify # {} \/ effect

LEMMA ChipMoves ==
    ASSUME TypeOK, NEW from, NEW to, Goto("chip", from, to)
    PROVE  pc["chip"] = from /\ pc'["chip"] = to /\ pc'["shell"] = pc["shell"]
BY GotoChanges DEF Threads

LEMMA ShellMoves ==
    ASSUME TypeOK, NEW from, NEW to, Goto("shell", from, to)
    PROVE  /\ pc["shell"] = from /\ pc'["shell"] = to
           /\ pc["chip"] = "idle" /\ pc'["chip"] = "idle"
<1>1. pc["shell"] = from /\ pc'["shell"] = to /\ pc'["chip"] = pc["chip"]
    BY GotoChanges DEF Threads
<1> QED
    BY <1>1 DEF Goto, Runs

LEMMA NextAnswered == TypeOK /\ Answered /\ [Next]_vars => Answered'
<1> SUFFICES ASSUME TypeOK, Answered, [Next]_vars PROVE Answered'
    OBVIOUS
<1> USE DEF history
<1>1. CASE BlinkExpires \/ StopExpires \/ Toggle \/ WriteLed \/ OtherWork
    BY <1>1 DEF BlinkExpires, StopExpires, Toggle, WriteLed, OtherWork, Answered
<1>2. CASE Start("chip")
    <2>1. CASE StartStopTimerOff("chip")
        BY <2>1, ChipMoves DEF StartStopTimerOff, Answered, StartSteps
    <2>2. CASE StartReset("chip")
        BY <2>2, ChipMoves DEF StartReset, Answered, StartSteps
    <2>3. CASE StartBlink("chip")
        BY <2>3, ChipMoves DEF StartBlink, Answered, StartSteps
    <2> QED
        BY <1>2, <2>1, <2>2, <2>3 DEF Start
<1>3. CASE Start("shell")
    BY <1>3, ShellMoves
    DEF Start, StartStopTimerOff, StartReset, StartBlink, Answered, StartSteps
<1>4. CASE StopStopTimerOff \/ StopBlinkOff \/ StopLedOff
    BY <1>4, ChipMoves
    DEF StopStopTimerOff, StopBlinkOff, StopLedOff, Answered, StartSteps
<1>5. ASSUME NEW ep \in Endpoints, OnIdentifyStart(ep) \/ OnIdentifyStop(ep)
      PROVE  Answered'
    BY <1>5, ChipMoves DEF OnIdentifyStart, OnIdentifyStop, Answered, StartSteps
<1>6. CASE OnTriggerEffect
    BY <1>6, ChipMoves DEF OnTriggerEffect, Answered, StartSteps
<1>7. CASE Trigger
    BY <1>7, ShellMoves DEF Trigger, Answered, StartSteps
<1>8. CASE AutoStop
    BY <1>8, ShellMoves DEF AutoStop, Answered, StartSteps
<1>9. CASE UNCHANGED vars
    BY <1>9 DEF vars, Answered
<1> QED
    BY <1>1, <1>2, <1>3, <1>4, <1>5, <1>6, <1>7, <1>8, <1>9
    DEF Next, Queue, Cluster, ChipBusy, ShellBusy

\* A blinking LED has an Identify or the auto-stop timer to end it, or was started
\* by a TriggerEffect.
THEOREM BlinkHasOwnerCorrect == Spec => []BlinkHasOwner
<1>1. Init => Answered
    BY DEF Init, Answered, Threads, StartSteps
<1>2. Answered => BlinkHasOwner
    BY DEF Answered, BlinkHasOwner, ThreadsIdle, Threads
<1> QED
    BY <1>1, <1>2, InitTypeOK, NextTypeOK, NextAnswered, PTL DEF Spec

-----------------------------------------------------------------------------
\* Why a stop timer that still runs is no danger to an Identify: start_blink has
\* cancelled it before the Matter thread starts the blink timer, no shell step comes
\* between, and whoever arms it or stops the blinking afterwards is seen.
Kept ==
    /\ identify # {} /\ pc["chip"] = "idle" => shared \/ (blinkTimer /\ ~stopTimer)
    /\ pc["chip"] \in {"start_reset", "start_blink"} => ~stopTimer
    /\ pc["chip"] \in StopSteps => shared

LEMMA NextKept == TypeOK /\ Kept /\ [Next]_vars => Kept'
<1> SUFFICES ASSUME TypeOK, Kept, [Next]_vars PROVE Kept'
    OBVIOUS
<1> USE DEF Kept, StopSteps, history
<1>1. CASE BlinkExpires \/ Toggle \/ WriteLed \/ OtherWork
    BY <1>1 DEF BlinkExpires, Toggle, WriteLed, OtherWork
<1>2. CASE StopExpires
    BY <1>2 DEF StopExpires
<1>3. CASE Start("chip")
    <2>1. CASE StartStopTimerOff("chip")
        BY <2>1, ChipMoves DEF StartStopTimerOff
    <2>2. CASE StartReset("chip")
        BY <2>2, ChipMoves DEF StartReset
    <2>3. CASE StartBlink("chip")
        BY <2>3, ChipMoves DEF StartBlink
    <2> QED
        BY <1>3, <2>1, <2>2, <2>3 DEF Start
<1>4. CASE Start("shell")
    <2>1. CASE StartStopTimerOff("shell") \/ StartReset("shell")
        BY <2>1, ShellMoves DEF StartStopTimerOff, StartReset
    <2>2. CASE StartBlink("shell")
        <3>1. shared' = shared
            BY <2>2 DEF StartBlink, TypeOK
        <3> QED
            BY <2>2, <3>1, ShellMoves DEF StartBlink
    <2> QED
        BY <1>4, <2>1, <2>2 DEF Start
<1>5. CASE StopStopTimerOff \/ StopBlinkOff \/ StopLedOff
    BY <1>5, ChipMoves DEF StopStopTimerOff, StopBlinkOff, StopLedOff
<1>6. ASSUME NEW ep \in Endpoints, OnIdentifyStart(ep) \/ OnIdentifyStop(ep)
      PROVE  Kept'
    BY <1>6, ChipMoves DEF OnIdentifyStart, OnIdentifyStop
<1>7. CASE OnTriggerEffect
    BY <1>7, ChipMoves DEF OnTriggerEffect
<1>8. CASE Trigger \/ AutoStop
    BY <1>8, ShellMoves DEF Trigger, AutoStop
<1>9. CASE UNCHANGED vars
    BY <1>9 DEF vars
<1> QED
    BY <1>1, <1>2, <1>3, <1>4, <1>5, <1>6, <1>7, <1>8, <1>9
    DEF Next, Queue, Cluster, ChipBusy, ShellBusy

\* Nothing but the end of an Identify or the shell ends the blinking of a running
\* Identify, in particular no timer of a shell blink that came before it.
THEOREM IdentifyKeepsBlinkingCorrect == Spec => []IdentifyKeepsBlinking
<1>1. Init => Kept
    BY DEF Init, Kept, Threads, StopSteps
<1>2. Kept => IdentifyKeepsBlinking
    BY DEF Kept, IdentifyKeepsBlinking
<1> QED
    BY <1>1, <1>2, InitTypeOK, NextTypeOK, NextKept, PTL DEF Spec

-----------------------------------------------------------------------------
\* Between the stop of the blink timer and the last switching-off, which is that of
\* the Matter thread or of the auto-stop timer itself, the LED may still be lit or
\* be about to change; after it, only by a blink_work that was late.
Accounted ==
    ~blinkTimer /\ (led \/ BlinkIsComing) => late \/ pc["chip"] = "stop_led_off"

LEMMA NextAccounted == TypeOK /\ Accounted /\ [Next]_vars => Accounted'
<1> SUFFICES ASSUME TypeOK, Accounted, [Next]_vars PROVE Accounted'
    OBVIOUS
<1> USE DEF Accounted, BlinkIsComing, history
<1>1. CASE BlinkExpires \/ StopExpires
    BY <1>1 DEF BlinkExpires, StopExpires, SwitchOff, queueVars
<1>2. CASE Toggle \/ WriteLed \/ OtherWork
    BY <1>2 DEF Toggle, WriteLed, OtherWork, TypeOK
<1>3. CASE Start("chip")
    BY <1>3, ChipMoves DEF Start, StartStopTimerOff, StartReset, StartBlink, queueVars
<1>4. CASE Start("shell")
    BY <1>4, ShellMoves DEF Start, StartStopTimerOff, StartReset, StartBlink, queueVars
<1>5. CASE StopStopTimerOff \/ StopBlinkOff \/ StopLedOff
    <2>1. CASE StopStopTimerOff
        BY <2>1, ChipMoves DEF StopStopTimerOff, queueVars
    <2>2. CASE StopBlinkOff
        BY <2>2, ChipMoves DEF StopBlinkOff
    <2>3. CASE StopLedOff
        BY <2>3 DEF StopLedOff, SwitchOff, queueVars, TypeOK
    <2> QED
        BY <1>5, <2>1, <2>2, <2>3
<1>6. ASSUME NEW ep \in Endpoints, OnIdentifyStart(ep) \/ OnIdentifyStop(ep)
      PROVE  Accounted'
    BY <1>6, ChipMoves DEF OnIdentifyStart, OnIdentifyStop, queueVars
<1>7. CASE OnTriggerEffect
    BY <1>7, ChipMoves DEF OnTriggerEffect, queueVars
<1>8. CASE Trigger \/ AutoStop
    BY <1>8, ShellMoves DEF Trigger, AutoStop, queueVars
<1>9. CASE UNCHANGED vars
    BY <1>9 DEF vars, queueVars
<1> QED
    BY <1>1, <1>2, <1>3, <1>4, <1>5, <1>6, <1>7, <1>8, <1>9
    DEF Next, Queue, Cluster, ChipBusy, ShellBusy

\* However starts, stops and both timers interleave, an LED that is lit without
\* blinking was lit by a blink_work that was pending when it was switched off.
THEOREM LitOnlyIfLateCorrect == Spec => []LitOnlyIfLate
<1>1. Init => Accounted
    BY DEF Init, Accounted, BlinkIsComing
<1>2. Accounted => LitOnlyIfLate
    BY DEF Accounted, LitOnlyIfLate, ThreadsIdle, Threads
<1> QED
    BY <1>1, <1>2, InitTypeOK, NextTypeOK, NextAccounted, PTL DEF Spec
=============================================================================
