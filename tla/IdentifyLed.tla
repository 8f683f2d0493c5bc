---------------------------- MODULE IdentifyLed ----------------------------
(***************************************************************************)
(* The Identify LED (identify_led.cpp): one LED, one blink timer and one   *)
(* auto-stop timer, shared by the Identify clusters of the endpoints (on   *)
(* the Matter thread) and by "matter identify" (on the shell thread).  The *)
(* timers expire in interrupt context, the LED is toggled on the system    *)
(* workqueue.                                                              *)
(*                                                                         *)
(* Scheduling is that of PdmManager: the queue goes before the threads     *)
(* unless its handler sleeps, interrupts go before everything, and the     *)
(* shell thread runs only while the Matter thread is blocked.              *)
(***************************************************************************)
CONSTANTS Endpoints,  \* endpoints with an Identify cluster
          Effects,    \* do controllers send TriggerEffect?
          Shell       \* is "matter identify" used?

ASSUME ScenarioAssumption == {Effects, Shell} \subseteq BOOLEAN

Threads == {"chip", "shell"}

VARIABLES blinkTimer,  \* is blink_timer running?
          stopTimer,   \* is stop_timer running?
          blinkOn,     \* blink_on
          led,         \* is the LED lit?
          work,        \* is blink_work submitted?
          wq,          \* what the system workqueue runs
          identify,    \* the endpoints whose Identify timer counts down
          pc,          \* the next step of each thread
          effect,      \* history: the blinking may be that of a TriggerEffect, which
                       \* no timer has taken over yet
          late,        \* history: a blink_work was still to run when the LED was
                       \* switched off last
          shared       \* history: since the Matter thread started the blinking last, an
                       \* Identify has ended or the shell has armed its timer: what
                       \* ends the blinking for all who wanted it

queueVars == <<work, wq>>
history   == <<effect, late, shared>>
vars == <<blinkTimer, stopTimer, blinkOn, led, queueVars, identify, pc, history>>

StartSteps == {"start_stop_timer_off", "start_reset", "start_blink"}
StopSteps  == {"stop_stop_timer_off", "stop_blink_off", "stop_led_off"}

TypeOK ==
    /\ blinkTimer \in BOOLEAN
    /\ stopTimer \in BOOLEAN
    /\ blinkOn \in BOOLEAN
    /\ led \in BOOLEAN
    /\ work \in BOOLEAN
    /\ wq \in {"idle", "write", "other"}
    /\ identify \subseteq Endpoints
    /\ pc \in [Threads -> {"idle", "auto_stop"} \cup StartSteps \cup StopSteps]
    /\ pc["chip"] # "auto_stop"
    /\ pc["shell"] \notin StopSteps
    /\ effect \in BOOLEAN
    /\ late \in BOOLEAN
    /\ shared \in BOOLEAN

\* After identify_led_init.
Init ==
    /\ blinkTimer = FALSE /\ stopTimer = FALSE
    /\ blinkOn = FALSE /\ led = FALSE
    /\ work = FALSE /\ wq = "idle"
    /\ identify = {}
    /\ pc = [t \in Threads |-> "idle"]
    /\ effect = FALSE
    /\ late = FALSE
    /\ shared = FALSE

-----------------------------------------------------------------------------
BlinkIsComing == work \/ wq = "write"

SwitchOff == led' = FALSE /\ late' = BlinkIsComing

(* Interrupts *)

\* blink_timer_fn; the timer is periodic.
BlinkExpires == /\ blinkTimer
                /\ work' = TRUE
                /\ UNCHANGED <<blinkTimer, stopTimer, blinkOn, led, wq, identify, pc, history>>

\* stop_timer_fn; the timer fires once.
StopExpires == /\ stopTimer
               /\ stopTimer' = FALSE
               /\ blinkTimer' = FALSE
               /\ SwitchOff
               /\ UNCHANGED <<blinkOn, queueVars, identify, pc, effect, shared>>

-----------------------------------------------------------------------------
(* System workqueue: blink_work_fn in two steps, and the sleeping SCD40 poll *)

Toggle == /\ wq = "idle" /\ work
          /\ work' = FALSE
          /\ wq' = "write"
          /\ blinkOn' = ~blinkOn
          /\ UNCHANGED <<blinkTimer, stopTimer, led, identify, pc, history>>

WriteLed == /\ wq = "write"
            /\ wq' = "idle"
            /\ led' = blinkOn
            /\ UNCHANGED <<blinkTimer, stopTimer, blinkOn, work, identify, pc, history>>

OtherWork == /\ \/ wq = "idle" /\ wq' = "other"
                \/ wq = "other" /\ wq' = "idle"
             /\ UNCHANGED <<blinkTimer, stopTimer, blinkOn, led, work, identify, pc, history>>

QueueYields == wq = "other" \/ (wq = "idle" /\ ~work)

-----------------------------------------------------------------------------
(* Threads *)

Runs(t) == /\ QueueYields
           /\ t = "shell" => Shell /\ pc["chip"] = "idle"

Goto(t, from, to) == /\ Runs(t)
                     /\ pc[t] = from
                     /\ pc' = [pc EXCEPT ![t] = to]

(* start_blink, on either thread *)

\* Mutant of StartStopTimerOff: the timer of an earlier shell blink goes on.
StartStopTimerKept(t) ==
    /\ Goto(t, "start_stop_timer_off", "start_reset")
    /\ UNCHANGED <<blinkTimer, stopTimer, blinkOn, led, queueVars, identify, history>>

StartStopTimerOff(t) ==
    /\ Goto(t, "start_stop_timer_off", "start_reset")
    /\ stopTimer' = FALSE
    /\ UNCHANGED <<blinkTimer, blinkOn, led, queueVars, identify, history>>

StartReset(t) ==
    /\ Goto(t, "start_reset", "start_blink")
    /\ blinkOn' = FALSE
    /\ UNCHANGED <<blinkTimer, stopTimer, led, queueVars, identify, history>>

StartBlink(t) ==
    /\ Goto(t, "start_blink", IF t = "shell" THEN "auto_stop" ELSE "idle")
    /\ blinkTimer' = TRUE
    /\ shared' = (shared /\ t = "shell")
    /\ UNCHANGED <<stopTimer, blinkOn, led, queueVars, identify, effect, late>>

(* stop_blink; a blink_work that is pending stays pending *)

StopStopTimerOff ==
    /\ Goto("chip", "stop_stop_timer_off", "stop_blink_off")
    /\ stopTimer' = FALSE
    /\ UNCHANGED <<blinkTimer, blinkOn, led, queueVars, identify, history>>

\* Mutant of StopBlinkOff: stop_blink leaves the blink timer running.
StopBlinkKept ==
    /\ Goto("chip", "stop_blink_off", "stop_led_off")
    /\ UNCHANGED <<blinkTimer, stopTimer, blinkOn, led, queueVars, identify, history>>

StopBlinkOff ==
    /\ Goto("chip", "stop_blink_off", "stop_led_off")
    /\ blinkTimer' = FALSE
    /\ effect' = FALSE
    /\ UNCHANGED <<stopTimer, blinkOn, led, queueVars, identify, late, shared>>

\* Mutant of StopLedOff: the LED keeps the state the last blink gave it.
StopLedKept ==
    /\ Goto("chip", "stop_led_off", "idle")
    /\ UNCHANGED <<blinkTimer, stopTimer, blinkOn, led, queueVars, identify, history>>

StopLedOff ==
    /\ Goto("chip", "stop_led_off", "idle")
    /\ SwitchOff
    /\ UNCHANGED <<blinkTimer, stopTimer, blinkOn, queueVars, identify, effect, shared>>

(* LedIdentifyDelegate, Matter thread *)

OnIdentifyStart(ep) ==
    /\ Goto("chip", "idle", "start_stop_timer_off")
    /\ identify' = identify \cup {ep}
    /\ UNCHANGED <<blinkTimer, stopTimer, blinkOn, led, queueVars, history>>

OnIdentifyStop(ep) ==
    /\ ep \in identify
    /\ Goto("chip", "idle", "stop_stop_timer_off")
    /\ identify' = identify \ {ep}
    /\ shared' = TRUE
    /\ UNCHANGED <<blinkTimer, stopTimer, blinkOn, led, queueVars, effect, late>>

OnTriggerEffect ==
    /\ Effects
    /\ Goto("chip", "idle", "start_stop_timer_off")
    /\ effect' = TRUE
    /\ UNCHANGED <<blinkTimer, stopTimer, blinkOn, led, queueVars, identify, late, shared>>

(* identify_led_trigger, shell thread *)

Trigger ==
    /\ Goto("shell", "idle", "start_stop_timer_off")
    /\ UNCHANGED <<blinkTimer, stopTimer, blinkOn, led, queueVars, identify, history>>

\* Mutant of AutoStop: the 5 s timer is not started.
AutoStopNever ==
    /\ Goto("shell", "auto_stop", "idle")
    /\ UNCHANGED <<blinkTimer, stopTimer, blinkOn, led, queueVars, identify, history>>

AutoStop ==
    /\ Goto("shell", "auto_stop", "idle")
    /\ stopTimer' = TRUE
    /\ effect' = FALSE /\ shared' = TRUE
    /\ UNCHANGED <<blinkTimer, blinkOn, led, queueVars, identify, late>>

-----------------------------------------------------------------------------
Queue     == Toggle \/ WriteLed
Cluster   == OnTriggerEffect \/ \E ep \in Endpoints : OnIdentifyStart(ep) \/ OnIdentifyStop(ep)
Start(t)  == StartStopTimerOff(t) \/ StartReset(t) \/ StartBlink(t)
ChipBusy  == Start("chip") \/ StopStopTimerOff \/ StopBlinkOff \/ StopLedOff
ShellBusy == Start("shell") \/ AutoStop

Next == \/ BlinkExpires \/ StopExpires
        \/ Queue \/ OtherWork
        \/ Cluster \/ ChipBusy
        \/ Trigger \/ ShellBusy

\* Timers expire, Identify timers run out, the queue drains between two ticks of
\* 250 ms, and a thread gets on with what it has begun.  Nobody has to start
\* anything.
Fairness ==
    /\ WF_vars(StopExpires)
    /\ WF_vars(BlinkExpires)
    /\ WF_vars(Queue)
    /\ WF_vars(wq = "other" /\ OtherWork)
    /\ []<>QueueYields
    /\ SF_vars(ChipBusy)
    /\ SF_vars(ShellBusy)
    /\ \A ep \in Endpoints : SF_vars(OnIdentifyStop(ep))

Spec == Init /\ [][Next]_vars /\ Fairness

-----------------------------------------------------------------------------
(* Properties *)

ThreadsIdle == \A t \in Threads : pc[t] = "idle"

\* A blinking LED has somebody who will stop it, an Identify timer or the
\* auto-stop timer, in whatever order endpoints and shell started it - unless a
\* TriggerEffect did and nobody took over since.
BlinkHasOwner == blinkTimer /\ ThreadsIdle => identify # {} \/ stopTimer \/ effect

\* An Identify keeps the LED blinking until an Identify ends or the shell is used: the
\* 5 s timer that an earlier "matter identify" left running never ends it, however
\* the threads and the timers' interrupts interleave with start_blink.
IdentifyKeepsBlinking ==
    identify # {} /\ pc["chip"] = "idle" => blinkTimer \/ shared

\* "The LED blinks while the Matter Identify timer counts down (OnIdentifyStart /
\* OnIdentifyStop)" (identify_led.cpp:5-6).  However starts, stops and both timers
\* interleave, it is lit without blinking only if a blink_work was still to run when
\* it was switched off last: stop_blink does not cancel that one.
LitOnlyIfLate == ThreadsIdle /\ ~blinkTimer /\ led => late

\* Whatever started the blinking, and whatever else was started meanwhile: when
\* the Identify timer runs out, OnIdentifyStop ends it.
IdentifyEndsBlinking == identify # {} ~> ~blinkTimer
=============================================================================
