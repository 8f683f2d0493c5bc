-------------------------- MODULE PdmManagerProofs --------------------------
(***************************************************************************)
(* Proofs about PdmManager, with and without the shell's stream: types,    *)
(* who keeps the microphone on, and where an ACK may come from.            *)
(***************************************************************************)
EXTENDS PdmManager, TLAPS

LEMMA ZeroOrOne == 0 .. 1 = {0, 1}
OBVIOUS

\* The types, by who writes the variables: the interrupt and the driver, ...
DriverTypes ==
    /\ op \in {"idle", "running", "stopping"}
    /\ cur \in 0 .. 1
    /\ sound \in [0 .. 1 -> Sounds]
    /\ bufAvailable \in BOOLEAN
    /\ bufReadyIdx \in 0 .. 1
    /\ work \in BOOLEAN
    /\ heard \in BOOLEAN

\* ... the workqueue and the shell thread, ...
QueueTypes ==
    /\ wq \in {"idle", "copy", "detect", "other"}
    /\ src \in 0 .. 1
    /\ claimed \in Sounds
    /\ sh \in {"idle", "check", "start", "stop"}
    /\ verbose \in BOOLEAN
    /\ verboseOwn \in BOOLEAN

\* ... and the dispatch thread.
WindowTypes ==
    /\ disp \in {"transmit", "clear", "arm", "start", "wait", "disarm", "stop"}
    /\ captureActive \in BOOLEAN
    /\ ackSem \in 0 .. 1
    /\ acked \in BOOLEAN
    /\ cut \in BOOLEAN
    /\ due \in BOOLEAN

LEMMA TypesOK == TypeOK <=> DriverTypes /\ QueueTypes /\ WindowTypes
BY DEF TypeOK, DriverTypes, QueueTypes, WindowTypes

LEMMA InitTypeOK == Init => TypeOK
BY ZeroOrOne DEF Init, TypeOK, Sounds

LEMMA NextDriverTypes == DriverTypes /\ [Next]_vars => DriverTypes'
<1> SUFFICES ASSUME DriverTypes, [Next]_vars PROVE DriverTypes'
    OBVIOUS
<1> USE DEF DriverTypes
<1>1. CASE BufferFull
    BY <1>1, ZeroOrOne DEF BufferFull, Release
<1>2. CASE Stopped
    <2>1. op' = "idle" /\ cur' = cur /\ bufAvailable' = TRUE /\ work' = TRUE
          /\ bufReadyIdx' \in 0 .. 1
        BY <1>2 DEF Stopped, Release
    <2>2. sound' \in [0 .. 1 -> Sounds] /\ heard' \in BOOLEAN
        BY <1>2, ZeroOrOne DEF Stopped
    <2> QED
        BY <2>1, <2>2
<1>3. CASE ClaimNothing \/ Claim \/ BeginListen \/ Clear
    BY <1>3 DEF ClaimNothing, Claim, BeginListen, Clear
<1>4. CASE Copy
    BY <1>4 DEF Copy
<1>5. CASE Start \/ OnStart
    BY <1>5 DEF Start, OnStart, NrfxStart
<1>6. CASE Stop \/ OffStop
    BY <1>6 DEF Stop, OffStop, NrfxStop
<1>7. CASE Verdict \/ OtherWork \/ Arm \/ AckTaken \/ Timeout \/ Disarm
           \/ CfarOn \/ OnCheck \/ CfarOff \/ UNCHANGED vars
    <2>1. UNCHANGED isrVars
        BY <1>7 DEF Verdict, OtherWork, Arm, AckTaken, Timeout, Disarm, CfarOn, OnCheck,
                    CfarOff, vars
    <2> QED
        BY <2>1 DEF isrVars
<1> QED
    BY <1>1, <1>2, <1>3, <1>4, <1>5, <1>6, <1>7
    DEF Next, Interrupt, Queue, Listen, Cfar

LEMMA NextQueueTypes == DriverTypes /\ QueueTypes /\ [Next]_vars => QueueTypes'
<1> SUFFICES ASSUME DriverTypes, QueueTypes, [Next]_vars PROVE QueueTypes'
    OBVIOUS
<1> USE DEF QueueTypes
<1>1. CASE Claim
    BY <1>1 DEF Claim, shellVars, DriverTypes
<1>2. CASE Copy
    <2>1. claimed' \in Sounds
        BY <1>2 DEF Copy, DriverTypes
    <2>2. wq' = "detect" /\ src' = 0 /\ UNCHANGED shellVars
        BY <1>2 DEF Copy
    <2> QED
        BY <2>1, <2>2, ZeroOrOne DEF shellVars
<1>3. CASE Verdict \/ OtherWork
    BY <1>3 DEF Verdict, OtherWork, shellVars, Sounds
<1>4. CASE Cfar
    <2>1. UNCHANGED wqVars
        BY <1>4 DEF Cfar, CfarOn, OnCheck, OnStart, CfarOff, OffStop
    <2>2. CASE CfarOn \/ OnCheck
        BY <2>1, <2>2 DEF CfarOn, OnCheck, wqVars
    <2>3. CASE OnStart
        BY <2>1, <2>3 DEF OnStart, wqVars
    <2>4. CASE CfarOff \/ OffStop
        BY <2>1, <2>4 DEF CfarOff, OffStop, wqVars
    <2> QED
        BY <1>4, <2>2, <2>3, <2>4 DEF Cfar
<1>5. CASE Interrupt \/ ClaimNothing \/ BeginListen \/ Listen \/ UNCHANGED vars
    <2>1. UNCHANGED <<wqVars, shellVars>>
        BY <1>5 DEF Interrupt, BufferFull, Stopped, ClaimNothing, BeginListen, Listen, Clear,
                    Arm, Start, AckTaken, Timeout, Disarm, Stop, vars
    <2> QED
        BY <2>1 DEF wqVars, shellVars
<1> QED
    BY <1>1, <1>2, <1>3, <1>4, <1>5 DEF Next, Queue

LEMMA NextWindowTypes == WindowTypes /\ [Next]_vars => WindowTypes'
<1> SUFFICES ASSUME WindowTypes, [Next]_vars PROVE WindowTypes'
    OBVIOUS
<1> USE DEF WindowTypes, history
<1>1. CASE BufferFull
    <2>1. due' \in BOOLEAN
        BY <1>1 DEF BufferFull
    <2> QED
        BY <1>1, <2>1 DEF BufferFull
<1>2. CASE Verdict
    BY <1>2, ZeroOrOne DEF Verdict
<1>3. CASE OtherWork
    BY <1>3 DEF OtherWork
<1>4. CASE BeginListen \/ Clear \/ Arm
    BY <1>4, ZeroOrOne DEF BeginListen, Clear, Arm
<1>5. CASE Start
    BY <1>5 DEF Start
<1>6. CASE AckTaken
    BY <1>6, ZeroOrOne DEF AckTaken
<1>7. CASE Timeout
    <2>1. due' \in BOOLEAN
        BY <1>7 DEF Timeout
    <2> QED
        BY <1>7, <2>1 DEF Timeout
<1>8. CASE Disarm \/ Stop
    BY <1>8 DEF Disarm, Stop
<1>9. CASE OffStop
    BY <1>9 DEF OffStop
<1>10. CASE Stopped \/ ClaimNothing \/ Claim \/ Copy \/ CfarOn \/ OnCheck \/ OnStart
            \/ CfarOff \/ UNCHANGED vars
    <2>1. UNCHANGED <<disp, captureActive, ackSem, acked, history>>
        BY <1>10 DEF Stopped, ClaimNothing, Claim, Copy, CfarOn, OnCheck, OnStart, CfarOff,
                     vars
    <2> QED
        BY <2>1
<1> QED
    BY <1>1, <1>2, <1>3, <1>4, <1>5, <1>6, <1>7, <1>8, <1>9, <1>10
    DEF Next, Interrupt, Queue, Listen, Cfar

LEMMA NextTypeOK == TypeOK /\ [Next]_vars => TypeOK'
<1>1. TypeOK' <=> DriverTypes' /\ QueueTypes' /\ WindowTypes'
    BY TypesOK, PTL
<1> QED
    BY <1>1, TypesOK, NextDriverTypes, NextQueueTypes, NextWindowTypes

\* All variables keep their types; ack_sem never counts beyond one.
THEOREM TypeCorrect == Spec => []TypeOK
BY InitTypeOK, NextTypeOK, PTL DEF Spec

-----------------------------------------------------------------------------
\* The stream owns the microphone also in the first steps of a window, before the
\* window has started it.
Owned == op = "running" /\ disp \in {"transmit", "clear", "arm", "start"} => verboseOwn

LEMMA NextOwned == Owned /\ [Next]_vars => Owned'
<1> SUFFICES ASSUME Owned, [Next]_vars PROVE Owned'
    OBVIOUS
<1> USE DEF Owned, history
<1>1. CASE Interrupt \/ Queue \/ OtherWork
    BY <1>1 DEF Interrupt, BufferFull, Stopped, Queue, ClaimNothing, Claim, Copy,
                Verdict, OtherWork, isrVars, wqVars, shellVars
<1>2. CASE BeginListen \/ Clear \/ Arm \/ AckTaken \/ Timeout \/ Disarm
    BY <1>2 DEF BeginListen, Clear, Arm, AckTaken, Timeout, Disarm, isrVars, wqVars,
                shellVars
<1>3. CASE Start
    BY <1>3 DEF Start
<1>4. CASE Stop
    BY <1>4 DEF Stop, NrfxStop
<1>5. CASE CfarOn \/ OnCheck \/ CfarOff
    BY <1>5 DEF CfarOn, OnCheck, CfarOff, isrVars
<1>6. CASE OnStart
    BY <1>6 DEF OnStart, NrfxStart
<1>7. CASE OffStop
    BY <1>7 DEF OffStop, NrfxStop
<1>8. CASE UNCHANGED vars
    BY <1>8 DEF vars, isrVars, shellVars
<1> QED
    BY <1>1, <1>2, <1>3, <1>4, <1>5, <1>6, <1>7, <1>8 DEF Next, Listen, Cfar

\* Outside a window the microphone is on only for a stream the shell can stop,
\* whatever the order of windows, "cfar on" and "cfar off".
THEOREM MicHasOwnerCorrect == Spec => []MicHasOwner
<1>1. Init => Owned
    BY DEF Init, Owned
<1>2. Owned => MicHasOwner
    BY DEF Owned, MicHasOwner
<1> QED
    BY <1>1, <1>2, NextOwned, PTL DEF Spec

-----------------------------------------------------------------------------
(* Where an ACK comes from *)

Excused == heard \/ cut

\* From "clear" on the window knows only sounds of its own: what is available, what
\* is being examined and what ack_sem counts.  The last is safe already before
\* that, because nothing is counted until pdm_capture_active is set.
Fresh ==
    /\ captureActive => disp \in {"start", "wait", "disarm"}
    /\ disp # "transmit" /\ op = "stopping" => cut
    /\ disp \notin {"transmit", "clear"} /\ bufAvailable /\ sound[bufReadyIdx] = "beep"
           => Excused
    /\ disp \notin {"transmit", "clear"} /\ wq = "copy"
       /\ (claimed = "beep" \/ sound[src] = "beep") => Excused
    /\ disp \notin {"transmit", "clear"} /\ wq = "detect" /\ claimed = "beep" => Excused
    /\ disp # "transmit" /\ ackSem = 1 => Excused
    /\ disp \in {"disarm", "stop"} /\ acked => Excused

LEMMA NextFresh == TypeOK /\ Fresh /\ [Next]_vars => Fresh'
<1> SUFFICES ASSUME TypeOK, Fresh, [Next]_vars PROVE Fresh'
    OBVIOUS
<1> USE DEF TypeOK, Sounds, Fresh, Excused, history
<1>1. CASE BufferFull
    BY <1>1 DEF BufferFull, Release, wqVars, shellVars
<1>2. CASE Stopped
    BY <1>2 DEF Stopped, Release, wqVars, shellVars
<1>3. CASE ClaimNothing \/ Verdict
    BY <1>3 DEF ClaimNothing, Verdict, isrVars, wqVars, shellVars
<1>15. CASE Claim
    BY <1>15 DEF Claim, shellVars
<1>16. CASE Copy
    BY <1>16 DEF Copy, shellVars
<1>4. CASE OtherWork
    BY <1>4 DEF OtherWork, isrVars, shellVars
<1>5. CASE BeginListen
    BY <1>5 DEF BeginListen, wqVars, shellVars
<1>6. CASE Clear
    BY <1>6 DEF Clear, QueueYields, wqVars, shellVars
<1>7. CASE Arm
    BY <1>7 DEF Arm, isrVars, wqVars, shellVars
<1>8. CASE Start
    BY <1>8 DEF Start, NrfxStart, wqVars, shellVars
<1>9. CASE AckTaken \/ Timeout \/ Disarm
    BY <1>9 DEF AckTaken, Timeout, Disarm, isrVars, wqVars, shellVars
<1>10. CASE Stop
    BY <1>10 DEF Stop, NrfxStop, wqVars, shellVars
<1>11. CASE CfarOn \/ OnCheck \/ CfarOff
    BY <1>11 DEF CfarOn, OnCheck, CfarOff, isrVars, wqVars
<1>12. CASE OnStart
    BY <1>12 DEF OnStart, NrfxStart, wqVars
<1>13. CASE OffStop
    BY <1>13 DEF OffStop, NrfxStop, wqVars
<1>14. CASE UNCHANGED vars
    BY <1>14 DEF vars, isrVars, wqVars, shellVars
<1> QED
    BY <1>1, <1>2, <1>3, <1>4, <1>5, <1>6, <1>7, <1>8, <1>9, <1>10, <1>11, <1>12,
       <1>13, <1>14, <1>15, <1>16 DEF Next, Interrupt, Queue, Listen, Cfar

\* An ACK is reported only if a beep was recorded since the window opened, or the
\* shell stopped the driver under the window.
THEOREM AckIsFreshUnlessCutCorrect == Spec => []AckIsFreshUnlessCut
<1>1. Init => Fresh
    BY DEF Init, Fresh
<1>2. Fresh => AckIsFreshUnlessCut
    BY DEF Fresh, Excused, AckIsFreshUnlessCut, AckIsFresh
<1> QED
    BY <1>1, <1>2, InitTypeOK, NextTypeOK, NextFresh, PTL DEF Spec

-----------------------------------------------------------------------------
(* Where a beep goes *)

\* The beep that is due is counted, is being examined, or is on its way to the queue,
\* in the one buffer that the DMA does not write.
OnItsWay ==
    \/ ackSem = 1
    \/ /\ work /\ wq = "idle"
       /\ bufAvailable /\ sound[bufReadyIdx] = "beep" /\ bufReadyIdx # cur
    \/ /\ ~work /\ wq = "copy"
       /\ claimed = "beep" /\ sound[src] = "beep" /\ src # cur
    \/ ~work /\ wq = "detect" /\ claimed = "beep"

\* While it is on its way the driver runs: nobody has the processor to stop it.
Passed == due => /\ disp = "wait" /\ captureActive
                 /\ OnItsWay
                 /\ ackSem = 1 \/ op = "running"

LEMMA NextPassed == TypeOK /\ Passed /\ [Next]_vars => Passed'
<1> SUFFICES ASSUME TypeOK, Passed, [Next]_vars PROVE Passed'
    OBVIOUS
<1> USE DEF TypeOK, Sounds, Passed, OnItsWay, Pending, history
<1>1. CASE BufferFull
    <2>1. PICK s \in Sounds :
              /\ sound' = [sound EXCEPT ![cur] = s]
              /\ due' => ~Pending /\ (due \/ (s = "beep" /\ wq = "idle" /\ disp = "wait"
                                                        /\ captureActive))
        BY <1>1 DEF BufferFull
    <2>2. /\ op = "running" /\ cur' = 1 - cur
          /\ bufReadyIdx' = cur /\ bufAvailable' /\ work'
          /\ UNCHANGED <<op, captureActive, ackSem, wq, disp>>
        BY <1>1 DEF BufferFull, Release, wqVars
    <2>3. CASE due /\ ~Pending
        BY <2>2, <2>3
    <2>4. CASE due' /\ ~due
        <3>1. s = "beep" /\ wq = "idle" /\ disp = "wait" /\ captureActive
            BY <2>1, <2>4
        <3>2. sound'[cur] = "beep" /\ cur # 1 - cur
            BY <2>1, <3>1
        <3> QED
            BY <2>2, <3>1, <3>2
    <2> QED
        BY <2>1, <2>3, <2>4
<1>2. CASE Stopped
    BY <1>2 DEF Stopped, Release, wqVars, shellVars
<1>3. CASE ClaimNothing \/ Claim
    BY <1>3 DEF ClaimNothing, Claim, wqVars, shellVars
<1>4. CASE Copy
    BY <1>4 DEF Copy, shellVars
<1>5. CASE Verdict
    BY <1>5 DEF Verdict, isrVars, shellVars
<1>6. CASE OtherWork
    BY <1>6 DEF OtherWork, isrVars, shellVars
<1>7. CASE BeginListen \/ Clear \/ Arm \/ Start
    BY <1>7 DEF BeginListen, Clear, Arm, Start, isrVars, wqVars, shellVars
<1>8. CASE Timeout
    <2>1. ackSem = 0 /\ (due' => due) /\ (due' => ~Pending)
        BY <1>8 DEF Timeout
    <2>2. ~due'
        BY <2>1
    <2> QED
        BY <2>2
<1>12. CASE AckTaken
    BY <1>12 DEF AckTaken
<1>13. CASE Disarm \/ Stop
    BY <1>13 DEF Disarm, Stop
<1>9. CASE CfarOn \/ OnCheck \/ CfarOff
    BY <1>9 DEF CfarOn, OnCheck, CfarOff, isrVars, wqVars
<1>10. CASE OnStart \/ OffStop
    BY <1>10 DEF OnStart, OffStop, NrfxStart, ShellRuns, QueueYields, wqVars
<1>11. CASE UNCHANGED vars
    BY <1>11 DEF vars, isrVars, wqVars, shellVars
<1> QED
    BY <1>1, <1>2, <1>3, <1>4, <1>5, <1>6, <1>7, <1>8, <1>9, <1>10, <1>11, <1>12,
       <1>13 DEF Next, Interrupt, Queue, Listen, Cfar

\* A beep that the queue examines in time is never missed: whatever interrupts,
\* timeouts and shell commands come between, it ends the wait it was recorded in.
THEOREM BeepIsAckedCorrect == Spec => []BeepIsAcked
<1>1. Init => Passed
    BY DEF Init, Passed
<1>2. Passed => BeepIsAcked
    BY DEF Passed, BeepIsAcked
<1> QED
    BY <1>1, <1>2, InitTypeOK, NextTypeOK, NextPassed, PTL DEF Spec
=============================================================================
