----------------------------- MODULE PdmManager -----------------------------
(***************************************************************************)
(* The microphone manager (pdm_manager.cpp): the listen window the IR      *)
(* dispatch thread opens after every transmission, the PDM interrupt, the  *)
(* detection work item on the system workqueue, and the shell's "ac cfar". *)
(*                                                                         *)
(* Scheduling is that of the build.  The system workqueue is a cooperative *)
(* thread: it goes before every other thread as soon as it has work, and   *)
(* only the interrupt runs between the steps of a handler - unless the     *)
(* handler sleeps, as the SCD40 poll does on the same queue.  The dispatch *)
(* thread (priority 10) goes before the shell thread, which runs only      *)
(* while the former is blocked.                                            *)
(***************************************************************************)
EXTENDS Naturals

CONSTANT Verbose      \* is "ac cfar on|off" used?

ASSUME VerboseAssumption == Verbose \in BOOLEAN

VARIABLES op,             \* state of the nrfx driver
          cur,            \* the buffer the DMA fills
          sound,          \* what each pdm_buf holds
          bufAvailable,
          bufReadyIdx,
          captureActive,  \* pdm_capture_active
          ackSem,         \* ack_sem
          verbose,        \* pdm_verbose
          verboseOwn,     \* pdm_verbose_own
          work,           \* is pdm_process_work submitted?
          wq,             \* what the system workqueue runs
          src,            \* the buffer the detection copies, idx
          claimed,        \* what it has copied, fft_in
          disp,           \* where the dispatch thread stands
          sh,             \* where the shell thread stands
          acked,          \* result of the last collect_ack
          heard,          \* history: a beep was recorded since the last k_sem_reset
          cut,            \* history: "ac cfar off" has stopped the driver since then
          due             \* history: a beep was recorded in the open window, and the
                          \* queue has got round to it, or still has the time to

isrVars   == <<op, cur, sound, bufAvailable, bufReadyIdx, work, heard>>
wqVars    == <<wq, src, claimed>>
shellVars == <<sh, verbose, verboseOwn>>
history   == <<cut, due>>
vars == <<isrVars, captureActive, ackSem, wqVars, shellVars, disp, acked, history>>

Sounds == {"quiet", "beep"}

TypeOK ==
    /\ op \in {"idle", "running", "stopping"}
    /\ cur \in 0 .. 1
    /\ sound \in [0 .. 1 -> Sounds]
    /\ bufAvailable \in BOOLEAN
    /\ bufReadyIdx \in 0 .. 1
    /\ captureActive \in BOOLEAN
    /\ ackSem \in 0 .. 1
    /\ verbose \in BOOLEAN
    /\ verboseOwn \in BOOLEAN
    /\ work \in BOOLEAN
    /\ wq \in {"idle", "copy", "detect", "other"}
    /\ src \in 0 .. 1
    /\ claimed \in Sounds
    /\ disp \in {"transmit", "clear", "arm", "start", "wait", "disarm", "stop"}
    /\ sh \in {"idle", "check", "start", "stop"}
    /\ acked \in BOOLEAN
    /\ heard \in BOOLEAN
    /\ cut \in BOOLEAN
    /\ due \in BOOLEAN

\* After pdm_manager_init.
Init ==
    /\ op = "idle"
    /\ cur = 0
    /\ sound = [b \in 0 .. 1 |-> "quiet"]
    /\ bufAvailable = FALSE
    /\ bufReadyIdx = 0
    /\ captureActive = FALSE
    /\ ackSem = 0
    /\ verbose = FALSE
    /\ verboseOwn = FALSE
    /\ work = FALSE
    /\ wq = "idle"
    /\ src = 0 /\ claimed = "quiet"
    /\ disp = "transmit"
    /\ sh = "idle"
    /\ acked = FALSE
    /\ heard = FALSE
    /\ cut = FALSE /\ due = FALSE

-----------------------------------------------------------------------------
(* nrfx_pdm and its interrupt handler, pdm_event_handler *)

\* A driver that is stopping is busy; one that runs already may call that
\* success or "busy".
NrfxStart(ok) == \/ op = "idle" /\ ok /\ op' = "running"
                 \/ op = "running" /\ UNCHANGED op
                 \/ op = "stopping" /\ ~ok /\ UNCHANGED op
NrfxStop == op' = IF op = "running" THEN "stopping" ELSE op

Release(b) == /\ bufReadyIdx' = b
              /\ bufAvailable' = TRUE
              /\ work' = TRUE

\* The queue is not done with the buffer before.
Pending == work \/ wq \in {"copy", "detect"}

BufferFull ==
    /\ op = "running"
    /\ \E s \in Sounds :
          /\ sound' = [sound EXCEPT ![cur] = s]
          /\ heard' = (heard \/ s = "beep")
          /\ due' = /\ ~Pending
                    /\ \/ due
                       \/ s = "beep" /\ wq = "idle" /\ disp = "wait" /\ captureActive
    /\ cur' = 1 - cur
    /\ Release(cur)
    /\ UNCHANGED <<op, captureActive, ackSem, wqVars, shellVars, disp, acked, cut>>

\* The driver gives both buffers back: the one it was filling, with new or still
\* mostly old samples in it, and the next one, with its old samples.
Stopped ==
    /\ op = "stopping"
    /\ op' = "idle"
    /\ \/ \E s \in Sounds :
             /\ sound' = [sound EXCEPT ![cur] = s]
             /\ heard' = (heard \/ s = "beep")
       \/ UNCHANGED <<sound, heard>>
    /\ \E b \in 0 .. 1 : Release(b)
    /\ UNCHANGED <<cur, captureActive, ackSem, wqVars, shellVars, disp, acked, history>>

-----------------------------------------------------------------------------
(* System workqueue *)

ClaimNothing ==
    /\ wq = "idle" /\ work /\ ~bufAvailable
    /\ work' = FALSE
    /\ UNCHANGED <<op, cur, sound, bufAvailable, bufReadyIdx, heard, captureActive,
                   ackSem, wqVars, shellVars, disp, acked, history>>

\* Mutant of Claim: the buffer that the DMA fills.
ClaimCurrent ==
    /\ wq = "idle" /\ work /\ bufAvailable
    /\ work' = FALSE
    /\ wq' = "copy" /\ src' = cur /\ claimed' = sound[cur]
    /\ bufAvailable' = FALSE
    /\ UNCHANGED <<op, cur, sound, bufReadyIdx, heard, captureActive, ackSem,
                   shellVars, disp, acked, history>>

Claim ==
    /\ wq = "idle" /\ work /\ bufAvailable
    /\ work' = FALSE
    /\ wq' = "copy" /\ src' = bufReadyIdx /\ claimed' = sound[bufReadyIdx]
    /\ bufAvailable' = FALSE
    /\ UNCHANGED <<op, cur, sound, bufReadyIdx, heard, captureActive, ackSem,
                   shellVars, disp, acked, history>>

\* The buffer is copied with interrupts on.  If it has been filled again meanwhile,
\* or the DMA is at it, the copy is of two recordings and is taken for either.
Copy ==
    /\ wq = "copy"
    /\ wq' = "detect" /\ src' = 0
    /\ \/ UNCHANGED <<claimed, heard>>
       \/ claimed' = sound[src] /\ UNCHANGED heard
       \/ /\ op # "idle" /\ src = cur
          /\ \E s \in Sounds : claimed' = s /\ heard' = (heard \/ s = "beep")
    /\ UNCHANGED <<op, cur, sound, bufAvailable, bufReadyIdx, work, captureActive, ackSem,
                   shellVars, disp, acked, history>>

Verdict ==
    /\ wq = "detect"
    /\ wq' = "idle" /\ claimed' = "quiet"
    /\ ackSem' = IF captureActive /\ claimed = "beep" THEN 1 ELSE ackSem
    /\ UNCHANGED <<isrVars, src, captureActive, shellVars, disp, acked, history>>

\* The SCD40 poll, which sleeps on the queue while it retries.
OtherWork ==
    /\ \/ wq = "idle" /\ wq' = "other" /\ due' = (due /\ ~work)
       \/ wq = "other" /\ wq' = "idle" /\ UNCHANGED due
    /\ UNCHANGED <<isrVars, src, claimed, captureActive, ackSem, shellVars, disp, acked, cut>>

\* No thread runs while the workqueue has something to do and is awake.
QueueYields == wq = "other" \/ (wq = "idle" /\ ~work)

-----------------------------------------------------------------------------
(* pdm_manager_start_listen and pdm_manager_collect_ack, dispatch thread *)

\* k_sem_reset, half a second (a transmission) or more after the last window:
\* the driver has long reported that it stopped.
BeginListen ==
    /\ QueueYields
    /\ disp = "transmit"
    /\ op # "stopping"
    /\ disp' = "clear"
    /\ ackSem' = 0
    /\ heard' = FALSE
    /\ cut' = FALSE /\ due' = FALSE
    /\ UNCHANGED <<op, cur, sound, bufAvailable, bufReadyIdx, work, captureActive,
                   wqVars, shellVars, acked>>

\* Mutant of Clear: the buffer of the last window stays available.
ClearNothing ==
    /\ QueueYields
    /\ disp = "clear"
    /\ disp' = "arm"
    /\ UNCHANGED <<isrVars, captureActive, ackSem, wqVars, shellVars, acked, history>>

Clear ==
    /\ QueueYields
    /\ disp = "clear"
    /\ disp' = "arm"
    /\ bufAvailable' = FALSE
    /\ UNCHANGED <<op, cur, sound, bufReadyIdx, work, heard, captureActive, ackSem,
                   wqVars, shellVars, acked, history>>

Arm ==
    /\ QueueYields
    /\ disp = "arm"
    /\ disp' = "start"
    /\ captureActive' = TRUE
    /\ UNCHANGED <<isrVars, ackSem, wqVars, shellVars, acked, history>>

Start ==
    /\ QueueYields
    /\ disp = "start"
    /\ disp' = "wait"
    /\ \E ok \in BOOLEAN :
          /\ NrfxStart(ok)
          /\ captureActive' = ok
    /\ UNCHANGED <<cur, sound, bufAvailable, bufReadyIdx, work, heard, ackSem,
                   wqVars, shellVars, acked, history>>

AckTaken ==
    /\ QueueYields
    /\ disp = "wait"
    /\ ackSem = 1
    /\ disp' = "disarm"
    /\ ackSem' = 0
    /\ acked' = TRUE /\ due' = FALSE
    /\ UNCHANGED <<isrVars, captureActive, wqVars, shellVars, cut>>

\* Mutant of Timeout: the thread waits for the ACK forever.
TimeoutNever == FALSE /\ UNCHANGED vars

\* The kernel's timer ends the wait, also in the middle of the detection, whose give
\* then comes too late; a give before that has ended it already.
Timeout ==
    /\ disp = "wait"
    /\ ackSem = 0
    /\ disp' = "disarm"
    /\ acked' = FALSE /\ due' = (due /\ ~Pending)
    /\ UNCHANGED <<isrVars, captureActive, ackSem, wqVars, shellVars, cut>>

Disarm ==
    /\ QueueYields
    /\ disp = "disarm"
    /\ disp' = "stop"
    /\ captureActive' = FALSE
    /\ UNCHANGED <<isrVars, ackSem, wqVars, shellVars, acked, history>>

Stop ==
    /\ QueueYields
    /\ disp = "stop"
    /\ disp' = "transmit"
    /\ NrfxStop
    /\ UNCHANGED <<cur, sound, bufAvailable, bufReadyIdx, work, heard,
                   captureActive, ackSem, wqVars, shellVars, acked, history>>

Listen == Clear \/ Arm \/ Start \/ AckTaken \/ Timeout \/ Disarm \/ Stop

-----------------------------------------------------------------------------
(* pdm_manager_verbose_start and pdm_manager_verbose_stop, shell thread *)

ShellRuns == /\ Verbose
             /\ QueueYields
             /\ disp \in {"transmit", "wait"}

CfarOn ==
    /\ ShellRuns
    /\ sh = "idle"
    /\ sh' = "check"
    /\ verbose' = TRUE
    /\ UNCHANGED <<isrVars, captureActive, ackSem, wqVars, verboseOwn, disp, acked, history>>

OnCheck ==
    /\ ShellRuns
    /\ sh = "check"
    /\ sh' = IF captureActive THEN "idle" ELSE "start"
    /\ UNCHANGED <<isrVars, captureActive, ackSem, wqVars, verbose, verboseOwn,
                   disp, acked, history>>

\* Mutant of OnStart: the successful start is not remembered.
OnStartDisowned ==
    /\ ShellRuns
    /\ sh = "start"
    /\ sh' = "idle"
    /\ \E ok \in BOOLEAN : NrfxStart(ok)
    /\ UNCHANGED <<cur, sound, bufAvailable, bufReadyIdx, work, heard,
                   captureActive, ackSem, wqVars, verbose, verboseOwn, disp, acked, history>>

OnStart ==
    /\ ShellRuns
    /\ sh = "start"
    /\ sh' = "idle"
    /\ \E ok \in BOOLEAN :
          /\ NrfxStart(ok)
          /\ verboseOwn' = (verboseOwn \/ ok)
    /\ UNCHANGED <<cur, sound, bufAvailable, bufReadyIdx, work, heard,
                   captureActive, ackSem, wqVars, verbose, disp, acked, history>>

CfarOff ==
    /\ ShellRuns
    /\ sh = "idle"
    /\ sh' = IF verboseOwn THEN "stop" ELSE "idle"
    /\ verbose' = FALSE
    /\ UNCHANGED <<isrVars, captureActive, ackSem, wqVars, verboseOwn, disp, acked, history>>

OffStop ==
    /\ ShellRuns
    /\ sh = "stop"
    /\ sh' = "idle"
    /\ NrfxStop
    /\ verboseOwn' = FALSE
    /\ cut' = TRUE
    /\ UNCHANGED <<cur, sound, bufAvailable, bufReadyIdx, work, heard,
                   captureActive, ackSem, wqVars, verbose, disp, acked, due>>

-----------------------------------------------------------------------------
Interrupt == BufferFull \/ Stopped
Queue     == ClaimNothing \/ Claim \/ Copy \/ Verdict
Cfar      == CfarOn \/ OnCheck \/ OnStart \/ CfarOff \/ OffStop

Next == Interrupt \/ Queue \/ OtherWork \/ BeginListen \/ Listen \/ Cfar

\* Interrupts arrive, handlers and the window end, and the queue catches up now
\* and then: a buffer takes 64 ms to fill and a few to examine.  Nobody has to
\* send another command (BeginListen) or to type one (CfarOn, CfarOff).
Fairness == /\ WF_vars(BufferFull) /\ WF_vars(Stopped)
            /\ WF_vars(Queue)
            /\ []<>QueueYields
            /\ SF_vars(Listen)
            /\ SF_vars(OnCheck \/ OnStart \/ OffStop)

Spec == Init /\ [][Next]_vars /\ Fairness

-----------------------------------------------------------------------------
(* Properties *)

\* An ACK belongs to the transmission it confirms: collect_ack reports one only
\* if a beep was recorded since its own window opened - not on a buffer or a
\* semaphore count left over from the window before.
AckIsFresh == disp \in {"disarm", "stop"} /\ acked => heard

\* The same as long as nobody stops the driver under the window.
AckIsFreshUnlessCut == AckIsFresh \/ cut

\* No ACK is lost but to a busy queue: a beep of the open window whose buffer the
\* queue examined before the timeout, without another buffer or the sensor poll
\* between, has ended the wait - capture flag, buffer index, semaphore and the second
\* buffer pass it on whatever the shell does meanwhile.
BeepIsAcked == due => disp = "wait"

\* Outside a window the microphone is on only for a stream the shell can still
\* stop.
MicHasOwner == op = "running" /\ disp = "transmit" => verboseOwn

\* The microphone does not stay on for good unless somebody asked for a stream:
\* every window ends, however busy the workqueue is, and takes it down.
MicGoesOff == op = "running" ~> op # "running" \/ verbose
=============================================================================
