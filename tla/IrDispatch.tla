----------------------------- MODULE IrDispatch -----------------------------
(***************************************************************************)
(* The hand-over of IR commands from the threads that issue them to the    *)
(* dispatch thread, and the thread's retry loop (ir_driver.cpp).           *)
(*                                                                         *)
(* A command is a frame of parts: part 0 is its pulse count and parts      *)
(* 1..LAST are the chunks of its pulses, copied one at a time, so that a   *)
(* frame could be torn if the mutex did not protect it.  A part is the     *)
(* name of the command it belongs to.  Threads interleave between any two  *)
(* steps; the listen window of PdmManager is one step with a free outcome. *)
(***************************************************************************)
EXTENDS Naturals

CONSTANTS Producers,       \* threads calling ir_dispatch_command: the chip stack, the shell
          Cmds,            \* distinct frames
          NoCmd,           \* content of the zero-initialised buffers
          LAST,            \* index of the last part of a frame
          IR_RETRY_COUNT

Dispatcher == "ir_dispatch_thread"
Nobody     == "nobody"

ASSUME NoCmdIsNoCommand  == NoCmd \notin Cmds
ASSUME LastAssumption    == LAST \in Nat
ASSUME RetryAssumption   == IR_RETRY_COUNT \in Nat \ {0}
ASSUME ThreadsAssumption == {Dispatcher, Nobody} \cap Producers = {}

Part  == 0 .. LAST
Frame == [Part -> Cmds \cup {NoCmd}]

VARIABLES sem,        \* ir_dispatch_sem: 0 or 1
          mutex,      \* owner of ir_dispatch_mutex
          pending,    \* ir_pending_count and ir_pending_buf
          active,     \* ir_active_count and ir_active_buf
          pc,         \* where each producer stands in ir_dispatch_command
          arg,        \* the command each producer passes
          pos,        \* the next part a producer copies
          disp,       \* where the dispatch thread stands
          dpos,       \* the next part the dispatch thread copies
          attempt,    \* loop counter of ir_send_command
          staleTx     \* history: superseded frames sent since the newest command was stored

producerVars   == <<pc, arg, pos>>
dispatcherVars == <<disp, dpos, attempt>>
vars == <<sem, mutex, pending, active, producerVars, dispatcherVars, staleTx>>

TypeOK ==
    /\ sem \in 0 .. 1
    /\ mutex \in Producers \cup {Dispatcher, Nobody}
    /\ pending \in Frame
    /\ active \in Frame
    /\ pc \in [Producers -> {"idle", "lock", "write", "unlock", "give"}]
    /\ arg \in [Producers -> Cmds \cup {NoCmd}]
    /\ \A p \in Producers : pc[p] # "idle" => arg[p] \in Cmds
    /\ pos \in [Producers -> Part]
    /\ disp \in {"take", "lock", "copy", "unlock", "transmit", "listen"}
    /\ dpos \in Part
    /\ attempt \in 1 .. IR_RETRY_COUNT
    /\ staleTx \in Nat

Init ==
    /\ sem = 0
    /\ mutex = Nobody
    /\ pending = [i \in Part |-> NoCmd]
    /\ active = [i \in Part |-> NoCmd]
    /\ pc = [p \in Producers |-> "idle"]
    /\ arg = [p \in Producers |-> NoCmd]
    /\ pos = [p \in Producers |-> 0]
    /\ disp = "take"
    /\ dpos = 0
    /\ attempt = 1
    /\ staleTx = 0

-----------------------------------------------------------------------------
(* ir_dispatch_command, one action per step *)

Goto(p, from, to) == /\ pc[p] = from
                     /\ pc' = [pc EXCEPT ![p] = to]

Call(p) == /\ Goto(p, "idle", "lock")
           /\ \E c \in Cmds : arg' = [arg EXCEPT ![p] = c]
           /\ UNCHANGED <<sem, mutex, pending, active, pos, dispatcherVars, staleTx>>

\* Mutant of Lock: the buffer is written without waiting for the mutex.
LockWithoutWaiting(p) ==
    /\ Goto(p, "lock", "write")
    /\ mutex' = p
    /\ pos' = [pos EXCEPT ![p] = 0]
    /\ UNCHANGED <<sem, pending, active, arg, dispatcherVars, staleTx>>

Lock(p) == /\ Goto(p, "lock", "write")
           /\ mutex = Nobody
           /\ mutex' = p
           /\ pos' = [pos EXCEPT ![p] = 0]
           /\ UNCHANGED <<sem, pending, active, arg, dispatcherVars, staleTx>>

WritePart(p) ==
    /\ pc[p] = "write"
    /\ pos[p] < LAST
    /\ pending' = [pending EXCEPT ![pos[p]] = arg[p]]
    /\ pos' = [pos EXCEPT ![p] = @ + 1]
    /\ UNCHANGED <<sem, mutex, active, pc, arg, dispatcherVars, staleTx>>

\* The command is stored: from here on the frames sent before it are stale.
WriteLast(p) ==
    /\ Goto(p, "write", "unlock")
    /\ pos[p] = LAST
    /\ pending' = [pending EXCEPT ![LAST] = arg[p]]
    /\ staleTx' = 0
    /\ UNCHANGED <<sem, mutex, active, arg, pos, dispatcherVars>>

Unlock(p) == /\ Goto(p, "unlock", "give")
             /\ mutex' = Nobody
             /\ UNCHANGED <<sem, pending, active, arg, pos, dispatcherVars, staleTx>>

\* Mutant of Give: the thread is signalled only if it looks idle.
GiveIfIdle(p) ==
    /\ Goto(p, "give", "idle")
    /\ sem' = IF disp = "take" THEN 1 ELSE sem
    /\ UNCHANGED <<mutex, pending, active, arg, pos, dispatcherVars, staleTx>>

\* k_sem_give saturates at the semaphore's limit of 1.
Give(p) == /\ Goto(p, "give", "idle")
           /\ sem' = 1
           /\ UNCHANGED <<mutex, pending, active, arg, pos, dispatcherVars, staleTx>>

-----------------------------------------------------------------------------
(* ir_dispatch_thread_fn and, from "transmit" on, ir_send_command *)

DispTake == /\ disp = "take"
            /\ sem = 1
            /\ sem' = 0
            /\ disp' = "lock"
            /\ UNCHANGED <<mutex, pending, active, producerVars, dpos, attempt, staleTx>>

DispLock == /\ disp = "lock"
            /\ mutex = Nobody
            /\ mutex' = Dispatcher
            /\ disp' = "copy"
            /\ dpos' = 0
            /\ UNCHANGED <<sem, pending, active, producerVars, attempt, staleTx>>

CopyPart == /\ disp = "copy"
            /\ dpos < LAST
            /\ active' = [active EXCEPT ![dpos] = pending[dpos]]
            /\ dpos' = dpos + 1
            /\ UNCHANGED <<sem, mutex, pending, producerVars, disp, attempt, staleTx>>

CopyLast == /\ disp = "copy"
            /\ dpos = LAST
            /\ active' = [active EXCEPT ![LAST] = pending[LAST]]
            /\ disp' = "unlock"
            /\ UNCHANGED <<sem, mutex, pending, producerVars, dpos, attempt, staleTx>>

DispUnlock == /\ disp = "unlock"
              /\ mutex' = Nobody
              /\ disp' = "transmit"
              /\ attempt' = 1
              /\ UNCHANGED <<sem, pending, active, producerVars, dpos, staleTx>>

Superseded == active[LAST] # pending[LAST]

Transmit == /\ disp = "transmit"
            /\ disp' = "listen"
            /\ staleTx' = IF Superseded THEN staleTx + 1 ELSE staleTx
            /\ UNCHANGED <<sem, mutex, pending, active, producerVars, dpos, attempt>>

\* Mutant of Acked: the semaphore is reset before the thread waits again.
AckedAndReset == /\ disp = "listen"
                 /\ disp' = "take"
                 /\ sem' = 0
                 /\ UNCHANGED <<mutex, pending, active, producerVars, dpos, attempt, staleTx>>

Acked == /\ disp = "listen"
         /\ disp' = "take"
         /\ UNCHANGED <<sem, mutex, pending, active, producerVars, dpos, attempt, staleTx>>

\* Mutants of NotAcked: one attempt too many; attempts are not counted.
NotAckedOffByOne ==
    /\ disp = "listen"
    /\ attempt <= IR_RETRY_COUNT
    /\ disp' = "transmit"
    /\ attempt' = attempt + 1
    /\ UNCHANGED <<sem, mutex, pending, active, producerVars, dpos, staleTx>>

NotAckedUncounted ==
    /\ disp = "listen"
    /\ disp' = "transmit"
    /\ UNCHANGED <<sem, mutex, pending, active, producerVars, dpos, attempt, staleTx>>

NotAcked == /\ disp = "listen"
            /\ attempt < IR_RETRY_COUNT
            /\ disp' = "transmit"
            /\ attempt' = attempt + 1
            /\ UNCHANGED <<sem, mutex, pending, active, producerVars, dpos, staleTx>>

\* The result of ir_send_command is ignored: a failed command is forgotten.
GiveUp == /\ disp = "listen"
          /\ attempt = IR_RETRY_COUNT
          /\ disp' = "take"
          /\ UNCHANGED <<sem, mutex, pending, active, producerVars, dpos, attempt, staleTx>>

-----------------------------------------------------------------------------
Produce(p) == Lock(p) \/ WritePart(p) \/ WriteLast(p) \/ Unlock(p) \/ Give(p)

Dispatch == \/ DispTake \/ DispLock \/ CopyPart \/ CopyLast \/ DispUnlock
            \/ Transmit \/ Acked \/ NotAcked \/ GiveUp

Next == \/ \E p \in Producers : Call(p) \/ Produce(p)
        \/ Dispatch

\* Both sides keep running once started; k_mutex_unlock hands the mutex to the
\* waiter of the highest priority, so that a waiter which sees it freed again
\* and again gets it.  Nobody has to issue a command, and no ACK is assumed.
Fairness == /\ \A p \in Producers : WF_vars(Produce(p)) /\ SF_vars(Lock(p))
            /\ WF_vars(Dispatch)
            /\ SF_vars(DispLock)

Spec == Init /\ [][Next]_vars /\ Fairness

-----------------------------------------------------------------------------
(* Properties *)

\* What is put on the air is one command: pulses and count come from the same
\* call, whatever the producers do meanwhile (the mutex and the second buffer of
\* ir_dispatch_thread_fn are there for this).
FrameIsWhole == disp \in {"transmit", "listen"} =>
                   \A i \in Part : active[i] = active[LAST]

\* The dispatch thread is bound to read the pending buffer again.
Owed == \/ sem = 1
        \/ disp \in {"lock", "copy"}
        \/ \E p \in Producers : pc[p] \in {"unlock", "give"}

\* A stored command the dispatch thread does not have is never left behind
\* with nobody to wake the thread: the binary semaphore may swallow gives, never
\* the last one.
NoLostWakeup == Superseded => Owed

\* Once a command is stored, at most one full retry sequence of an older frame
\* is still sent before it; it cannot be starved by a backlog.
BoundedStaleness == staleTx <= IR_RETRY_COUNT

\* The hand-over implements the replace-the-queued-command mailbox of
\* ir_driver.h:41-46; a command is stored and fetched with its last part.
Mailbox == INSTANCE LatestMailbox WITH slot <- pending[LAST],
                                       owed <- Owed,
                                       fetched <- active[LAST]
ImplementsMailbox == Mailbox!Spec

\* Every stored command is transmitted in the end or replaced by another one.
LatestIsSent == \A c \in Cmds :
    Owed /\ pending[LAST] = c ~> \/ pending[LAST] # c
                                 \/ disp = "listen" /\ active[LAST] = c
=============================================================================
