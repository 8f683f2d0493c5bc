-------------------------- MODULE IrDispatchProofs --------------------------
(***************************************************************************)
(* Proofs about IrDispatch, for any producers, frames, frame length and    *)
(* retry count.  The invariants are layered: typing, then who holds the    *)
(* mutex, then what the mutex protects, then the signalling and the retry  *)
(* counter, each proved from the ones below it.                            *)
(***************************************************************************)
EXTENDS IrDispatch, TLAPS

USE NoCmdIsNoCommand, LastAssumption, RetryAssumption, ThreadsAssumption

-----------------------------------------------------------------------------
(* Typing *)

LEMMA InitTypeOK == Init => TypeOK
BY DEF Init, TypeOK, Part, Frame

LEMMA NextTypeOK == TypeOK /\ [Next]_vars => TypeOK'
<1> SUFFICES ASSUME TypeOK, [Next]_vars PROVE TypeOK'
    OBVIOUS
<1> USE DEF TypeOK, Part, Frame
<1>1. ASSUME NEW p \in Producers, Call(p) PROVE TypeOK'
    BY <1>1 DEF Call, Goto, dispatcherVars
<1>2. ASSUME NEW p \in Producers, Lock(p) PROVE TypeOK'
    BY <1>2 DEF Lock, Goto, dispatcherVars
<1>3. ASSUME NEW p \in Producers, WritePart(p) PROVE TypeOK'
    BY <1>3 DEF WritePart, Goto, dispatcherVars
<1>4. ASSUME NEW p \in Producers, WriteLast(p) PROVE TypeOK'
    BY <1>4 DEF WriteLast, Goto, dispatcherVars
<1>5. ASSUME NEW p \in Producers, Unlock(p) PROVE TypeOK'
    BY <1>5 DEF Unlock, Goto, dispatcherVars
<1>6. ASSUME NEW p \in Producers, Give(p) PROVE TypeOK'
    BY <1>6 DEF Give, Goto, dispatcherVars
<1>7. CASE DispTake   BY <1>7 DEF DispTake, producerVars
<1>8. CASE DispLock   BY <1>8 DEF DispLock, producerVars
<1>9. CASE CopyPart   BY <1>9 DEF CopyPart, producerVars
<1>10. CASE CopyLast  BY <1>10 DEF CopyLast, producerVars
<1>11. CASE DispUnlock BY <1>11 DEF DispUnlock, producerVars
<1>12. CASE Transmit  BY <1>12 DEF Transmit, producerVars
<1>13. CASE Acked     BY <1>13 DEF Acked, producerVars
<1>14. CASE NotAcked  BY <1>14 DEF NotAcked, producerVars
<1>15. CASE GiveUp    BY <1>15 DEF GiveUp, producerVars
<1>16. CASE UNCHANGED vars
    BY <1>16 DEF vars, producerVars, dispatcherVars
<1> QED
    BY <1>1, <1>2, <1>3, <1>4, <1>5, <1>6, <1>7, <1>8, <1>9, <1>10, <1>11,
       <1>12, <1>13, <1>14, <1>15, <1>16 DEF Next, Produce, Dispatch

\* Every variable keeps its type, in particular the semaphore stays binary and
\* the loop counter of ir_send_command within the retry count.
THEOREM TypeCorrect == Spec => []TypeOK
BY InitTypeOK, NextTypeOK, PTL DEF Spec

-----------------------------------------------------------------------------
(* The mutex *)

\* A thread is between k_mutex_lock and k_mutex_unlock iff it owns the mutex.
Locking == /\ \A p \in Producers : pc[p] \in {"write", "unlock"} <=> mutex = p
           /\ disp \in {"copy", "unlock"} <=> mutex = Dispatcher

LEMMA InitLocking == Init => Locking
BY DEF Init, Locking, Dispatcher, Nobody

LEMMA NextLocking == TypeOK /\ Locking /\ [Next]_vars => Locking'
<1> SUFFICES ASSUME TypeOK, Locking, [Next]_vars PROVE Locking'
    OBVIOUS
<1> USE DEF TypeOK, Locking
<1>0. /\ Dispatcher # Nobody
      /\ \A p \in Producers : p # Dispatcher /\ p # Nobody
    BY DEF Dispatcher, Nobody
<1>1. ASSUME NEW p \in Producers, Call(p) PROVE Locking'
    BY <1>1 DEF Call, Goto, dispatcherVars
<1>2. ASSUME NEW p \in Producers, Lock(p) PROVE Locking'
    BY <1>0, <1>2 DEF Lock, Goto, dispatcherVars
<1>3. ASSUME NEW p \in Producers, WritePart(p) PROVE Locking'
    BY <1>3 DEF WritePart, Goto, dispatcherVars
<1>4. ASSUME NEW p \in Producers, WriteLast(p) PROVE Locking'
    BY <1>4 DEF WriteLast, Goto, dispatcherVars
<1>5. ASSUME NEW p \in Producers, Unlock(p) PROVE Locking'
    BY <1>0, <1>5 DEF Unlock, Goto, dispatcherVars
<1>6. ASSUME NEW p \in Producers, Give(p) PROVE Locking'
    BY <1>6 DEF Give, Goto, dispatcherVars
<1>7. CASE DispTake   BY <1>7 DEF DispTake, producerVars
<1>8. CASE DispLock   BY <1>0, <1>8 DEF DispLock, producerVars
<1>9. CASE CopyPart   BY <1>9 DEF CopyPart, producerVars
<1>10. CASE CopyLast  BY <1>10 DEF CopyLast, producerVars
<1>11. CASE DispUnlock BY <1>0, <1>11 DEF DispUnlock, producerVars
<1>12. CASE Transmit  BY <1>12 DEF Transmit, producerVars
<1>13. CASE Acked     BY <1>13 DEF Acked, producerVars
<1>14. CASE NotAcked  BY <1>14 DEF NotAcked, producerVars
<1>15. CASE GiveUp    BY <1>15 DEF GiveUp, producerVars
<1>16. CASE UNCHANGED vars
    BY <1>16 DEF vars, producerVars, dispatcherVars
<1> QED
    BY <1>1, <1>2, <1>3, <1>4, <1>5, <1>6, <1>7, <1>8, <1>9, <1>10, <1>11,
       <1>12, <1>13, <1>14, <1>15, <1>16 DEF Next, Produce, Dispatch
\* The invariants below live on top of typing and locking.
Base == TypeOK /\ Locking

LEMMA BaseCorrect == Spec => []Base
BY InitTypeOK, NextTypeOK, InitLocking, NextLocking, PTL DEF Spec, Base

-----------------------------------------------------------------------------
(* The frame buffers *)

Whole(f) == \A i \in Part : f[i] = f[LAST]

\* The pending buffer is torn only while its owner writes it, and then its
\* first parts are the writer's; the active buffer only while it is copied,
\* and then its first parts are those of the pending buffer.
Buffers ==
    /\ (\A p \in Producers : pc[p] # "write") => Whole(pending)
    /\ \A p \in Producers : pc[p] = "write" =>
          \A i \in Part : i < pos[p] => pending[i] = arg[p]
    /\ disp # "copy" => Whole(active)
    /\ disp = "copy" => \A i \in Part : i < dpos => active[i] = pending[i]
    /\ disp = "unlock" => ~Superseded

LEMMA InitBuffers == Init => Buffers
BY DEF Init, Buffers, Whole, Part

LEMMA NextBuffers == Base /\ Base' /\ Buffers /\ [Next]_vars => Buffers'
<1> SUFFICES ASSUME Base, Base', Buffers, [Next]_vars PROVE Buffers'
    OBVIOUS
<1> USE DEF Base, TypeOK, Locking, Buffers, Whole, Part, Frame, Superseded
<1>0. /\ Dispatcher # Nobody
      /\ \A p \in Producers : p # Dispatcher /\ p # Nobody
    BY DEF Dispatcher, Nobody
<1>1. ASSUME NEW p \in Producers, Call(p) PROVE Buffers'
    BY <1>1 DEF Call, Goto, dispatcherVars
<1>2. ASSUME NEW p \in Producers, Lock(p) PROVE Buffers'
    BY <1>0, <1>2 DEF Lock, Goto, dispatcherVars
<1>3. ASSUME NEW p \in Producers, WritePart(p) PROVE Buffers'
    BY <1>0, <1>3 DEF WritePart, Goto, dispatcherVars
<1>4. ASSUME NEW p \in Producers, WriteLast(p) PROVE Buffers'
    BY <1>0, <1>4 DEF WriteLast, Goto, dispatcherVars
<1>5. ASSUME NEW p \in Producers, Unlock(p) PROVE Buffers'
    BY <1>0, <1>5 DEF Unlock, Goto, dispatcherVars
<1>6. ASSUME NEW p \in Producers, Give(p) PROVE Buffers'
    BY <1>6 DEF Give, Goto, dispatcherVars
<1>7. CASE DispTake   BY <1>7 DEF DispTake, producerVars
<1>8. CASE DispLock   BY <1>0, <1>8 DEF DispLock, producerVars
<1>9. CASE CopyPart   BY <1>0, <1>9 DEF CopyPart, producerVars
<1>10. CASE CopyLast  BY <1>0, <1>10 DEF CopyLast, producerVars
<1>11. CASE DispUnlock BY <1>11 DEF DispUnlock, producerVars
<1>12. CASE Transmit  BY <1>12 DEF Transmit, producerVars
<1>13. CASE Acked     BY <1>13 DEF Acked, producerVars
<1>14. CASE NotAcked  BY <1>14 DEF NotAcked, producerVars
<1>15. CASE GiveUp    BY <1>15 DEF GiveUp, producerVars
<1>16. CASE UNCHANGED vars
    BY <1>16 DEF vars, producerVars, dispatcherVars
<1> QED
    BY <1>1, <1>2, <1>3, <1>4, <1>5, <1>6, <1>7, <1>8, <1>9, <1>10, <1>11,
       <1>12, <1>13, <1>14, <1>15, <1>16 DEF Next, Produce, Dispatch

\* Count and pulses on the air always come from one ir_dispatch_command call.
THEOREM FrameIsWholeCorrect == Spec => []FrameIsWhole
<1>1. Buffers => FrameIsWhole
    BY DEF Buffers, FrameIsWhole, Whole
<1> QED
    BY <1>1, InitBuffers, NextBuffers, BaseCorrect, PTL DEF Spec

-----------------------------------------------------------------------------
(* The signalling *)

LEMMA InitNoLostWakeup == Init => NoLostWakeup
BY DEF Init, NoLostWakeup, Superseded, Part

LEMMA NextNoLostWakeup == Base /\ Buffers /\ NoLostWakeup /\ [Next]_vars => NoLostWakeup'
<1> SUFFICES ASSUME Base, Buffers, NoLostWakeup, [Next]_vars PROVE NoLostWakeup'
    OBVIOUS
<1> USE DEF Base, TypeOK, NoLostWakeup, Owed, Superseded, Part, Frame
<1>1. ASSUME NEW p \in Producers, Call(p) PROVE NoLostWakeup'
    BY <1>1 DEF Call, Goto, dispatcherVars
<1>2. ASSUME NEW p \in Producers, Lock(p) PROVE NoLostWakeup'
    BY <1>2 DEF Lock, Goto, dispatcherVars
<1>3. ASSUME NEW p \in Producers, WritePart(p) PROVE NoLostWakeup'
    BY <1>3 DEF WritePart, Goto, dispatcherVars
<1>4. ASSUME NEW p \in Producers, WriteLast(p) PROVE NoLostWakeup'
    BY <1>4 DEF WriteLast, Goto, dispatcherVars
<1>5. ASSUME NEW p \in Producers, Unlock(p) PROVE NoLostWakeup'
    BY <1>5 DEF Unlock, Goto, dispatcherVars
<1>6. ASSUME NEW p \in Producers, Give(p) PROVE NoLostWakeup'
    BY <1>6 DEF Give, Goto, dispatcherVars
<1>7. CASE DispTake   BY <1>7 DEF DispTake, producerVars
<1>8. CASE DispLock   BY <1>8 DEF DispLock, producerVars
<1>9. CASE CopyPart   BY <1>9 DEF CopyPart, producerVars
<1>10. CASE CopyLast  BY <1>10 DEF CopyLast, producerVars
<1>11. CASE DispUnlock BY <1>11 DEF DispUnlock, producerVars, Buffers
<1>12. CASE Transmit  BY <1>12 DEF Transmit, producerVars
<1>13. CASE Acked     BY <1>13 DEF Acked, producerVars
<1>14. CASE NotAcked  BY <1>14 DEF NotAcked, producerVars
<1>15. CASE GiveUp    BY <1>15 DEF GiveUp, producerVars
<1>16. CASE UNCHANGED vars
    BY <1>16 DEF vars, producerVars, dispatcherVars
<1> QED
    BY <1>1, <1>2, <1>3, <1>4, <1>5, <1>6, <1>7, <1>8, <1>9, <1>10, <1>11,
       <1>12, <1>13, <1>14, <1>15, <1>16 DEF Next, Produce, Dispatch

\* While the dispatch thread lacks the newest command, somebody is bound to
\* wake it: no interleaving of gives and takes loses the last signal.
THEOREM NoLostWakeupCorrect == Spec => []NoLostWakeup
BY InitBuffers, NextBuffers, InitNoLostWakeup, NextNoLostWakeup, BaseCorrect,
   PTL DEF Spec

-----------------------------------------------------------------------------
(* The retry counter *)

\* A superseded frame was sent at most once per attempt of the running command.
Staleness ==
    /\ BoundedStaleness
    /\ Superseded /\ disp = "transmit" => staleTx < attempt
    /\ Superseded /\ disp = "listen" => staleTx <= attempt

LEMMA InitStaleness == Init => Staleness
BY DEF Init, Staleness, BoundedStaleness

LEMMA NextStaleness == Base /\ Buffers /\ Staleness /\ [Next]_vars => Staleness'
<1> SUFFICES ASSUME Base, Buffers, Staleness, [Next]_vars PROVE Staleness'
    OBVIOUS
<1> USE DEF Base, TypeOK, Staleness, BoundedStaleness, Superseded, Part, Frame
<1>1. ASSUME NEW p \in Producers, Call(p) PROVE Staleness'
    BY <1>1 DEF Call, Goto, dispatcherVars
<1>2. ASSUME NEW p \in Producers, Lock(p) PROVE Staleness'
    BY <1>2 DEF Lock, Goto, dispatcherVars
<1>3. ASSUME NEW p \in Producers, WritePart(p) PROVE Staleness'
    BY <1>3 DEF WritePart, Goto, dispatcherVars
<1>4. ASSUME NEW p \in Producers, WriteLast(p) PROVE Staleness'
    BY <1>4 DEF WriteLast, Goto, dispatcherVars
<1>5. ASSUME NEW p \in Producers, Unlock(p) PROVE Staleness'
    BY <1>5 DEF Unlock, Goto, dispatcherVars
<1>6. ASSUME NEW p \in Producers, Give(p) PROVE Staleness'
    BY <1>6 DEF Give, Goto, dispatcherVars
<1>7. CASE DispTake   BY <1>7 DEF DispTake, producerVars
<1>8. CASE DispLock   BY <1>8 DEF DispLock, producerVars
<1>9. CASE CopyPart   BY <1>9 DEF CopyPart, producerVars
<1>10. CASE CopyLast  BY <1>10 DEF CopyLast, producerVars
<1>11. CASE DispUnlock BY <1>11 DEF DispUnlock, producerVars, Buffers
<1>12. CASE Transmit  BY <1>12 DEF Transmit, producerVars
<1>13. CASE Acked     BY <1>13 DEF Acked, producerVars
<1>14. CASE NotAcked  BY <1>14 DEF NotAcked, producerVars
<1>15. CASE GiveUp    BY <1>15 DEF GiveUp, producerVars
<1>16. CASE UNCHANGED vars
    BY <1>16 DEF vars, producerVars, dispatcherVars
<1> QED
    BY <1>1, <1>2, <1>3, <1>4, <1>5, <1>6, <1>7, <1>8, <1>9, <1>10, <1>11,
       <1>12, <1>13, <1>14, <1>15, <1>16 DEF Next, Produce, Dispatch

\* Whatever the interleaving, at most IR_RETRY_COUNT frames that a newer command
\* has replaced go out before the newer one does.
THEOREM BoundedStalenessCorrect == Spec => []BoundedStaleness
<1>1. Staleness => BoundedStaleness
    BY DEF Staleness
<1> QED
    BY <1>1, InitBuffers, NextBuffers, InitStaleness, NextStaleness, BaseCorrect,
       PTL DEF Spec

-----------------------------------------------------------------------------
(* Refinement *)

LEMMA InitRefines == Init => Mailbox!Init
BY DEF Init, Mailbox!Init, Owed, Part

LEMMA NextRefines == Base /\ [Next]_vars => [Mailbox!Next]_Mailbox!mailbox
<1> SUFFICES ASSUME Base, [Next]_vars
             PROVE  Mailbox!Next \/ UNCHANGED Mailbox!mailbox
    OBVIOUS
<1> USE DEF Base, TypeOK, Owed, Part, Frame, Mailbox!mailbox
<1>1. ASSUME NEW p \in Producers, Call(p) PROVE UNCHANGED Mailbox!mailbox
    BY <1>1 DEF Call, Goto, dispatcherVars
<1>2. ASSUME NEW p \in Producers, Lock(p) PROVE UNCHANGED Mailbox!mailbox
    BY <1>2 DEF Lock, Goto, dispatcherVars
<1>3. ASSUME NEW p \in Producers, WritePart(p) PROVE UNCHANGED Mailbox!mailbox
    BY <1>3 DEF WritePart, dispatcherVars
<1>4. ASSUME NEW p \in Producers, WriteLast(p) PROVE Mailbox!Next
    BY <1>4 DEF WriteLast, Goto, dispatcherVars, Mailbox!Next, Mailbox!Post
<1>5. ASSUME NEW p \in Producers, Unlock(p) PROVE UNCHANGED Mailbox!mailbox
    BY <1>5 DEF Unlock, Goto, dispatcherVars
<1>6. ASSUME NEW p \in Producers, Give(p) PROVE UNCHANGED Mailbox!mailbox
    BY <1>6 DEF Give, Goto, dispatcherVars
<1>7. CASE DispTake   BY <1>7 DEF DispTake, producerVars
<1>8. CASE DispLock   BY <1>8 DEF DispLock, producerVars
<1>9. CASE CopyPart   BY <1>9 DEF CopyPart, producerVars
<1>10. ASSUME CopyLast PROVE Mailbox!Next
    BY <1>10 DEF CopyLast, producerVars, Mailbox!Next, Mailbox!Fetch
<1>11. CASE DispUnlock BY <1>11 DEF DispUnlock, producerVars
<1>12. CASE Transmit  BY <1>12 DEF Transmit, producerVars
<1>13. CASE Acked     BY <1>13 DEF Acked, producerVars
<1>14. CASE NotAcked  BY <1>14 DEF NotAcked, producerVars
<1>15. CASE GiveUp    BY <1>15 DEF GiveUp, producerVars
<1>16. CASE UNCHANGED vars
    BY <1>16 DEF vars, producerVars, dispatcherVars
<1> HIDE DEF Base, TypeOK, Owed, Part, Frame, Mailbox!mailbox
<1> QED
    BY <1>1, <1>2, <1>3, <1>4, <1>5, <1>6, <1>7, <1>8, <1>9, <1>10, <1>11,
       <1>12, <1>13, <1>14, <1>15, <1>16 DEF Next, Produce, Dispatch

\* The steps of ir_dispatch_command and ir_dispatch_thread_fn are the steps of the
\* one-place mailbox of ir_driver.h:41-46: storing the last part posts, copying
\* the last part fetches, everything else is invisible.
THEOREM SafetyRefinement == Spec => Mailbox!Init /\ [][Mailbox!Next]_Mailbox!mailbox
BY InitRefines, NextRefines, BaseCorrect, PTL DEF Spec
=============================================================================
