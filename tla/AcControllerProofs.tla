------------------------- MODULE AcControllerProofs -------------------------
(***************************************************************************)
(* Proofs about AcController, for any frames, number of attempts and       *)
(* links: types, and that the AC does what it was told last unless an      *)
(* outage kept it from hearing it.                                         *)
(***************************************************************************)
EXTENDS AcController, TLAPS

\* Why nothing that is not a frame is ever transmitted: the dispatch thread is
\* bound to fetch only after a Post, and between two fetches keeps what it has.
Supplied == /\ owed => slot \in Frames
            /\ disp # "take" => fetched \in Frames

Typed == TypeOK /\ Supplied

LEMMA FirstAttempt == 1 \in 1 .. IR_RETRY_COUNT
BY CountAssumption

LEMMA InitTyped == Init => Typed
BY FirstAttempt DEF Init, Typed, TypeOK, Supplied, Mailbox!Init, Mailbox!MailboxTypeOK

LEMMA NextTyped == Typed /\ [Next]_vars => Typed'
<1> SUFFICES ASSUME Typed, [Next]_vars PROVE Typed'
    OBVIOUS
<1> USE DEF Typed, TypeOK, Supplied, Mailbox!MailboxTypeOK
<1>1. CASE Send
    BY <1>1 DEF Send, Source!Send, Mailbox!Post, dispatcher, unit, reach
<1>2. CASE Skip
    BY <1>2 DEF Skip, mailbox, dispatcher, unit, reach
<1>3. CASE ShellOff
    BY <1>3, FrameAssumption
    DEF ShellOff, Source!Off, Mailbox!Post, dispatcher, unit, reach
<1>4. CASE Fetch
    BY <1>4, FirstAttempt DEF Fetch, Mailbox!Fetch, controller
<1>5. CASE Transmit
    BY <1>5 DEF Transmit, Heard, NotHeard, controller, mailbox, unit, reach
<1>6. CASE Acked
    BY <1>6 DEF Acked, controller, mailbox, unit, reach
<1>7. CASE NotAcked
    BY <1>7, CountAssumption DEF NotAcked, controller, mailbox, unit, reach
<1>8. CASE GiveUp
    BY <1>8 DEF GiveUp, controller, mailbox, unit, reach
<1>9. CASE LinkChanges
    BY <1>9 DEF LinkChanges, controller, mailbox, dispatcher, unit
<1>10. CASE UNCHANGED vars
    BY <1>10 DEF vars, controller, mailbox, dispatcher, unit, reach
<1> QED
    BY <1>1, <1>2, <1>3, <1>4, <1>5, <1>6, <1>7, <1>8, <1>9, <1>10 DEF Next, Dispatch

\* Every variable keeps its type; the attempts never exceed IR_RETRY_COUNT, and the
\* AC is only ever told one of the frames.
THEOREM TypeCorrect == Spec => []TypeOK
<1>1. Typed => TypeOK
    BY DEF Typed
<1> QED
    BY <1>1, InitTyped, NextTyped, PTL DEF Spec

-----------------------------------------------------------------------------
\* What the wanted state, last_sent, the mailbox and the AC have to do with each
\* other at any time.
Following ==
    /\ want = lastSent
    /\ slot \in {NoFrame, want, OffFrame}
    /\ ~owed => slot = fetched
    /\ heard => air = fetched

\* The other half: what a transmission nobody heard leaves behind.  The thread cannot
\* tell, so that it must be read off its loop: over a link that has been good all the
\* time the last attempt has been heard, and only a bad one can make it stop before.
Answerable ==
    /\ disp # "take" /\ link = "bad" => struck
    /\ disp = "listen" /\ attempt = IR_RETRY_COUNT => heard \/ struck
    /\ disp = "take" => heard \/ struck \/ fetched = NoFrame

LastWord == Typed /\ Following /\ Answerable

LEMMA InitLastWord == Init => LastWord
BY InitTyped DEF Init, LastWord, Following, Answerable, Mailbox!Init

LEMMA NextFollowing == Following /\ [Next]_vars => Following'
<1> SUFFICES ASSUME Following, [Next]_vars PROVE Following'
    OBVIOUS
<1> USE DEF Following
<1>1. CASE Send
    BY <1>1 DEF Send, Source!Send, Mailbox!Post, dispatcher, unit
<1>2. CASE Skip
    BY <1>2 DEF Skip, mailbox, dispatcher, unit
<1>3. CASE ShellOff
    BY <1>3 DEF ShellOff, Source!Off, Mailbox!Post, dispatcher, unit
<1>4. CASE Fetch
    BY <1>4 DEF Fetch, Mailbox!Fetch, controller
<1>5. CASE Transmit
    BY <1>5 DEF Transmit, Heard, NotHeard, controller, mailbox, unit
<1>6. CASE Acked \/ NotAcked \/ GiveUp \/ LinkChanges
    BY <1>6 DEF Acked, NotAcked, GiveUp, LinkChanges, controller, mailbox, unit
<1>7. CASE UNCHANGED vars
    BY <1>7 DEF vars, controller, mailbox, dispatcher, unit
<1> QED
    BY <1>1, <1>2, <1>3, <1>4, <1>5, <1>6, <1>7 DEF Next, Dispatch

LEMMA NextAnswerable == Typed /\ Answerable /\ [Next]_vars => Answerable'
<1> SUFFICES ASSUME Typed, Answerable, [Next]_vars PROVE Answerable'
    OBVIOUS
<1> USE DEF Answerable
<1>1. CASE Send
    BY <1>1 DEF Send, Mailbox!Post, dispatcher, unit, reach
<1>2. CASE Skip
    BY <1>2 DEF Skip, mailbox, dispatcher, unit, reach
<1>3. CASE ShellOff
    BY <1>3 DEF ShellOff, Mailbox!Post, dispatcher, unit, reach
<1>4. CASE Fetch
    BY <1>4 DEF Fetch
<1>5. CASE Transmit
    BY <1>5 DEF Transmit, Heard, NotHeard, unit, reach, Typed, TypeOK
<1>6. CASE Acked
    BY <1>6 DEF Acked, mailbox, unit, reach
<1>7. CASE NotAcked
    BY <1>7 DEF NotAcked, mailbox, unit, reach
<1>8. CASE GiveUp
    BY <1>8 DEF GiveUp, mailbox, unit, reach
<1>9. CASE LinkChanges
    BY <1>9 DEF LinkChanges, mailbox, dispatcher, unit
<1>10. CASE UNCHANGED vars
    BY <1>10 DEF vars, mailbox, dispatcher, unit, reach
<1> QED
    BY <1>1, <1>2, <1>3, <1>4, <1>5, <1>6, <1>7, <1>8, <1>9, <1>10 DEF Next, Dispatch

\* When nothing is left to fetch or to transmit the AC is in the state it was told
\* last, the attributes' or off, unless an outage during the last transmission kept
\* it from hearing any of the attempts: commands given up in earlier outages, false
\* ACKs, retries and replaced commands leave no trace.
THEOREM FollowsLastWordCorrect == Spec => []FollowsLastWord
<1>1. LastWord /\ [Next]_vars => LastWord'
    BY NextTyped, NextFollowing, NextAnswerable DEF LastWord
<1>2. LastWord => FollowsLastWord
    BY DEF LastWord, Following, Answerable, FollowsLastWord, Quiet
<1> QED
    BY <1>1, <1>2, InitLastWord, PTL DEF Spec
=============================================================================
