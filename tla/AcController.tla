---------------------------- MODULE AcController ----------------------------
(***************************************************************************)
(* The whole way of a command: an attribute callback compares the state    *)
(* with last_sent, posts its frame and records it (zcl_callbacks.cpp); the *)
(* dispatch thread fetches the newest frame and transmits it until the AC  *)
(* acknowledges it or the attempts are used up, and nobody is told which   *)
(* (ir_driver.cpp); the AC is in the state of the last frame it heard.     *)
(*                                                                         *)
(* Composed of two interfaces, whose actions it is made of: LatestMailbox, *)
(* which IrDispatch implements, and CommandSource, which ZclCallbacks      *)
(* implements, its frames what ZclCallbacks calls Desired.  The AC may get *)
(* out of reach and come back at any time, also during a transmission.     *)
(***************************************************************************)
EXTENDS Naturals

CONSTANTS Frames,           \* the states an AC can be asked for
          OffFrame,         \* the one of "ac off"
          NoFrame,          \* before the first one
          IR_RETRY_COUNT,
          Links             \* how well the AC hears: see Heard and Acked

ASSUME FrameAssumption == OffFrame \in Frames /\ NoFrame \notin Frames
ASSUME CountAssumption == IR_RETRY_COUNT \in Nat \ {0}
ASSUME LinkAssumption  == Links \subseteq {"good", "bad"}

VARIABLES want,       \* the frame the attributes stand for
          lastSent,   \* last_sent
          slot,       \* LatestMailbox: the newest frame,
          owed,       \*   is the dispatch thread bound to fetch it,
          fetched,    \*   and the one it has
          disp,       \* what the dispatch thread does
          attempt,    \* loop counter of ir_send_command
          air,        \* the state of the AC
          heard,      \* did the AC hear the frame the thread has, so far?
          link,       \* how well it hears now
          struck      \* history: the link was bad at some time since the thread
                      \* fetched the frame it has, or transmitted last

Mailbox == INSTANCE LatestMailbox WITH Cmds <- Frames, NoCmd <- NoFrame
Source  == INSTANCE CommandSource WITH recorded <- lastSent, latest <- slot

mailbox    == <<slot, owed, fetched>>
controller == <<want, lastSent>>
dispatcher == <<disp, attempt>>
unit       == <<air, heard>>
reach      == <<link, struck>>
vars == <<controller, mailbox, dispatcher, unit, reach>>

TypeOK ==
    /\ want \in Frames /\ lastSent \in Frames
    /\ Mailbox!MailboxTypeOK
    /\ disp \in {"take", "transmit", "listen"}
    /\ attempt \in 1 .. IR_RETRY_COUNT
    /\ air \in Frames
    /\ heard \in BOOLEAN
    /\ link \in Links
    /\ struck \in BOOLEAN

\* At the end of boot: zcl_callbacks_ready has declared the state sent, and the AC
\* is in whatever state it is.
Init ==
    /\ want \in Frames /\ lastSent = want
    /\ Mailbox!Init
    /\ disp = "take" /\ attempt = 1
    /\ air \in Frames /\ heard = FALSE
    /\ link \in Links /\ struck = FALSE

-----------------------------------------------------------------------------
(* MatterPostAttributeChangeCallback, after a write or a temperature report *)

Send == /\ Source!Send
        /\ want' = lastSent'
        /\ Mailbox!Post(lastSent')
        /\ UNCHANGED <<dispatcher, unit, reach>>

\* Mutant of Skip: a change that is not worth a frame is recorded all the same.
SkipAnyChange == /\ want' \in Frames
                 /\ lastSent' = want'
                 /\ UNCHANGED <<mailbox, dispatcher, unit, reach>>

Skip == /\ want' = lastSent
        /\ UNCHANGED <<lastSent, mailbox, dispatcher, unit, reach>>

\* "ac off" posts past last_sent.
ShellOff == /\ Source!Off
            /\ Mailbox!Post(OffFrame)
            /\ UNCHANGED <<want, dispatcher, unit, reach>>

-----------------------------------------------------------------------------
(* ir_dispatch_thread_fn and ir_send_command *)

Fetch == /\ disp = "take" /\ disp' = "transmit"
         /\ attempt' = 1
         /\ heard' = FALSE
         /\ Mailbox!Fetch
         /\ struck' = (link = "bad")
         /\ UNCHANGED <<controller, air, link>>

\* If the link stays good the AC hears the last of the attempts at the latest.
Heard == /\ air' = fetched
         /\ heard' = TRUE
NotHeard == /\ heard \/ struck \/ attempt < IR_RETRY_COUNT
            /\ UNCHANGED unit

Transmit == /\ disp = "transmit" /\ disp' = "listen"
            /\ Heard \/ NotHeard
            /\ UNCHANGED <<controller, mailbox, attempt, reach>>

\* The beep may be missed; over a bad link, some noise may be taken for one.
Acked == /\ disp = "listen" /\ disp' = "take"
         /\ heard \/ link = "bad"
         /\ UNCHANGED <<controller, mailbox, attempt, unit, reach>>

NotAcked == /\ disp = "listen" /\ disp' = "transmit"
            /\ attempt < IR_RETRY_COUNT
            /\ attempt' = attempt + 1
            /\ UNCHANGED <<controller, mailbox, unit, reach>>

\* Mutant of GiveUp: the last attempt is not made.
GiveUpEarly == /\ disp = "listen" /\ disp' = "take"
               /\ attempt >= IR_RETRY_COUNT - 1
               /\ UNCHANGED <<controller, mailbox, attempt, unit, reach>>

\* The result goes nowhere: last_sent keeps the frame nobody heard.
GiveUp == /\ disp = "listen" /\ disp' = "take"
          /\ attempt = IR_RETRY_COUNT
          /\ UNCHANGED <<controller, mailbox, attempt, unit, reach>>

-----------------------------------------------------------------------------
\* The AC gets out of reach or back, in the middle of anything.
LinkChanges == /\ link' \in Links \ {link}
               /\ struck' = (struck \/ (disp # "take" /\ link' = "bad"))
               /\ UNCHANGED <<controller, mailbox, dispatcher, unit>>

-----------------------------------------------------------------------------
Dispatch == Transmit \/ Acked \/ NotAcked \/ GiveUp

Next == Send \/ Skip \/ ShellOff \/ Fetch \/ Dispatch \/ LinkChanges

\* The dispatch thread runs on; nobody has to write or to type anything, and the
\* link may change for ever or not at all.
Fairness == WF_vars(Fetch) /\ WF_vars(Dispatch)

Spec == Init /\ [][Next]_vars /\ Fairness

-----------------------------------------------------------------------------
(* Properties *)

Quiet == disp = "take" /\ ~owed /\ slot # NoFrame

\* The result of ir_send_command goes nowhere (ir_driver.cpp:64); still, when
\* everything is done the AC does what it was told last, which is what the attributes
\* stand for or "ac off" - unless an outage during the last transmission, and
\* nothing before it, kept it from hearing any of the attempts.
FollowsLastWord ==
    Quiet => \/ air = slot /\ slot \in {want, OffFrame}
             \/ struck /\ ~heard

\* A command given to an AC that stays in reach from now on arrives unless another
\* one replaces it: outages before, attempts used up in them, missed beeps and what
\* was taken for a beep do not lose the last word.
ArrivesInReach ==
    \A f \in Frames : slot = f /\ owed ~> slot # f \/ air = f \/ link = "bad"
=============================================================================
