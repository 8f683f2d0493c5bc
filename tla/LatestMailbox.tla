--------------------------- MODULE LatestMailbox ---------------------------
(***************************************************************************)
(* What ir_dispatch_command promises its callers (ir_driver.h:41-46): a    *)
(* one-place mailbox in which a new command replaces the queued one.  The  *)
(* consumer never holds up a caller, and the newest command always reaches *)
(* it in the end; commands in between may be dropped, and one may be       *)
(* fetched twice.                                                          *)
(***************************************************************************)
CONSTANTS Cmds,     \* the commands that can be posted
          NoCmd     \* what the mailbox holds before the first Post

VARIABLES slot,     \* the newest command
          owed,     \* is the consumer bound to look into the slot (again)?
          fetched   \* what the consumer took last

mailbox == <<slot, owed, fetched>>

MailboxTypeOK == /\ slot \in Cmds \cup {NoCmd}
                 /\ owed \in BOOLEAN
                 /\ fetched \in Cmds \cup {NoCmd}

Init == /\ slot = NoCmd
        /\ owed = FALSE
        /\ fetched = NoCmd

Post(c) == /\ slot' = c
           /\ owed' = TRUE
           /\ UNCHANGED fetched

\* The debt may outlive the fetch: a command posted while the consumer was on
\* its way to the slot is fetched at once and then fetched again.
Fetch == /\ owed
         /\ fetched' = slot
         /\ owed' \in BOOLEAN
         /\ UNCHANGED slot

Next == Fetch \/ \E c \in Cmds : Post(c)

\* A command the consumer does not have yet is fetched or replaced in the end.
Fairness == WF_mailbox(Fetch /\ fetched # slot)

Spec == Init /\ [][Next]_mailbox /\ Fairness
=============================================================================
