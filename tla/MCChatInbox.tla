----------------------------- MODULE MCChatInbox -----------------------------
(* Instances of ChatInbox for TLC. *)
EXTENDS ChatInbox, TLC

CONSTANTS old_process, new_process, m1, m2

MCProcesses == {old_process, new_process}
MCMessages == {m1, m2}

\* An update for another dialog, two edits of a message the bot has not captured,
\* and a new message.
MCUpdates == <<
    [kind |-> "other", message |-> m2, date |-> 0],
    [kind |-> "edit", message |-> m1, date |-> 1],
    [kind |-> "edit", message |-> m1, date |-> 2],
    [kind |-> "new", message |-> m2, date |-> 0]>>
=============================================================================
