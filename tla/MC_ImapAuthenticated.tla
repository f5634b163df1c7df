------------------------ MODULE MC_ImapAuthenticated ------------------------
(* Model values for checking ImapAuthenticated with TLC. *)
EXTENDS ImapAuthenticated

\* One command of every class of handle_authenticated_cmd_line; the classes
\* that may carry a literal come with each kind of literal.
MC_ClientCmds ==
    {[cls |-> c, lit |-> "None"] : c \in {"Immediate", "Logout", "Reauth", "Idle", "Other", "Junk"}}
    \cup [cls : {"Literalable", "Mailbox"}, lit : {"None", "Sync", "NonSync"}]

\* Three command lines: enough for IDLE, DONE and one command after it.
MC_MaxCmds == 3
MC_MaxPush == 1
=============================================================================
