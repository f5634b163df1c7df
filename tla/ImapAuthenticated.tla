-------------------------- MODULE ImapAuthenticated --------------------------
(***************************************************************************)
(* The authenticated-state relay of the IMAP interception engine:          *)
(* relay_authenticated, handle_authenticated_cmd_line and                  *)
(* relay_until_idle_done in src/g3proxy/src/inspect/imap/authenticated.rs, *)
(* together with the client and the IMAP server it sits between.           *)
(*                                                                         *)
(* The wire is abstracted to items: a command line of a command class      *)
(* with an optional literal argument (synchronising "{n}" or LITERAL+      *)
(* "{n+}"), the literal bytes, the rest of the line after a literal,       *)
(* "DONE", and a line that does not parse.  Server items are complete      *)
(* response lines, a continuation request "+", BYE, and responses          *)
(* carrying literals (a head line announcing a literal, the literal bytes, *)
(* a middle line announcing another literal, the tail line).               *)
(*                                                                         *)
(* The command pipeline (cmd_pipeline), the continuation-line handlers,    *)
(* handle_rsp_line and the literal relays are not under src/ and are       *)
(* modelled from the description of the engine (spec 4.3).                 *)
(***************************************************************************)
EXTENDS Naturals, Sequences

CONSTANTS
    ClientCmds,      \* command lines the client may send: [cls, lit] records
    MaxCmds,         \* how many command lines the client sends at most
    MaxPush          \* how many unsolicited server responses at most

\* Command classes of handle_authenticated_cmd_line.
Classes == {"Immediate", "Logout", "Reauth", "Literalable", "Idle", "Mailbox",
            "Other", "Junk"}
Lits == {"None", "Sync", "NonSync"}

ASSUME ClientCmds \subseteq [cls : Classes, lit : Lits]
ASSUME MaxCmds \in Nat /\ MaxPush \in Nat

VARIABLES
    c2p,         \* client bytes not yet read by the proxy
    toUps,       \* what the proxy wrote to ups_w, in order
    srvRead,     \* how much of toUps the server has processed
    u2p,         \* server bytes not yet read by the proxy
    mode,        \* the loop the proxy task is in, or how it ended
    ret,         \* the loop a literal relay returns to
    ongoingCmd,  \* the pipeline's ongoing command: "None", "Idle" or its literal kind
    ongoingRsp,  \* the pipeline holds an ongoing server response
    mailbox,     \* self.mailbox_selected
    bads,        \* BAD replies the proxy wrote to the client
    contPending, \* a "+" the proxy relayed that the client has not acted on
    cli,         \* the client: "Ready", "WaitCont", "InIdle", "Gone"
    sent,        \* command lines the client sent
    pushed       \* unsolicited responses the server sent

vars == <<c2p, toUps, srvRead, u2p, mode, ret, ongoingCmd, ongoingRsp, mailbox,
          bads, contPending, cli, sent, pushed>>
proxy == <<mode, ret, ongoingCmd, ongoingRsp>>
client == <<cli, sent>>

\* Wire items.
Cmd(c) == [k |-> "Cmd", cls |-> c.cls, lit |-> c.lit]
Item(k) == [k |-> k, cls |-> "None", lit |-> "None"]
CltItems == {Cmd(c) : c \in ClientCmds} \cup {Item(k) : k \in {"Lit", "Rest", "Done", "Junk"}}
SrvKinds == {"Tagged", "Untagged", "Cont", "Bye", "LitHead", "SLit", "LitMid", "Tail"}
OneLiteral == <<"LitHead", "SLit", "Tail">>
TwoLiterals == <<"LitHead", "SLit", "LitMid", "SLit", "Tail">>

Terminal == {"ClientClose", "ServerClose", "Failed"}

TypeOK ==
    /\ c2p \in Seq(CltItems) /\ toUps \in Seq(CltItems)
    /\ srvRead \in 0..Len(toUps)
    /\ u2p \in Seq(SrvKinds)
    /\ mode \in {"Auth", "Idle", "CltLit", "SrvLit"} \cup Terminal
    /\ ret \in {"Auth", "Idle"}
    /\ ongoingCmd \in {"None", "Idle"} \cup Lits
    /\ ongoingRsp \in BOOLEAN /\ mailbox \in BOOLEAN /\ contPending \in BOOLEAN
    /\ bads \in 0..MaxCmds
    /\ cli \in {"Ready", "WaitCont", "InIdle", "Gone"}
    /\ sent \in 0..MaxCmds /\ pushed \in 0..MaxPush

Init ==
    /\ c2p = <<>> /\ toUps = <<>> /\ srvRead = 0 /\ u2p = <<>>
    /\ mode = "Auth" /\ ret = "Auth"
    /\ ongoingCmd = "None" /\ ongoingRsp = FALSE
    /\ mailbox \in BOOLEAN
    /\ bads = 0 /\ contPending = FALSE
    /\ cli = "Ready" /\ sent = 0 /\ pushed = 0

(***************************************************************************)
(* The proxy: the client arm of relay_authenticated.                       *)
(***************************************************************************)

\* Mutant of Reject: the BAD reply is written twice.
RejectRepliesTwice == bads' = bads + 2 /\ UNCHANGED <<toUps, mode, ongoingCmd>>

\* The reply of a rejected line: BadResponse::reply_invalid_command, no
\* write to ups_w.
Reject == bads' = bads + 1 /\ UNCHANGED <<toUps, mode, ongoingCmd>>

\* A command that may carry a literal is forwarded; its literal becomes the
\* ongoing command, and one that waits for continuation is relayed at once
\* (ClientAction::SendLiteral).
ForwardLiteralCommand(h) ==
    /\ toUps' = Append(toUps, h)
    /\ UNCHANGED bads
    /\ IF h.lit = "None"
          THEN UNCHANGED <<ongoingCmd, mode>>
          ELSE /\ ongoingCmd' = h.lit
               /\ mode' = IF h.lit = "Sync" THEN "CltLit" ELSE mode

\* handle_authenticated_cmd_line, for a line that parsed as command h.
HandleCommand(h) ==
    CASE h.cls = "Immediate"   -> /\ toUps' = Append(toUps, h)
                                  /\ UNCHANGED <<bads, mode, ongoingCmd>>
      [] h.cls = "Logout"      -> /\ toUps' = Append(toUps, h) /\ mode' = "ClientClose"
                                  /\ UNCHANGED <<bads, ongoingCmd>>
      [] h.cls = "Reauth"      -> Reject
      [] h.cls = "Literalable" -> ForwardLiteralCommand(h)
      [] h.cls = "Idle"        -> /\ toUps' = Append(toUps, h) /\ mode' = "Idle"
                                  /\ ongoingCmd' = "Idle" /\ UNCHANGED bads
      [] h.cls = "Mailbox"     -> IF mailbox THEN ForwardLiteralCommand(h) ELSE Reject
      [] OTHER                 -> Reject

\* Client arm, no ongoing command: the next line is parsed as a command.
\* A line that does not parse gets BYE and fails the task with
\* ClientAppError.
ClientCommandLine ==
    /\ mode = "Auth"
    /\ ongoingCmd = "None"
    /\ c2p # <<>>
    /\ LET h == Head(c2p) IN
         /\ c2p' = Tail(c2p)
         /\ IF h.k = "Cmd" /\ h.cls # "Junk"
               THEN HandleCommand(h)
               ELSE /\ mode' = "Failed"
                    /\ UNCHANGED <<toUps, bads, ongoingCmd>>
    /\ ret' = "Auth"
    /\ UNCHANGED <<srvRead, u2p, ongoingRsp, mailbox, contPending, client, pushed>>

\* Client arm, ongoing command present: handle_cmd_continue_line forwards
\* the line as the continuation of the ongoing command; a literal the line
\* announces stays ongoing and is relayed now unless it waits for a "+";
\* otherwise the command is completed.
ClientContinueLine ==
    /\ mode = "Auth"
    /\ ongoingCmd # "None"
    /\ c2p # <<>>
    /\ LET h == Head(c2p) IN
         /\ c2p' = Tail(c2p)
         /\ toUps' = Append(toUps, h)
         /\ ongoingCmd' = h.lit
         /\ mode' = IF h.lit = "NonSync" THEN "CltLit" ELSE mode
    /\ ret' = "Auth"
    /\ UNCHANGED <<srvRead, u2p, ongoingRsp, mailbox, bads, contPending, client, pushed>>

\* relay_client_literal: the literal bytes go from clt_r to ups_w.
RelayClientLiteral ==
    /\ mode = "CltLit"
    /\ c2p # <<>>
    /\ c2p' = Tail(c2p)
    /\ toUps' = Append(toUps, Head(c2p))
    /\ mode' = ret
    /\ UNCHANGED <<srvRead, u2p, ret, ongoingCmd, ongoingRsp, mailbox, bads,
                   contPending, client, pushed>>

(***************************************************************************)
(* relay_until_idle_done, client arm: only "DONE\r\n" is accepted.         *)
(***************************************************************************)

\* DONE is written upstream and the loop returns; any other line gets a
\* protocol-error BYE and the task fails.
IdleClientLine ==
    /\ mode = "Idle"
    /\ c2p # <<>>
    /\ c2p' = Tail(c2p)
    /\ IF Head(c2p).k = "Done"
          THEN toUps' = Append(toUps, Head(c2p)) /\ mode' = "Auth"
          ELSE mode' = "Failed" /\ UNCHANGED toUps
    /\ UNCHANGED <<srvRead, u2p, ret, ongoingCmd, ongoingRsp, mailbox, bads,
                   contPending, client, pushed>>

(***************************************************************************)
(* The server arm, shared by both loops.                                   *)
(***************************************************************************)

\* No ongoing response: handle_rsp_line.  A "+" is relayed to the client;
\* when the ongoing command waits for it, the pending client literal is
\* relayed next (RecvClientLiteral).  BYE closes.  A response announcing a
\* literal becomes the ongoing response and its literal is relayed next.
ServerResponseLine ==
    /\ mode \in {"Auth", "Idle"}
    /\ ~ongoingRsp
    /\ u2p # <<>>
    /\ LET h == Head(u2p) IN
         /\ u2p' = Tail(u2p)
         /\ CASE h \in {"Tagged", "Untagged"} ->
                   UNCHANGED <<mode, ret, ongoingRsp, contPending>>
              [] h = "Cont" ->
                   /\ contPending' = TRUE
                   /\ IF ongoingCmd = "Sync"
                         THEN mode' = "CltLit" /\ ret' = mode
                         ELSE UNCHANGED <<mode, ret>>
                   /\ UNCHANGED ongoingRsp
              [] h = "Bye" ->
                   mode' = "ServerClose" /\ UNCHANGED <<ret, ongoingRsp, contPending>>
              [] h = "LitHead" ->
                   /\ ongoingRsp' = TRUE /\ mode' = "SrvLit" /\ ret' = mode
                   /\ UNCHANGED contPending
              [] OTHER ->
                   /\ mode' = "Failed"
                   /\ UNCHANGED <<ret, ongoingRsp, contPending>>
    /\ UNCHANGED <<c2p, toUps, srvRead, ongoingCmd, mailbox, bads, client, pushed>>

\* Ongoing response: take_ongoing_response and handle_rsp_continue_line.
\* A line announcing another literal relays it next; relay_authenticated
\* puts the response back as ongoing first, relay_until_idle_done does not.
ServerContinueLine ==
    /\ mode \in {"Auth", "Idle"}
    /\ ongoingRsp
    /\ u2p # <<>>
    /\ LET h == Head(u2p) IN
         /\ u2p' = Tail(u2p)
         /\ CASE h = "LitMid" ->
                   /\ ongoingRsp' = (mode = "Auth")
                   /\ mode' = "SrvLit" /\ ret' = mode
              [] h = "Tail" ->
                   ongoingRsp' = FALSE /\ UNCHANGED <<mode, ret>>
              [] OTHER ->
                   /\ mode' = "Failed"
                   /\ UNCHANGED <<ret, ongoingRsp>>
    /\ UNCHANGED <<c2p, toUps, srvRead, ongoingCmd, mailbox, bads, contPending,
                   client, pushed>>

\* relay_server_literal: the literal bytes go from ups_r to clt_w.
RelayServerLiteral ==
    /\ mode = "SrvLit"
    /\ u2p # <<>>
    /\ u2p' = Tail(u2p)
    /\ mode' = ret
    /\ UNCHANGED <<c2p, toUps, srvRead, ret, ongoingCmd, ongoingRsp, mailbox,
                   bads, contPending, client, pushed>>

(***************************************************************************)
(* The IMAP server: it answers what reached it and may push responses.     *)
(***************************************************************************)

\* The server's answer to one item written to it: "+" for a synchronising
\* literal and for IDLE, BYE and the tagged reply for LOGOUT, nothing until
\* the line is complete for a LITERAL+ literal, a tagged reply otherwise, a
\* mailbox command possibly with a literal-carrying untagged response first.
Answers(h) ==
    CASE h.k = "Cmd" /\ h.lit = "Sync"    -> {<<"Cont">>}
      [] h.k = "Cmd" /\ h.lit = "NonSync" -> {<<>>}
      [] h.k = "Cmd" /\ h.cls = "Idle"    -> {<<"Cont">>}
      [] h.k = "Cmd" /\ h.cls = "Logout"  -> {<<"Bye", "Tagged">>}
      [] h.k = "Cmd" /\ h.cls = "Mailbox" -> {<<"Tagged">>, OneLiteral \o <<"Tagged">>}
      [] h.k = "Lit"                      -> {<<>>}
      [] OTHER                            -> {<<"Tagged">>}

ServerAnswer ==
    /\ srvRead < Len(toUps)
    /\ srvRead' = srvRead + 1
    /\ \E r \in Answers(toUps[srvRead + 1]) : u2p' = u2p \o r
    /\ UNCHANGED <<c2p, toUps, proxy, mailbox, bads, contPending, client, pushed>>

\* Unsolicited untagged data (mailbox updates, possibly with literals) or a
\* BYE at shutdown.
ServerPush ==
    /\ pushed < MaxPush
    /\ pushed' = pushed + 1
    /\ \E r \in {<<"Untagged">>, OneLiteral, TwoLiterals, <<"Bye">>} : u2p' = u2p \o r
    /\ UNCHANGED <<c2p, toUps, srvRead, proxy, mailbox, bads, contPending, client>>

(***************************************************************************)
(* The IMAP client.                                                        *)
(***************************************************************************)

\* The client sends a command line; a LITERAL+ literal and the rest of the
\* line follow at once, a synchronising literal waits for "+".
ClientSend ==
    /\ cli = "Ready"
    /\ sent < MaxCmds
    /\ sent' = sent + 1
    /\ \E c \in ClientCmds :
          /\ c2p' = c2p \o CASE c.cls = "Junk"     -> <<Item("Junk")>>
                              [] c.lit = "NonSync" -> <<Cmd(c), Item("Lit"), Item("Rest")>>
                              [] OTHER             -> <<Cmd(c)>>
          /\ cli' = CASE c.cls = "Idle"   -> "InIdle"
                       [] c.cls = "Logout" -> "Gone"
                       [] c.lit = "Sync"   -> "WaitCont"
                       [] OTHER            -> "Ready"
    /\ UNCHANGED <<toUps, srvRead, u2p, proxy, mailbox, bads, contPending, pushed>>

\* After "+", the client sends the literal and the rest of the line.
ClientLiteral ==
    /\ cli = "WaitCont" /\ contPending
    /\ c2p' = c2p \o <<Item("Lit"), Item("Rest")>>
    /\ cli' = "Ready" /\ contPending' = FALSE
    /\ UNCHANGED <<toUps, srvRead, u2p, proxy, mailbox, bads, sent, pushed>>

\* After "+ idling", the client ends IDLE with DONE, or sends something else.
ClientEndIdle ==
    /\ cli = "InIdle" /\ contPending
    /\ \E k \in {"Done"} \cup (IF \E c \in ClientCmds : c.cls = "Junk" THEN {"Junk"} ELSE {}) :
          /\ c2p' = Append(c2p, Item(k))
          /\ cli' = IF k = "Done" THEN "Ready" ELSE "Gone"
    /\ contPending' = FALSE
    /\ UNCHANGED <<toUps, srvRead, u2p, proxy, mailbox, bads, sent, pushed>>

(***************************************************************************)
(* The specification.                                                      *)
(***************************************************************************)

ProxyStep ==
    \/ ClientCommandLine \/ ClientContinueLine \/ RelayClientLiteral
    \/ IdleClientLine
    \/ ServerResponseLine \/ ServerContinueLine \/ RelayServerLiteral

Next ==
    \/ ProxyStep
    \/ ServerAnswer \/ ServerPush
    \/ ClientSend \/ ClientLiteral \/ ClientEndIdle

\* tokio::select! without `biased` polls both arms in random order, so each
\* ready read is taken eventually; the server answers what it received.
\* The client and unsolicited server data owe nothing.
Fairness ==
    /\ WF_vars(ClientCommandLine) /\ WF_vars(ClientContinueLine)
    /\ WF_vars(RelayClientLiteral) /\ WF_vars(IdleClientLine)
    /\ WF_vars(ServerResponseLine) /\ WF_vars(ServerContinueLine)
    /\ WF_vars(RelayServerLiteral)
    /\ WF_vars(ServerAnswer)

Spec == Init /\ [][Next]_vars /\ Fairness

(***************************************************************************)
(* Properties.                                                             *)
(***************************************************************************)

\* The spec (4.3, 8.4, 8.5): STARTTLS, AUTHENTICATE and LOGIN lines after
\* authentication and unrecognised commands never reach ups_w, and a
\* command acting on a selected mailbox reaches it only when a mailbox is
\* selected: handle_authenticated_cmd_line answers them BAD instead.
CommandFilterHolds ==
    \A i \in 1..Len(toUps) :
        toUps[i].k = "Cmd" =>
            /\ toUps[i].cls \notin {"Reauth", "Other", "Junk"}
            /\ toUps[i].cls = "Mailbox" => mailbox

\* The spec (4.3): a synchronising literal is relayed only after the
\* server's "+": the proxy never blocks reading a client literal that the
\* client holds back until it sees a "+" the proxy has not relayed.
NoCircularWait ==
    mode = "CltLit" /\ cli = "WaitCont" => contPending

=============================================================================
