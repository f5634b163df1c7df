---------------------------- MODULE ImapIntercept ----------------------------
(***************************************************************************)
(* The entry point of the IMAP interception engine for one connection:     *)
(* ImapInterceptObject::intercept and its three paths in                   *)
(* src/g3proxy/src/inspect/imap/mod.rs.  The transparent relay             *)
(* (transit_transparent) runs to its end in one step; the spawned          *)
(* ups_w.shutdown() completes on its own.                                  *)
(***************************************************************************)
EXTENDS Naturals

CONSTANT Policies   \* what ctx.imap_inspect_policy() may return

ASSUME Policies \subseteq {"Bypass", "Intercept", "Block"} /\ Policies # {}

VARIABLES
    policy,    \* the inspect policy for this connection
    phase,     \* "Dispatch", "Bypass", "Intercept", "Block", "Return", "Done"
    result,    \* what the path returned: "None", "Ok" or an error kind
    ioTakes,   \* how often self.io.take().unwrap() ran
    upsW,      \* the upstream write half: "Held", "Relayed", "ShutdownPending", "Shutdown"
    logs       \* intercept_log! events emitted for the connection

vars == <<policy, phase, result, ioTakes, upsW, logs>>

Results == {"None", "Ok", "RelayError", "ClientWriteFailed", "ProtoBanned"}

TypeOK ==
    /\ policy \in Policies
    /\ phase \in {"Dispatch", "Bypass", "Intercept", "Block", "Return", "Done"}
    /\ result \in Results
    /\ ioTakes \in 0..1
    /\ upsW \in {"Held", "Relayed", "ShutdownPending", "Shutdown"}
    /\ logs \in 0..1

\* ImapInterceptObject::new and set_io: io is Some, nothing logged yet.
Init ==
    /\ policy \in Policies
    /\ phase = "Dispatch"
    /\ result = "None"
    /\ ioTakes = 0
    /\ upsW = "Held"
    /\ logs = 0

\* intercept(): match on ctx.imap_inspect_policy().
Dispatch ==
    /\ phase = "Dispatch"
    /\ phase' = policy
    /\ UNCHANGED <<policy, result, ioTakes, upsW, logs>>

\* do_bypass: take the io and run transit_transparent; the Bypass arm of
\* intercept() passes its error on with `?` and returns Ok(None), and logs
\* nothing either way.
DoBypass ==
    /\ phase = "Bypass"
    /\ ioTakes' = ioTakes + 1
    /\ upsW' = "Relayed"
    /\ \E r \in {"Ok", "RelayError"} : result' = r
    /\ phase' = "Done"
    /\ UNCHANGED <<policy, logs>>

\* do_intercept: take the io and run transit_transparent; the Intercept arm
\* of intercept() goes on to the log.
DoIntercept ==
    /\ phase = "Intercept"
    /\ ioTakes' = ioTakes + 1
    /\ upsW' = "Relayed"
    /\ \E r \in {"Ok", "RelayError"} : result' = r
    /\ phase' = "Return"
    /\ UNCHANGED <<policy, logs>>

\* do_block: take the io, spawn ups_w.shutdown(), reply BYE to the client,
\* then fail with ForbiddenByRule(ProtoBanned); a failed BYE write returns
\* ClientTcpWriteFailed through `?`.  intercept() returns either with `?`.
DoBlock ==
    /\ phase = "Block"
    /\ ioTakes' = ioTakes + 1
    /\ upsW' = "ShutdownPending"
    /\ \E r \in {"ClientWriteFailed", "ProtoBanned"} : result' = r
    /\ phase' = "Done"
    /\ UNCHANGED <<policy, logs>>

\* The Intercept arm of intercept(): intercept_log!(self, "finished") or
\* intercept_log!(self, "{e}").
LogIntercepted ==
    /\ phase = "Return"
    /\ phase' = "Done"
    /\ logs' = logs + 1
    /\ UNCHANGED <<policy, result, ioTakes, upsW>>

\* The spawned ups_w.shutdown() completes.
UpstreamShutdownDone ==
    /\ upsW = "ShutdownPending"
    /\ upsW' = "Shutdown"
    /\ UNCHANGED <<policy, phase, result, ioTakes, logs>>

\* intercept() has returned.
Terminated ==
    /\ phase = "Done"
    /\ UNCHANGED vars

Next ==
    \/ Dispatch \/ DoBypass \/ DoIntercept \/ DoBlock \/ LogIntercepted
    \/ UpstreamShutdownDone \/ Terminated

Spec == Init /\ [][Next]_vars /\ WF_vars(Next)

\* The refinement mapping onto the engine contract.
Contract == INSTANCE InterceptContract WITH
    action  <- policy,
    Actions <- Policies,
    stage   <- CASE phase = "Dispatch" -> "Dispatch"
                 [] phase = "Return"   -> "Concluded"
                 [] phase = "Done"     -> "Logged"
                 [] OTHER              -> "Run",
    takes   <- ioTakes,
    ups     <- IF upsW = "Held" THEN "Held" ELSE "Released",
    outcome <- IF phase \in {"Return", "Done"}
                  THEN IF result = "Ok" THEN "Ok" ELSE "Err"
                  ELSE "None"

\* The spec (4.1): all paths, on success or failure, emit exactly one log
\* event for the connection; intercept() has returned only after that log.
ImplementsContract == Contract!Spec

=============================================================================
