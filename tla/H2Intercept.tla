----------------------------- MODULE H2Intercept -----------------------------
(***************************************************************************)
(* The HTTP/2 interception engine of g3proxy for one connection:           *)
(* src/g3proxy/src/inspect/http/v2/mod.rs.                                 *)
(*                                                                         *)
(* One connection task (H2InterceptObject::intercept) dispatches on the    *)
(* inspect action, then runs the Bypass, Block, Detour or Intercept path.  *)
(* The Intercept path performs the two handshakes and runs the biased      *)
(* select loop over the upstream connection future, the client accept()    *)
(* and the idle tick; every accepted stream is a separately spawned task   *)
(* that bumps the shared H2ConcurrencyStats counter.  The peers, the h2    *)
(* library, the idle wheel and the quit policy are the environment.        *)
(***************************************************************************)
EXTENDS Integers

CONSTANTS
    Actions,              \* inspect actions the policy may return (h2_inspect_action)
    MaxIdleCount,         \* ctx.max_idle_count
    MaxTickBatch,         \* largest tick count one IdleInterval::tick() returns
    MaxConcurrentStreams  \* http_config.max_concurrent_streams (the local setting)

ASSUME Actions \subseteq {"Intercept", "Detour", "Bypass", "Block"} /\ Actions # {}
ASSUME MaxIdleCount \in Nat /\ MaxTickBatch \in Nat \ {0}
ASSUME MaxConcurrentStreams \in Nat \ {0}

VARIABLES
    action,     \* the inspect action chosen for this connection
    phase,      \* where the connection task is
    result,     \* the result the current path will return to intercept()
    ioTakes,    \* how often self.io.take().unwrap() ran
    upsW,       \* the upstream write half: "Held", "Relayed", "ShutdownPending", "Shutdown"
    detour,     \* the detour side stream: "None", "Open", "Finished", "Relayed"
    logs,       \* intercept_log! events emitted for the connection
    upsConn,    \* the h2 client connection future (h2s_connection)
    h2sHeld,    \* the parent task still holds the SendRequest handle h2s
    offer,      \* what the next h2c.accept() yields
    cltOpen,    \* the client-facing h2 connection may still yield something new
    goaway,     \* shutdown signalled on the client-facing connection
    tickReady,  \* the idle interval has a tick ready
    idleCount,  \* idle_count of the relay loop
    streams,    \* spawned stream tasks that have not yet finished
    alive,      \* H2ConcurrencyStats alive task counter
    blocked,    \* ctx.belongs_to_blocked_user()
    forceQuit,  \* ctx.server_force_quit()
    offline     \* ctx.server_offline()

conn  == <<action, phase, result, ioTakes, upsW, detour, logs>>
relay == <<upsConn, h2sHeld, offer, cltOpen, goaway, tickReady, idleCount>>
tasks == <<streams, alive>>
quit  == <<blocked, forceQuit, offline>>
vars  == <<conn, relay, tasks, quit>>

Results == {"None", "Finished", "RelayError", "Blocked", "AdapterError",
            "UpsHsFailed", "UpsHsTimeout", "CltHsFailed", "CltHsTimeout",
            "UpsClosed", "UpsDisconnected", "CltClosed",
            "Idle", "UserBlocked", "ServerQuit"}

Phases == {"Dispatch", "Bypass", "Block", "BlockClosing", "Detour", "DetourCheck",
           "DetourError", "Intercept", "CltHandshake", "Relay", "GraceDrain",
           "AbruptDrain", "UpsWait", "Return", "Done"}

\* Phases in which the client-facing h2 connection is being polled by accept().
AcceptPhases == {"Relay", "GraceDrain", "AbruptDrain"}

HandshakeOutcomes == {"Ok", "Failed", "Timeout"}

TypeOK ==
    /\ action \in Actions
    /\ phase \in Phases
    /\ result \in Results
    /\ ioTakes \in 0..2
    /\ upsW \in {"Held", "Relayed", "ShutdownPending", "Shutdown"}
    /\ detour \in {"None", "Open", "Finished", "Relayed"}
    /\ logs \in 0..2
    /\ upsConn \in {"None", "Running", "Ok", "ErrNotConnected", "Err", "Dropped"}
    /\ h2sHeld \in BOOLEAN
    /\ offer \in {"None", "Stream", "Eof", "ErrNotConnected", "Err"}
    /\ cltOpen \in BOOLEAN
    /\ goaway \in {"None", "Graceful", "Abrupt"}
    /\ tickReady \in BOOLEAN
    /\ idleCount \in 0..(MaxIdleCount + MaxTickBatch)
    /\ streams \in 0..MaxConcurrentStreams
    /\ alive \in -MaxConcurrentStreams..MaxConcurrentStreams
    /\ blocked \in BOOLEAN /\ forceQuit \in BOOLEAN /\ offline \in BOOLEAN

Init ==
    /\ action \in Actions
    /\ phase = "Dispatch"
    /\ result = "None"
    /\ ioTakes = 0
    /\ upsW = "Held"
    /\ detour = "None"
    /\ logs = 0
    /\ upsConn = "None"
    /\ h2sHeld = FALSE
    /\ offer = "None"
    /\ cltOpen = TRUE
    /\ goaway = "None"
    /\ tickReady = FALSE
    /\ idleCount = 0
    /\ streams = 0 /\ alive = 0
    /\ blocked = FALSE /\ forceQuit = FALSE /\ offline = FALSE

(***************************************************************************)
(* Helpers.                                                                *)
(***************************************************************************)

\* self.io.take().unwrap(): a second take would unwrap None and panic.
TakeIo == ioTakes' = ioTakes + 1

\* The path returns r to intercept(), which logs it next.
Return(r) == phase' = "Return" /\ result' = r

\* h2c.abrupt_shutdown(reason) followed by the server_abrupt_shutdown drain.
AbruptShutdown(r) == phase' = "AbruptDrain" /\ goaway' = "Abrupt" /\ result' = r

\* The value given to the client-facing server builder as its concurrency
\* cap: h2s_connection.max_concurrent_recv_streams() is the local setting of
\* the upstream client connection (streams the upstream may open towards the
\* proxy), which the client builder was given as max_concurrent_streams.
MaxConcurrentRecvStreams == MaxConcurrentStreams

\* The state the stats counter is in after stats.add_task().
StatsAddTask == alive' = alive + 1

(***************************************************************************)
(* intercept(): dispatch on h2_inspect_action, and the final log.          *)
(***************************************************************************)

Dispatch ==
    /\ phase = "Dispatch"
    /\ phase' = action
    /\ UNCHANGED <<action, result, ioTakes, upsW, detour, logs, relay, tasks, quit>>

\* intercept_log!(self, "finished") or intercept_log!(self, "{e}").
Finish ==
    /\ phase = "Return"
    /\ phase' = "Done"
    /\ logs' = logs + 1
    /\ UNCHANGED <<action, result, ioTakes, upsW, detour, relay, tasks, quit>>

(***************************************************************************)
(* do_bypass, do_block, do_detour and close_on_detour_error.               *)
(***************************************************************************)

\* do_bypass: take the io and run transit_transparent to its end.
DoBypass ==
    /\ phase = "Bypass"
    /\ TakeIo
    /\ upsW' = "Relayed"
    /\ \E r \in {"Finished", "RelayError"} : Return(r)
    /\ UNCHANGED <<action, detour, logs, relay, tasks, quit>>

\* do_block: take the io, spawn the shutdown of ups_w, then handshake with
\* the client under client_handshake_timeout.
DoBlock ==
    /\ phase = "Block"
    /\ TakeIo
    /\ upsW' = "ShutdownPending"
    /\ \E hs \in HandshakeOutcomes :
          CASE hs = "Ok"      -> phase' = "BlockClosing" /\ goaway' = "Abrupt"
                                 /\ UNCHANGED result
            [] hs = "Failed"  -> Return("CltHsFailed") /\ UNCHANGED goaway
            [] hs = "Timeout" -> Return("CltHsTimeout") /\ UNCHANGED goaway
    /\ UNCHANGED <<action, detour, logs, upsConn, h2sHeld, offer, cltOpen,
                   tickReady, idleCount, tasks, quit>>

\* do_block after abrupt_shutdown(HTTP_1_1_REQUIRED): poll_closed, then fail.
BlockPollClosed ==
    /\ phase = "BlockClosing"
    /\ Return("Blocked")
    /\ UNCHANGED <<action, ioTakes, upsW, detour, logs, relay, tasks, quit>>

\* do_detour up to check_detour_action: no detour client falls back to
\* do_bypass; a failed open_detour_stream goes to close_on_detour_error.
DetourOpen ==
    /\ phase = "Detour"
    /\ \E c \in {"NoClient", "OpenFailed", "Opened"} :
          CASE c = "NoClient"   -> phase' = "Bypass" /\ UNCHANGED detour
            [] c = "OpenFailed" -> phase' = "DetourError" /\ UNCHANGED detour
            [] c = "Opened"     -> phase' = "DetourCheck" /\ detour' = "Open"
    /\ UNCHANGED <<action, result, ioTakes, upsW, logs, relay, tasks, quit>>

\* Mutant of DetourCheck: the Block answer runs close_on_detour_error's
\* io take before falling into do_block.
DetourCheckBlockTakesIo ==
    /\ phase = "DetourCheck"
    /\ \E a \in {"Continue", "Bypass", "Block", "Error"} :
          CASE a = "Continue" -> /\ TakeIo /\ upsW' = "Relayed" /\ detour' = "Relayed"
                                 /\ \E r \in {"Finished", "RelayError"} : Return(r)
            [] a = "Bypass"   -> /\ detour' = "Finished" /\ phase' = "Bypass"
                                 /\ UNCHANGED <<ioTakes, upsW, result>>
            [] a = "Block"    -> /\ detour' = "Finished" /\ phase' = "Block" /\ TakeIo
                                 /\ UNCHANGED <<upsW, result>>
            [] a = "Error"    -> /\ detour' = "Finished" /\ phase' = "DetourError"
                                 /\ UNCHANGED <<ioTakes, upsW, result>>
    /\ UNCHANGED <<action, logs, relay, tasks, quit>>

\* do_detour: act on the answer of check_detour_action.
DetourCheck ==
    /\ phase = "DetourCheck"
    /\ \E a \in {"Continue", "Bypass", "Block", "Error"} :
          CASE a = "Continue" -> /\ TakeIo /\ upsW' = "Relayed" /\ detour' = "Relayed"
                                 /\ \E r \in {"Finished", "RelayError"} : Return(r)
            [] a = "Bypass"   -> /\ detour' = "Finished" /\ phase' = "Bypass"
                                 /\ UNCHANGED <<ioTakes, upsW, result>>
            [] a = "Block"    -> /\ detour' = "Finished" /\ phase' = "Block"
                                 /\ UNCHANGED <<ioTakes, upsW, result>>
            [] a = "Error"    -> /\ detour' = "Finished" /\ phase' = "DetourError"
                                 /\ UNCHANGED <<ioTakes, upsW, result>>
    /\ UNCHANGED <<action, logs, relay, tasks, quit>>

\* close_on_detour_error, then the InternalAdapterError of do_detour: take
\* the io, spawn the shutdown of ups_w, and if the client handshake succeeds
\* abrupt_shutdown(INTERNAL_ERROR) and poll_closed.
CloseOnDetourError ==
    /\ phase = "DetourError"
    /\ TakeIo
    /\ upsW' = "ShutdownPending"
    /\ \E hs \in HandshakeOutcomes :
          goaway' = IF hs = "Ok" THEN "Abrupt" ELSE goaway
    /\ Return("AdapterError")
    /\ UNCHANGED <<action, detour, logs, upsConn, h2sHeld, offer, cltOpen,
                   tickReady, idleCount, tasks, quit>>

(***************************************************************************)
(* do_intercept: the two handshakes.                                       *)
(***************************************************************************)

UpstreamHandshake ==
    /\ phase = "Intercept"
    /\ TakeIo
    /\ upsW' = "Relayed"
    /\ \E hs \in HandshakeOutcomes :
          CASE hs = "Ok"      -> /\ phase' = "CltHandshake" /\ upsConn' = "Running"
                                 /\ h2sHeld' = TRUE /\ UNCHANGED result
            [] hs = "Failed"  -> Return("UpsHsFailed") /\ UNCHANGED <<upsConn, h2sHeld>>
            [] hs = "Timeout" -> Return("UpsHsTimeout") /\ UNCHANGED <<upsConn, h2sHeld>>
    /\ UNCHANGED <<action, detour, logs, offer, cltOpen, goaway, tickReady,
                   idleCount, tasks, quit>>

\* The client-facing handshake; on failure h2s and h2s_connection are dropped.
ClientHandshake ==
    /\ phase = "CltHandshake"
    /\ \E hs \in HandshakeOutcomes :
          CASE hs = "Ok"      -> phase' = "Relay" /\ UNCHANGED <<result, upsConn, h2sHeld>>
            [] hs = "Failed"  -> /\ Return("CltHsFailed")
                                 /\ upsConn' = "Dropped" /\ h2sHeld' = FALSE
            [] hs = "Timeout" -> /\ Return("CltHsTimeout")
                                 /\ upsConn' = "Dropped" /\ h2sHeld' = FALSE
    /\ UNCHANGED <<action, ioTakes, upsW, detour, logs, offer, cltOpen, goaway,
                   tickReady, idleCount, tasks, quit>>

(***************************************************************************)
(* do_intercept: the biased select loop.  An arm is taken only when no     *)
(* arm above it is ready.                                                  *)
(***************************************************************************)

UpstreamReady == upsConn \in {"Ok", "ErrNotConnected", "Err"}

\* Mutant of RelayUpstreamDone: server_graceful_shutdown without the
\* h2c.graceful_shutdown() call.
RelayUpstreamDoneNoGoaway ==
    /\ phase = "Relay"
    /\ UpstreamReady
    /\ phase' = "GraceDrain"
    /\ result' = CASE upsConn = "Ok"              -> "Finished"
                   [] upsConn = "ErrNotConnected" -> "UpsDisconnected"
                   [] upsConn = "Err"             -> "UpsClosed"
    /\ UNCHANGED <<action, ioTakes, upsW, detour, logs, upsConn, h2sHeld, offer,
                   cltOpen, goaway, tickReady, idleCount, tasks, quit>>

\* Arm 1: the upstream connection ended; server_graceful_shutdown follows.
RelayUpstreamDone ==
    /\ phase = "Relay"
    /\ UpstreamReady
    /\ phase' = "GraceDrain"
    /\ goaway' = IF goaway = "None" THEN "Graceful" ELSE goaway
    /\ result' = CASE upsConn = "Ok"              -> "Finished"
                   [] upsConn = "ErrNotConnected" -> "UpsDisconnected"
                   [] upsConn = "Err"             -> "UpsClosed"
    /\ UNCHANGED <<action, ioTakes, upsW, detour, logs, upsConn, h2sHeld, offer,
                   cltOpen, tickReady, idleCount, tasks, quit>>

\* Mutant of RelayAccept: the stream task is spawned without stats.add_task().
RelayAcceptNoAddTask ==
    /\ phase = "Relay"
    /\ ~UpstreamReady
    /\ offer # "None"
    /\ offer' = "None"
    /\ IF offer = "Stream"
          THEN /\ streams' = streams + 1
               /\ UNCHANGED <<phase, result, h2sHeld, alive>>
          ELSE /\ h2sHeld' = FALSE
               /\ phase' = "UpsWait"
               /\ result' = IF offer = "Err" THEN "CltClosed" ELSE "Finished"
               /\ UNCHANGED tasks
    /\ UNCHANGED <<action, ioTakes, upsW, detour, logs, upsConn, cltOpen, goaway,
                   tickReady, idleCount, quit>>

\* Arm 2: h2c.accept() yielded.  A stream is spawned as its own task after
\* stats.add_task(); an error or the end drops h2s and waits for the
\* upstream connection to finish.
RelayAccept ==
    /\ phase = "Relay"
    /\ ~UpstreamReady
    /\ offer # "None"
    /\ offer' = "None"
    /\ IF offer = "Stream"
          THEN /\ streams' = streams + 1
               /\ StatsAddTask
               /\ UNCHANGED <<phase, result, h2sHeld>>
          ELSE /\ h2sHeld' = FALSE
               /\ phase' = "UpsWait"
               /\ result' = IF offer = "Err" THEN "CltClosed" ELSE "Finished"
               /\ UNCHANGED tasks
    /\ UNCHANGED <<action, ioTakes, upsW, detour, logs, upsConn, cltOpen, goaway,
                   tickReady, idleCount, quit>>

\* Mutant of RelayTick: idle_count is never reset while streams are alive.
RelayTickNoReset ==
    /\ phase = "Relay"
    /\ ~UpstreamReady
    /\ offer = "None"
    /\ tickReady
    /\ tickReady' = FALSE
    /\ \E n \in 1..MaxTickBatch :
          LET quiet == alive <= 0
              count == idleCount + n
          IN  /\ idleCount' = count
              /\ IF quiet /\ count > MaxIdleCount THEN AbruptShutdown("Idle")
                 ELSE IF blocked THEN AbruptShutdown("UserBlocked")
                 ELSE IF forceQuit THEN AbruptShutdown("ServerQuit")
                 ELSE /\ goaway' = IF offline /\ goaway = "None" THEN "Graceful" ELSE goaway
                      /\ UNCHANGED <<phase, result>>
    /\ UNCHANGED <<action, ioTakes, upsW, detour, logs, upsConn, h2sHeld, offer,
                   cltOpen, tasks, quit>>

\* Arm 3: the idle tick, n elapsed ticks at once.
RelayTick ==
    /\ phase = "Relay"
    /\ ~UpstreamReady
    /\ offer = "None"
    /\ tickReady
    /\ tickReady' = FALSE
    /\ \E n \in 1..MaxTickBatch :
          LET quiet == alive <= 0
              count == IF quiet THEN idleCount + n ELSE 0
          IN  /\ idleCount' = count
              /\ IF quiet /\ count > MaxIdleCount THEN AbruptShutdown("Idle")
                 ELSE IF blocked THEN AbruptShutdown("UserBlocked")
                 ELSE IF forceQuit THEN AbruptShutdown("ServerQuit")
                 ELSE /\ goaway' = IF offline /\ goaway = "None" THEN "Graceful" ELSE goaway
                      /\ UNCHANGED <<phase, result>>
    /\ UNCHANGED <<action, ioTakes, upsW, detour, logs, upsConn, h2sHeld, offer,
                   cltOpen, tasks, quit>>

\* server_graceful_shutdown / server_abrupt_shutdown: refuse every stream
\* accept() still yields until it yields an error or the end.
DrainAccept ==
    /\ phase \in {"GraceDrain", "AbruptDrain"}
    /\ offer # "None"
    /\ offer' = "None"
    /\ IF offer = "Stream" THEN UNCHANGED phase ELSE phase' = "Return"
    /\ UNCHANGED <<action, result, ioTakes, upsW, detour, logs, upsConn, h2sHeld,
                   cltOpen, goaway, tickReady, idleCount, tasks, quit>>

\* let _ = h2s_connection.await after dropping h2s.
UpsWaitDone ==
    /\ phase = "UpsWait"
    /\ upsConn # "Running"
    /\ phase' = "Return"
    /\ UNCHANGED <<action, result, ioTakes, upsW, detour, logs, relay, tasks, quit>>

(***************************************************************************)
(* Spawned stream tasks: stream::transfer(...).await; stats.del_task();    *)
(***************************************************************************)

\* stream::transfer returns, releasing the task's h2 stream and its clone of
\* h2s, and stats.del_task() runs right after it with no await in between.
\* (A tick that lands between the two only sees one stream more alive.)
TaskEnd ==
    /\ streams > 0
    /\ streams' = streams - 1
    /\ alive' = alive - 1
    /\ UNCHANGED <<conn, relay, quit>>

(***************************************************************************)
(* Environment: the client, the h2 library, the upstream, the idle wheel,  *)
(* the quit policy and the spawned ups_w.shutdown() task.                  *)
(***************************************************************************)

\* The client opens a stream; the h2 server enforces the cap it was built
\* with, and admits no new stream once a GOAWAY was sent.
ClientOpenStream ==
    /\ phase \in AcceptPhases
    /\ cltOpen /\ goaway = "None" /\ offer = "None"
    /\ streams < MaxConcurrentRecvStreams
    /\ offer' = "Stream"
    /\ UNCHANGED <<conn, upsConn, h2sHeld, cltOpen, goaway, tickReady, idleCount, tasks, quit>>

\* The client connection fails; accept() yields Err.
ClientFail ==
    /\ phase \in AcceptPhases
    /\ cltOpen /\ offer = "None"
    /\ \E e \in {"ErrNotConnected", "Err"} : offer' = e
    /\ cltOpen' = FALSE
    /\ UNCHANGED <<conn, upsConn, h2sHeld, goaway, tickReady, idleCount, tasks, quit>>

\* The client closes the connection with no stream open; accept() yields None.
ClientClose ==
    /\ phase \in AcceptPhases
    /\ cltOpen /\ offer = "None" /\ streams = 0
    /\ offer' = "Eof"
    /\ cltOpen' = FALSE
    /\ UNCHANGED <<conn, upsConn, h2sHeld, goaway, tickReady, idleCount, tasks, quit>>

\* The h2 server closes the connection itself after a GOAWAY: at once for an
\* abrupt shutdown, once the open streams are done for a graceful one.
H2Closed ==
    /\ phase \in AcceptPhases
    /\ cltOpen /\ offer = "None"
    /\ \/ goaway = "Abrupt"
       \/ goaway = "Graceful" /\ streams = 0
    /\ offer' = "Eof"
    /\ cltOpen' = FALSE
    /\ UNCHANGED <<conn, upsConn, h2sHeld, goaway, tickReady, idleCount, tasks, quit>>

\* The upstream ends the connection: cleanly, NotConnected, or another error.
UpstreamEnd ==
    /\ upsConn = "Running"
    /\ \E e \in {"Ok", "ErrNotConnected", "Err"} : upsConn' = e
    /\ UNCHANGED <<conn, h2sHeld, offer, cltOpen, goaway, tickReady, idleCount, tasks, quit>>

\* The h2 client connection finishes once every SendRequest handle is gone.
UpstreamRelease ==
    /\ upsConn = "Running"
    /\ ~h2sHeld /\ streams = 0
    /\ upsConn' = "Ok"
    /\ UNCHANGED <<conn, h2sHeld, offer, cltOpen, goaway, tickReady, idleCount, tasks, quit>>

\* The idle wheel ticks (the interval is registered when the loop starts).
TimerFire ==
    /\ phase = "Relay"
    /\ ~tickReady
    /\ tickReady' = TRUE
    /\ UNCHANGED <<conn, upsConn, h2sHeld, offer, cltOpen, goaway, idleCount, tasks, quit>>

\* The quit policy raises one of its flags.
QuitSignal ==
    /\ \/ ~blocked /\ blocked' = TRUE /\ UNCHANGED <<forceQuit, offline>>
       \/ ~forceQuit /\ forceQuit' = TRUE /\ UNCHANGED <<blocked, offline>>
       \/ ~offline /\ offline' = TRUE /\ UNCHANGED <<blocked, forceQuit>>
    /\ UNCHANGED <<conn, relay, tasks>>

\* The spawned ups_w.shutdown() completes.
UpstreamShutdownDone ==
    /\ upsW = "ShutdownPending"
    /\ upsW' = "Shutdown"
    /\ UNCHANGED <<action, phase, result, ioTakes, detour, logs, relay, tasks, quit>>

\* The connection task has returned and every task is gone.
Terminated ==
    /\ phase = "Done" /\ streams = 0
    /\ UNCHANGED vars

(***************************************************************************)
(* The specification.                                                      *)
(***************************************************************************)

ConnectionStep ==
    \/ Dispatch \/ DoBypass \/ DoBlock \/ BlockPollClosed
    \/ DetourOpen \/ DetourCheck \/ CloseOnDetourError
    \/ UpstreamHandshake \/ ClientHandshake
    \/ RelayUpstreamDone \/ RelayAccept \/ RelayTick
    \/ DrainAccept \/ UpsWaitDone \/ Finish

Environment ==
    \/ ClientOpenStream \/ ClientFail \/ ClientClose \/ H2Closed
    \/ UpstreamEnd \/ UpstreamRelease \/ TimerFire \/ QuitSignal
    \/ UpstreamShutdownDone

Next ==
    \/ ConnectionStep
    \/ TaskEnd
    \/ Environment
    \/ Terminated

\* The tokio runtime polls the connection task and every spawned task when
\* they can progress; each stream transfer ends under its own idle limit;
\* the idle wheel keeps ticking; the h2 library closes a connection it was
\* told to shut down, and the upstream connection once it is unreferenced;
\* a spawned shutdown completes.  The peers and the quit policy owe nothing.
Fairness ==
    /\ WF_vars(ConnectionStep)
    /\ WF_vars(TaskEnd)
    /\ WF_vars(TimerFire)
    /\ WF_vars(H2Closed)
    /\ WF_vars(UpstreamRelease)
    /\ WF_vars(UpstreamShutdownDone)

Spec == Init /\ [][Next]_vars /\ Fairness

(***************************************************************************)
(* Properties.                                                             *)
(***************************************************************************)

\* The refinement mapping onto the engine contract: the phase of the
\* connection task gives the stage, self.io.take() the takes, ups_w handed to
\* a relay, a handshake or a spawned shutdown releases the upstream, and the
\* result a path returned to intercept() is the outcome.
Contract == INSTANCE InterceptContract WITH
    stage   <- CASE phase = "Dispatch" -> "Dispatch"
                 [] phase = "Return"   -> "Concluded"
                 [] phase = "Done"     -> "Logged"
                 [] OTHER              -> "Run",
    takes   <- ioTakes,
    ups     <- IF upsW = "Held" THEN "Held" ELSE "Released",
    outcome <- IF phase \in {"Return", "Done"}
                  THEN IF result = "Finished" THEN "Ok" ELSE "Err"
                  ELSE "None"

\* The HTTP/2 engine implements the engine contract: whichever path runs
\* (do_detour falling back to do_bypass or do_block, close_on_detour_error,
\* the handshake failures, every exit of the relay loop), self.io is taken
\* exactly once so take().unwrap() cannot panic, ups_w is relayed or shut
\* down before intercept() logs, and intercept() logs exactly once.
ImplementsContract == Contract!Spec

\* The relay loop never ends a connection for being idle while a spawned
\* stream task is still transferring: the alive counter read on the tick
\* (stats.add_task before spawn, stats.del_task after transfer) covers
\* every stream in flight.
IdleNeverCutsLiveStream ==
    [][phase = "Relay" /\ phase' = "AbruptDrain" /\ result' = "Idle" => streams = 0]_vars

\* Once the client side is being shut down (server_graceful_shutdown,
\* server_abrupt_shutdown, do_block's poll_closed) or the task waits for the
\* upstream connection to finish, the connection task ends.
ShutdownCompletes ==
    phase \in {"GraceDrain", "AbruptDrain", "UpsWait", "BlockClosing"} ~> phase = "Done"

\* The spec (5, 9): the quit flags are sampled on every idle tick, so a
\* server force quit ends the connection within the tick period; the biased
\* select must not let a busy source starve the tick.
ForceQuitEndsConnection == forceQuit ~> phase = "Done"

=============================================================================
