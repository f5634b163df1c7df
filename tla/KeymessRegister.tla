---------------------------- MODULE KeymessRegister ----------------------------
(***************************************************************************)
(* Process registration of g3keymess: startup in                           *)
(* src/g3keymess/src/register.rs.                                          *)
(*                                                                         *)
(* startup tries register (RegisterTask::new, then task.register) and, on  *)
(* Err, sleeps retry_interval and tries again while retry_count <          *)
(* startup_retry, else returns the Err.  On Ok it spawns a task that       *)
(* pings until the connection ends, then every 10 seconds reopens the      *)
(* connection and registers again until both succeed, and pings again.    *)
(* RegisterTask is in g3-daemon, not under src/: opening a connection     *)
(* (new, reopen) succeeds exactly when the register upstream is up, a      *)
(* register succeeds exactly on a live connection, and ping_until_end      *)
(* returns once the connection is gone.  The upstream is the environment;  *)
(* going down drops every connection and registration, at most MaxOutages  *)
(* times.                                                                  *)
(***************************************************************************)
EXTENDS Naturals

CONSTANTS
    StartupRetry,   \* config.startup_retry()
    MaxOutages      \* the most times the register upstream goes down

ASSUME StartupRetry \in Nat /\ MaxOutages \in Nat

VARIABLES
    rpc,          \* "Startup", "RetrySleep", "Failed" (startup returned Err),
                  \* "Ping", "ReconnectSleep", "Reopen", "Register"
    retryCount,   \* retry_count of startup
    attempts,     \* register() calls startup made
    upstream,     \* the register upstream: "Up" or "Down"
    conn,         \* the task's connection to the upstream is alive
    registered,   \* the upstream holds this process's registration
    outages       \* times the upstream went down

rvars == <<rpc, retryCount, attempts, upstream, conn, registered, outages>>

RTypeOK ==
    /\ rpc \in {"Startup", "RetrySleep", "Failed", "Ping", "ReconnectSleep",
                "Reopen", "Register"}
    /\ retryCount \in 0..StartupRetry
    /\ attempts \in 0..StartupRetry + 1
    /\ upstream \in {"Up", "Down"}
    /\ conn \in BOOLEAN
    /\ registered \in BOOLEAN
    /\ outages \in 0..MaxOutages

\* The data map is built and the loop starts with retry_count 0; the
\* upstream may be up or down.
RInit ==
    /\ rpc = "Startup"
    /\ retryCount = 0
    /\ attempts = 0
    /\ upstream \in {"Up", "Down"}
    /\ conn = FALSE
    /\ registered = FALSE
    /\ outages = 0

\* startup retrying while retry_count <= startup_retry.
StartupAttemptOneMore ==
    /\ rpc = "Startup"
    /\ attempts' = attempts + 1
    /\ IF upstream = "Up"
          THEN /\ rpc' = "Ping" /\ conn' = TRUE /\ registered' = TRUE
               /\ UNCHANGED retryCount
          ELSE IF retryCount <= StartupRetry
                  THEN /\ rpc' = "RetrySleep"
                       /\ retryCount' = retryCount + 1
                       /\ UNCHANGED <<conn, registered>>
                  ELSE /\ rpc' = "Failed"
                       /\ UNCHANGED <<retryCount, conn, registered>>
    /\ UNCHANGED <<upstream, outages>>

\* One pass of startup's loop: register(); on Ok the ping task is spawned
\* and startup returns Ok; on Err it retries while retry_count <
\* startup_retry and otherwise returns the Err.
StartupAttempt ==
    /\ rpc = "Startup"
    /\ attempts' = attempts + 1
    /\ IF upstream = "Up"
          THEN /\ rpc' = "Ping" /\ conn' = TRUE /\ registered' = TRUE
               /\ UNCHANGED retryCount
          ELSE IF retryCount < StartupRetry
                  THEN /\ rpc' = "RetrySleep"
                       /\ retryCount' = retryCount + 1
                       /\ UNCHANGED <<conn, registered>>
                  ELSE /\ rpc' = "Failed"
                       /\ UNCHANGED <<retryCount, conn, registered>>
    /\ UNCHANGED <<upstream, outages>>

\* tokio::time::sleep(config.retry_interval()) ends.
RetryWake ==
    /\ rpc = "RetrySleep"
    /\ rpc' = "Startup"
    /\ UNCHANGED <<retryCount, attempts, upstream, conn, registered, outages>>

\* task.ping_until_end() returns: the connection to the upstream ended.
PingEnd ==
    /\ rpc = "Ping" /\ ~conn
    /\ rpc' = "ReconnectSleep"
    /\ UNCHANGED <<retryCount, attempts, upstream, conn, registered, outages>>

\* The 10 second sleep of the reconnect loop ends.
ReconnectWake ==
    /\ rpc = "ReconnectSleep"
    /\ rpc' = "Reopen"
    /\ UNCHANGED <<retryCount, attempts, upstream, conn, registered, outages>>

\* A reconnect loop that pings again right after reopen.
ReopenSkipRegister ==
    /\ rpc = "Reopen"
    /\ rpc' = IF upstream = "Up" THEN "Ping" ELSE "ReconnectSleep"
    /\ conn' = (upstream = "Up")
    /\ UNCHANGED <<retryCount, attempts, upstream, registered, outages>>

\* task.reopen(): on Err the loop continues (sleeps again).
Reopen ==
    /\ rpc = "Reopen"
    /\ rpc' = IF upstream = "Up" THEN "Register" ELSE "ReconnectSleep"
    /\ conn' = (upstream = "Up")
    /\ UNCHANGED <<retryCount, attempts, upstream, registered, outages>>

\* task.register(data): on Err the loop continues; on Ok it breaks out
\* and the task pings again.
TaskRegister ==
    /\ rpc = "Register"
    /\ IF conn
          THEN rpc' = "Ping" /\ registered' = TRUE
          ELSE rpc' = "ReconnectSleep" /\ UNCHANGED registered
    /\ UNCHANGED <<retryCount, attempts, upstream, conn, outages>>

\* The register upstream goes down, dropping every registration it held,
\* or comes back.
UpstreamDown ==
    /\ upstream = "Up" /\ outages < MaxOutages
    /\ upstream' = "Down" /\ conn' = FALSE /\ registered' = FALSE
    /\ outages' = outages + 1
    /\ UNCHANGED <<rpc, retryCount, attempts>>

UpstreamUp ==
    /\ upstream = "Down"
    /\ upstream' = "Up"
    /\ UNCHANGED <<rpc, retryCount, attempts, conn, registered, outages>>

RegisterStep ==
    StartupAttempt \/ RetryWake \/ PingEnd \/ ReconnectWake \/ Reopen \/ TaskRegister

\* startup returned Err and the process does not run.
StartupFailed ==
    /\ rpc = "Failed"
    /\ UNCHANGED rvars

\* ping_until_end keeps pinging over a live connection.
Pinging ==
    /\ rpc = "Ping" /\ conn
    /\ UNCHANGED rvars

RNext == RegisterStep \/ UpstreamDown \/ UpstreamUp \/ StartupFailed \/ Pinging

\* The sleeps end and the task is polled when woken (weak fairness on the
\* process's steps); an upstream that is down comes back (weak fairness on
\* UpstreamUp), as the reconnect loop assumes.
RSpec == RInit /\ [][RNext]_rvars /\ WF_rvars(RegisterStep) /\ WF_rvars(UpstreamUp)

-----------------------------------------------------------------------------

\* startup gives up only after the first attempt and startup_retry retries
\* all failed: a process that did not start made exactly startup_retry + 1
\* register() calls.
GivesUpAfterRetries == rpc = "Failed" => attempts = StartupRetry + 1

\* A process that started stays registered with its upstream, up to
\* outages: whenever it has started and the upstream is up, it is
\* eventually registered again, through the reconnect loop's reopen and
\* register.
Reregisters ==
    \A n \in 0..MaxOutages :
        (rpc # "Startup" /\ rpc # "RetrySleep" /\ rpc # "Failed"
           /\ upstream = "Up" /\ outages = n)
          ~> (registered \/ outages > n)

=============================================================================
