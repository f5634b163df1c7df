# TLA+ models of the g3 protocol interception engines

This directory holds TLA+ specifications of the stateful, concurrent parts of
g3 (the g3proxy forward proxy and its libraries). They are checked with the
TLC model checker. Each module is translated from the Rust source under `src/`.
`PROJECT.json` maps every definition to the lines it models. It also lists
every run, every mutant and every finding.

## The system and its parts

g3proxy inspects a client connection it has intercepted. For each protocol an
*interception engine object* owns the four IO halves: client read/write and
upstream read/write. Its `intercept()` dispatches on the inspect policy:

- Bypass relays transparently;
- Block refuses;
- Detour hands the streams to an ICAP-like adaptation relay;
- Intercept parses the protocol and relays it while applying rules.

Every path must take the IO exactly once and hand on the upstream write half.
It must end with exactly one log event (spec 4.1).

| Part | Source | Module | Status |
|---|---|---|---|
| Engine contract (spec 4.1) | shared by all engines | `InterceptContract` | abstract spec |
| HTTP/2 engine | `inspect/http/v2/mod.rs` | `H2Intercept`, `MC_H2Intercept` | partly (stream transfer abstracted) |
| IMAP engine, entry point | `inspect/imap/mod.rs` | `ImapIntercept` | modelled (no run at present, see known issues) |
| IMAP authenticated-state relay | `inspect/imap/authenticated.rs` | `ImapAuthenticated`, `MC_ImapAuthenticated` | modelled |
| Datagram fixed-window rate limiter | `g3-io-ext/src/limit/fixed_window/datagram.rs` | `DatagramLimiter`, `MC_DatagramLimiter` | modelled |
| Line receive buffer | `g3-io-ext/src/io/line_recv_vec.rs` | `LineRecvVec`, `MC_LineRecvVec`, abstract `LineStream` | modelled |
| HTTP/2 body to chunked encoder | `g3-h2/src/body/to_chunked_transfer.rs` | `ChunkedTransfer`, `MC_ChunkedTransfer` | partly (`with_chunk` of an empty chunk left out) |
| ICAP client connection reuse | `g3-icap-client/src/service/connection.rs`, `reqmod/h1/forward_body.rs`, `reqmod/smtp/data/recv_*.rs` | `IcapReuse`, `MC_IcapReuse` | partly (pool and preview path not under `src/`) |
| statsd importer registry | `g3statsd/src/import/registry.rs` | `ImporterRegistry`, checked in `StatsdRegistries`, `MC_StatsdRegistries` | modelled |
| statsd collect config registry | `g3statsd/src/config/collect/mod.rs` | `CollectConfigRegistry`, checked in `StatsdRegistries`, `MC_StatsdRegistries` | modelled |
| Read-all-now helper | `g3-io-ext/src/io/ext/read_all_now.rs` | `ReadAllNow`, `MC_ReadAllNow` | modelled |
| keymess backend dispatcher | `g3keymess/src/backend/dispatch.rs` | `KeymessDispatch`, `KeymessDaemon`, `MC_KeymessDaemon` | modelled |
| keymess registration | `g3keymess/src/register.rs` | `KeymessRegister`, `KeymessDaemon`, `MC_KeymessDaemon` | modelled |
| Config parsing, TLS helpers, socket/OS glue | various | none | not modelled: pure parsing or I/O |

## Modules

### InterceptContract

This is the abstract specification of one engine connection. The variables are:

- `stage`: Dispatch → Run → Concluded → Logged;
- `takes`: how often the IO was taken;
- `ups`: whether the upstream write half is Held or Released;
- `outcome`;
- `logs`.

Its actions are Choose, Take (which may conclude in the same step), Conclude
and Log. Log needs the upstream half released. Since `takes` only goes 0→1 and
Log fires only from Concluded, "the IO is taken once" and "exactly one log after
the conclusion" are part of the contract. Every engine module declares an
instance `Contract == INSTANCE InterceptContract WITH ...` with a refinement
mapping. It checks `ImplementsContract == Contract!Spec` as a PROPERTY.

### H2Intercept (http/v2/mod.rs)

There is one connection task plus the stream tasks it spawns. It has four
groups of variables:

- The connection group holds `phase`, `result`, `ioTakes`, `upsW`, `detour`
  and `logs`.
- The relay loop holds the upstream connection future, whether the `h2s`
  handle is still held, what `accept()` offers next, goaway, the tick, and
  `idle_count`.
- The tasks group holds the number of spawned `streams` and the shared
  `H2ConcurrencyStats` counter `alive`.
- The quit flags are user-blocked, force-quit and offline.

Each code step is one action:

- `Dispatch` and `Finish` are `intercept()`.
- `DoBypass`, `DoBlock` with `BlockPollClosed`, `DetourOpen`, `DetourCheck` and
  `CloseOnDetourError` are the other paths.
- `UpstreamHandshake` and `ClientHandshake` are the two handshakes. Each has
  three outcomes: ok, failed, or timed out.
- `RelayUpstreamDone`, `RelayAccept` and `RelayTick` are the three arms of the
  `biased` select. A lower arm is enabled only when no higher arm is ready.
- `DrainAccept` is `server_graceful_shutdown` or `server_abrupt_shutdown`.
- `UpsWaitDone` is the wait on the upstream connection after the client side
  ends.
- `TaskEnd` is a spawned stream task finishing: `del_task` runs, even on
  error.

The environment steps are the peers, the timer and the quit policy:
`ClientOpenStream`, `ClientFail`, `ClientClose`, `UpstreamEnd`,
`UpstreamRelease`, `UpstreamShutdownDone`, `TimerFire` and `QuitSignal`. `stream::transfer` and `transit_transparent` are not under
`src/`. Each is abstracted to its outcome.

### ImapIntercept (imap/mod.rs)

This module covers `intercept()` and its paths `do_bypass`, `do_intercept` and
`do_block`. `do_block` includes the spawned `ups_w.shutdown()`. The module
maps its state to the same engine contract (`ImplementsContract`). That
property fails on the Bypass and Block arms, which log nothing (mod.rs:90,
104); no run checks it at present (see the known issues).

### ImapAuthenticated (imap/authenticated.rs)

This is the authenticated-state relay: `relay_authenticated`,
`handle_authenticated_cmd_line` and `relay_until_idle_done`.

IMAP lines are abstracted to records `[k, cls, lit]`:

- the kind is Cmd, Lit, Rest, Done, Junk, Tagged, Untagged, Cont, Bye,
  LitHead, SLit, LitMid or Tail;
- the command class is Immediate, Logout, Reauth, Literalable, Idle, Mailbox,
  Other or Junk;
- the literal is None, Sync or NonSync.

The module has four kinds of state:

- Channels: `c2p` (client → proxy), `toUps` (everything the proxy has
  forwarded), `srvRead` (the server's read position) and `u2p`.
- Proxy state: `mode` (the authenticated loop, the IDLE loop, in a client or
  server literal, or terminated), `ongoingCmd` / `ongoingRsp` (the pipeline's
  ongoing command and response) and `mailbox` (whether a mailbox is selected).
- Client state: `cli` and `contPending`.
- Bookkeeping: `bads` (BAD replies).

The proxy actions are the select arms, with the ongoing and not-ongoing
branches separated: `ClientCommandLine`, `ClientContinueLine`,
`RelayClientLiteral`, `IdleClientLine`, `ServerResponseLine`,
`ServerContinueLine` and `RelayServerLiteral`.

`HandleCommand` is the `match` over command classes. Its cases are reply
directly, Logout, refuse with BAD (`Reject`), the literal class
(`ForwardLiteralCommand`), Idle, the Mailbox class (allowed only while a
mailbox is selected) and refuse. A client (`ClientSend`, `ClientLiteral`,
`ClientEndIdle`) and a server (`ServerAnswer`, `ServerPush`) follow RFC 3501
as the environment.

The command pipeline, line parsers and literal relays (`relay_client_literal`,
`handle_cmd_continue_line`, `handle_rsp_line` and so on) are not under `src/`.
They are modelled from the spec and marked `spec_modelled` in the map.

### DatagramLimiter (limit/fixed_window/datagram.rs)

`LocalDatagramLimiter` and the UDP sender that drives it. `limits`,
`curPackets` and `curBytes` are the limiter's fields. Time is abstracted to
`sameSlice`: whether `time_slice_id` is still the slice of the current time.
Time only grows, so that equality is all the code reads. `RecPackets` and
`RecBytes` are the lazy window reset at the start of both checks.

- `CheckPacket` is `check_packet`. It includes the "always let the first
  packet pass" case.
- `CheckPackets` is `check_packets`. It returns every count `Advance` may
  carry, because `binary_search` may pick any of several equal cumulative
  sizes.
- `SetAdvance` is `set_advance`.
- `SendSingle` and `SendBatch` are one poll of the sender: check, send the
  first k datagrams, report them. `Tick` moves time into a new slice;
  `Reset` is `reset()`.
- `sentP` and `sentB` count what really went out in the window. The budget
  properties are stated over them, not over the limiter's own counters.
- `BatchPacketBudget` is the packet side of `check_packets`: a batch send
  never takes the window past `max_packets`. It depends on the
  `max_packets - cur_packets` clamp (datagram.rs:106) and on the lazy reset
  of `cur_packets` at the next check after a window change. The
  single-datagram path is not held to it, because its first-packet pass lets
  one datagram through whatever the count.

### LineRecvVec (io/line_recv_vec.rs)

The buffer IMAP reads its lines with. The peer's stream is a fixed input over
two byte classes (newline and other). `ReadLine` is one step for the whole
`read_line_size` loop: it reads any total amount the loop could stop at, and
ends with Line, LineTooLong, IoClosed, or Interrupted (timeout or read error,
bytes kept). `ConsumeLine` includes the `copy_within` compaction; `ConsumeLeft`
takes any `max_size` up to `MaxLeft`. `out` records what the consumer was
handed, and `LineIsNextLine` compares a returned line with a reference splitter
(`RefNextLine`).

### LineStream (abstract)

What the buffer promises its consumer, without its layout. Bytes are read from
the peer, never more than `Cap` beyond what was handed out. The consumer is
handed either the next whole line of what was read (`HandLine`) or up to a
requested number of its bytes (`HandUpTo`), in stream order. `LineRecvVec`
instantiates it with the identity mapping on `input`, `taken` and `out`, and
`ImplementsLineStream` (`LS!LSSpec`) checks that every step of the buffer is a
step of the stream or leaves all three unchanged. The mutant that breaks it is
a `consume_left` that ignores `max_size` and hands out the whole buffer.

### ChunkedTransfer (g3-h2/src/body/to_chunked_transfer.rs)

The future that turns an HTTP/2 body into HTTP/1.1 chunked encoding. A poll
is a series of micro-steps (`pc = "Polling"`, `loc` the point in
`poll_transfer`): `RecvDataStep` (poll_data and the header it builds),
`WriteHeaderStep`, `WriteChunkStep` (with `split_off` on a partial write),
`YieldStep` (wake and return after `yield_size` bytes), `RecvTrailersStep`,
`WriteTrailerStep` and `FlushStep`. Each sub-poll may answer Pending (`Pend`,
the poll returns), fail (`Fail`) or be ready with any partial amount; `Wake`
starts the next poll at the current `transfer_stage`. Bytes are symbols; `Hex`
is `{:x}` and `ChunkedEncoding` the reference encoding of spec section 6.
`Init` is any of the three constructors: `new`, `with_chunk` with a first
non-empty chunk, and `without_data`, which starts at the Trailer stage with
the body ended and so writes only the trailer section (`noData`).
`NoCachedData` is `no_cached_data()`; `Produced` is what the encoder has
made of what it took from the stream (`ChunkBytes` of the chunks, the
last-chunk header once the body ended, the trailer bytes).
`ResetActive` is `reset_active`, which the idle checker of the task driving
the future may call between any two polls; `IsIdle` is `is_idle`.
`ProgressNotIdle` ties the two together: seven places in the code set
`active`, and a path that forgot to would let the idle timeout cut a
transfer that is moving data.

### IcapReuse (g3-icap-client: service/connection.rs, reqmod/...)

Adapters (`Adapters`) run REQMOD transactions one after another, up to
`MaxTx` each; connections (`Conns`) are opened by `IcapConnector::create`.
Per connection the module keeps what the code believes, the
`reader_clean`/`writer_clean` flags (`rClean`, `wClean`) and
`reused_connection` (`reused`), next to what really happened on the wire:
whether the ICAP request was written to its end (`wDone`) and the response
read to its end (`rDone`). `cst` is the connection's place (Unused, InUse,
Pooled, Closed) and `gone` whether the ICAP server closed it.

- Getting a connection: `AskPool` sends a poll request (the queue `reqs`) and
  waits; `Create` opens a new connection, from Idle or after giving up on the
  pool, and marks it in use (`MarkIoInuse`), or fails.
- The pool: `SaveConnection` is `IcapConnectionEofPoller::new`, which keeps
  the connection only if `reusable()`. The poller's unbiased select is three
  actions, each enabled when its arm is ready: `PollerData` (the server
  closed), `PollerIdle` (`idle_sleep`) and `PollerRecv` (a poll request: mark
  reused and send; a request whose adapter no longer waits for it drops the
  connection). `ServerClose` is the ICAP server closing an idle connection.
- The transaction, `xfer_without_preview`: `Send` (header write; a closed
  connection fails it), `Xfer` (`transfer_and_recv` and the payload match,
  marking the writer finished if the body transfer finished), `Transfer` (the
  bidirectional branch of a body request) and the response handlers
  (`HandleOk`, `HandleReqNoBody`, `HandleReqBody`, `HandleRspNoBody`,
  `HandleRspBody`, `RecvRspBody`), which read the rest, mark the reader
  finished and save the connection if keep-alive, or fail and drop it.

`NoStaleReuse` and `CleanExchangeKept` together are spec 8.7: a connection
is pooled if and only if both halves of its exchange finished (under a
keep-alive response). The module states no type invariant. Its variables
are flags and stages that every action sets to constants, so no change to
the code could put them outside their types.

The handlers that h1's `xfer_without_preview` calls live in
`reqmod/h1/recv_*.rs`, which is not under `src/`. The `smtp/data` handlers
that are under `src/` have the same shape and are the ones mapped. The pool,
the poll request channel and `ReqmodRecvHttpResponseBody` are modelled from
spec 4.4 and marked `spec_modelled`.

### KeymessDispatch (g3keymess/src/backend/dispatch.rs)

`workers` is each dispatcher's `Vec` of worker senders in push order,
`counter` its `AtomicUsize`, `chan` each worker's bounded channel and
`closed` whether the worker dropped its receiver. `Register(w, d)` is the
`register_*` function for `d`; `StartServing` ends startup once every worker
registered what `Supports` says. `Dispatch(k)` is the public `dispatch`:
`Route` is the match on key type, RSA size and EC curve, and `DispatchTo` is
`Dispatcher::dispatch` with `fetch_add`, `PickIndex` and `try_send` (a full or
closed channel hands the request back; no worker is the modulo-by-zero
panic, counted in `panics`). `sent` counts how often each worker was chosen.

### KeymessRegister (g3keymess/src/register.rs) and KeymessDaemon

`rpc` is where the registration code is: `Startup` (the loop of `startup`),
`RetrySleep`, `Failed` (`startup` returned the error), and, in the spawned
task, `Ping`, `ReconnectSleep`, `Reopen` and `Register`. `StartupAttempt` is
one pass of the loop: `register` (`RegisterTask::new` then `register`)
succeeds when the upstream is up, and then the task is spawned; otherwise
`retry_count < startup_retry` decides between a retry and the error.
`PingEnd`, `ReconnectWake`, `Reopen` and `TaskRegister` are the task's loop,
where a failed `reopen` or `register` continues with another sleep.
`RegisterTask` is in `g3-daemon`, not under `src/`: `conn` is whether its
connection is alive and `registered` whether the upstream holds the
registration; `UpstreamDown` (at most `MaxOutages` times) drops both and
`UpstreamUp` brings the upstream back. `KeymessDaemon` runs the dispatcher
and the registration side by side; they share no state, and the composed
spec interleaves their steps.

### ImporterRegistry (g3statsd/src/import/registry.rs)

The registry maps a name to an importer object (`inner`). Objects are
numbered as they are made (`nextId`, up to `MaxObjs`), have a kind (`Dummy`
or `Real`) and drive a runtime (`rtOf`); `running` is the set of runtimes that
run. Every public function takes the registry `Mutex`, so `Add`, `Del`,
`ReloadNoRespawn`, `ReloadAndRespawn` and `GetOrInsertDefault` are one step
each; `Failed` is any of them returning `Err` with the registry unchanged.
`reload_no_respawn` keeps the old notifier, so the new object drives the old
runtime, which is not aborted.

### CollectConfigRegistry (g3statsd/src/config/collect/mod.rs)

The collect config registry (`creg`) maps a registered name to what
`build_topology_map` reads of its config: the names `dependent_collecter`
returns. The registry itself (`registry.rs`) and `TopoMap` are in files not
under `src/`: `RegAdd`/`RegDel` are function updates, and
`BuildTopologyMap` is taken to fail exactly when the dependency graph of the
registered configs has a cycle (`TransitiveClosure` of `DependsOn`, a
dependency on an unregistered name being a leaf). `LoadAll` parses the
collect list (`LoadCollect` is the type dispatch; a document that is not a
map or has another type is Err), refuses a duplicate name and checks the
topology; on Err the daemon does not start (`cphase = "Exit"`).
`LoadAtPosition` is the reload: add, check, and on failure the rollback
(`add` of the replaced config, or `del` of a new name). Each function is one
step; the reload that calls them is sequential.

### StatsdRegistries

Composes `ImporterRegistry` and `CollectConfigRegistry`: the daemon's reload
requests reach them one at a time, each through its own `Mutex`, and they
share no state, so their steps interleave. One run checks both.

### ReadAllNow (g3-io-ext/src/io/ext/read_all_now.rs)

One poll of the `ReadAllNow` future: `CheckRemaining` is the loop head
(`buf.remaining() == 0` returns the filled length), `PollRead` is
`poll_read` with every answer: some of the bytes the reader holds, end of
stream (`Ready(Ok(()))` filling nothing, once the peer has closed and the
reader holds nothing), `Pending` (the poll returns what it has) and an
error. The reader is the environment (`avail`, `peerEnd`).

## Runs

| Run | Expect | What it shows |
|---|---|---|
| `h2_pass` (`H2Intercept.cfg`, 8 112 states) | pass | `ImplementsContract` holds on every path: Bypass, Block, Detour with every adapter answer, and Intercept with every handshake outcome, idle timeout and quit. `IdleNeverCutsLiveStream`: the idle timeout never fires while a stream task is alive. `ShutdownCompletes`: every drain ends and the connection returns. |
| `h2_quit_starvation` (`H2Intercept_quit.cfg`) | violation | `ForceQuitEndsConnection` fails. A client that always has a stream to offer wins the biased select forever, so the tick that samples force-quit never runs (mod.rs:397). |
| `imap_pass` (`ImapAuthenticated.cfg`, about 280 000 states) | pass | Every proxy step fires, and `TypeOK` holds: in particular the proxy writes no more BAD replies than the client sent command lines. The two properties of the relay that matter, the command filter and the literal handshake, fail in the two runs below, so they are not in this one. |
| `imap_sync_literal_hang` (`ImapAuthenticated_hang.cfg`) | violation | `NoCircularWait` fails. For a `{n}` literal the proxy reads literal bytes while the client still waits for `+`. The test at authenticated.rs:167 is inverted compared with line 72. |
| `imap_reauth_after_idle` (`ImapAuthenticated_filter.cfg`) | violation | `CommandFilterHolds` fails. IDLE stays the ongoing command after DONE, so a later LOGIN is forwarded as a "continuation" (authenticated.rs:175, 247). |
| `dgram_pass` (`DatagramLimiter.cfg`, 22 937 states) | pass | `ByteBudget`: within a window no more than `max_bytes` go out, except one oversized first datagram. `QueueDrains`: every queued datagram is eventually sent. `BatchPacketBudget`: a batch send never takes the window past `max_packets`. |
| `line_pass` (`LineRecvVec.cfg`, 1 096 states) | pass | `NoByteLostOrRepeated`: handed-out bytes followed by the buffered rest are exactly the bytes read. `LineIsNextLine`: a returned line is the stream's next line. `ImplementsLineStream`: the buffer refines the abstract `LineStream`. |
| `chunked_pass` (`ChunkedTransfer.cfg`, 91 725 states) | pass | `OutputIsChunkedEncoding`: a completed transfer wrote exactly the reference encoding (the trailer section for `without_data`) and `total_write` counts it. `CachedDataAccounted`: whenever `no_cached_data()` is true, every byte produced from what was taken from the stream has reached the writer, so an idle transfer in that state waits on the stream, not the writer. `TransferCompletes`: the transfer ends. `ProgressNotIdle`: every step that takes a frame from the stream or writes bytes leaves `is_idle()` false, so the idle check never cuts a transfer that moved data. |
| `icap_pass` (`IcapReuse.cfg`, 428 683 states) | pass | `NoStaleReuse`: a pooled connection had its request written and its response read to the end. `CleanExchangeKept`: the converse (spec 8.7): a connection whose request was written and response read to their ends, under keep-alive, is pooled when its transaction ends. |
| `keymess_dispatch_pass` (`KeymessDaemon.cfg`, 204 910 states) | pass | `QueuedAtServingWorker`: every queued request sits at a worker registered for its key type (checked against a table of key bits and curves, not the code's match). `Balanced`: no worker of a dispatcher is chosen more than 2^`counter_shift` times more often than another. `GivesUpAfterRetries`: a process that did not start made exactly `startup_retry` + 1 register calls. `Reregisters`: after an outage of the register upstream, once it is up again, the process is eventually registered again. |
| `statsd_registries_pass` (`StatsdRegistries.cfg`, 54 144 states) | pass | `RuntimesMatchRegistry`: after any sequence of importer operations, the running runtimes are exactly those of the registered real importers. `NoDependencyLoop`: the collect configs of a running daemon never depend on themselves, directly or through others, though two reloads can each close half of a loop. `FailedReloadKeepsRegistry`: a `load_at_position` that returns Err leaves the config registry as it was. |
| `readallnow_eof_spin` (`ReadAllNow_eof.cfg`) | violation | `PollReturns` fails. A reader at end of stream answers `Ready(Ok(()))` without filling anything; `read_all_now_internal` takes that as progress and loops forever inside one poll (read_all_now.rs:49), where the unit test `closed` expects `Ok(0)`. |

Every property of a passing run has a mutant in `PROJECT.json`. A mutant is a
plausible bug in the mapped code that TLC must catch:

- `RelayTick` with no reset of the idle count;
- a `DetourCheck` Block arm that takes the IO again;
- a `RelayAccept` that does not count the new task;
- a `RelayUpstreamDone` that sends no goaway;
- a `Reject` that replies twice;
- a `set_advance` that counts packets twice, a `check_packets` that rounds
  its insert point up, a `check_packets` without the packet clamp, and a
  `check_packet` without the first-packet pass;
- a `get_line` that stops before the newline, a `consume_line` that shifts
  the wrong length, a `consume_left` that leaves `line_end` behind, and one that ignores
  `max_size`;
- a `poll_transfer_data` that does not reset `static_offset`, one that omits
  the leading CRLF of a later header, and a yield that does not wake;
- a `Transfer` that marks the reader finished when only the body transfer
  finished, and one that does not mark the reader finished at all;
- a `no_cached_data` without the `chunk.is_none()` test;
- a chunk write loop that does not set `active`;
- a `reload_no_respawn` that aborts the runtime it keeps;
- a `load_at_position` without the rollback, and one whose rollback deletes
  the name even when `add` replaced a config;
- a `Dispatcher::dispatch` whose `fetch_add` is a load, and a key match with the 3072 and 4096 arms swapped;
- a `startup` that retries while `retry_count <= startup_retry` (it breaks
  both `DTypeOK`, the retry count passing `startup_retry`, and
  `GivesUpAfterRetries`), and a
  reconnect loop that pings again after `reopen` without registering.

## Bounds

- H2:
  - all four inspect actions;
  - `MaxIdleCount = 1`, so one idle tick over the limit ends the connection;
  - a tick may report 2 elapsed periods, as `IdleInterval::tick` can;
  - `MaxConcurrentStreams = 2`, so one stream can end while another
    transfers and the idle check sees a live stream;
- IMAP:
  - the client sends at most 3 commands. That is enough for IDLE, DONE and
    one more command, or for a literal command followed by another;
  - the server pushes at most 1 unsolicited response;
  - every command class is included, and the two literal-bearing classes come
    with all three literal kinds.

- Limiter: one budget of 2 packets / 4 bytes and one unlimited; sizes 0, 1,
  3 and 5 (an empty datagram, one that fits, one that fits with another, one
  larger than the byte budget); batches of up to 3; at most 4 sends per window.
- Line buffer: capacity 3, input up to 4 bytes (one more than fits),
  `consume_left` up to 2.
- Chunked encoder: bodies of up to 2 DATA frames of sizes 0 (skipped), 1 and
  16 (two hex digits), up to one trailer field or no trailers, `yield_size` 2.
- ICAP: 2 adapters, 2 connections, 2 transactions per adapter. Two adapters
  make the pool race (one gives up while the poller hands it a connection);
  two transactions let a connection be saved and then reused.
- keymess dispatcher: 2 workers with different key types (w1: RSA 2048/3072
  and P-256, w2: RSA 2048/4096, nobody P-521), so that `rsa_2048` has two
  workers and the other dispatchers one or none; RSA keys of all three
  served sizes and one unserved size, P-256, P-521, an EC key whose
  `ec_key()` fails and an Ed25519 key; `counter_shift` 1 (8 in the code: the
  rotation is the same with blocks of 2 instead of 256); channel capacity 1
  so a full channel happens; 4 requests, enough for two full turns of
  `rsa_2048`.
- keymess registration: `startup_retry` 1, so startup both retries and
  gives up; 2 outages of the register upstream, so the upstream can go
  down again between a successful `reopen` and `register` (the register
  failure path) and the loop must recover twice.
- Importer registry: 2 names and up to 5 objects, enough for a
  reload without respawn followed by a replace or delete of the reloaded
  object, on one name while the other is registered.
- Collect config registry: 2 names with any dependency sets, so a
  self-dependency and a loop through both (closed by the second of two
  reloads) can happen; the two parsed types and one refused; `load_all`
  lists of up to 2 documents, so a duplicate name happens.
- Read-all-now: a 3-byte buffer and a reader holding 0 to 4 bytes, so a
  poll can end full, on Pending, or meet the end of stream.

Each violation appears within these bounds. Larger bounds add only more copies
of the same interleavings.

## Fairness

- H2: weak fairness on the connection task's steps (`ConnectionStep`), on each
  stream task's end, on the timer, and on the peers closing after a goaway or
  handle release (`H2Closed`, `UpstreamRelease`, `UpstreamShutdownDone`). Tokio polls a ready future again, so a task that stays
  runnable eventually runs, which justifies WF on these steps. A biased select
  gives no fairness between its arms. The model encodes that as arm priority,
  which is what lets `h2_quit_starvation` show the starvation.
- IMAP: weak fairness on each proxy step and on the server answering a command
  it has read. There is none on the client, because a client may stop
  sending. The unbiased `select!` of the relay is one weakly fair choice per
  ready arm. The IMAP runs check only invariants, so this fairness describes
  the code and no result depends on it. That an IDLE ends on DONE is not
  stated: both outcomes of the IDLE loop's client arm leave the loop, so it
  would hold whatever the arm does.
- Limiter: weak fairness on the sender's sends and on time passing; the
  sender retries after every DelayFor.
- Chunked encoder: weak fairness on `Wake` and the poll steps (the executor
  polls a woken task), and strong fairness per poll point on a sub-poll
  answering other than Pending: a peer or writer is not unready forever. The
  line buffer run checks safety only.
- ICAP: weak fairness on `PollerIdle` only: `idle_sleep` is a timer that
  fires unless another arm wins first. No property of the run depends on
  it; that a pooled connection leaves the pool would follow from it alone,
  so it is not stated. Nothing forces an adapter or the
  server to act, and the run checks deadlock (`Terminated` is the stutter
  once every adapter has done its transactions). The registry run checks
  safety only.
- keymess: weak fairness on the registration task's steps (a sleep ends
  and tokio polls the woken task) and on the register upstream coming back
  up, which is the premise of the reconnect loop; none on the dispatcher,
  whose properties are safety.
- Read-all-now: weak fairness on the loop's steps: the poll runs
  `read_all_now_internal` to its return, with nothing in between.
- `h2_pass` checks deadlock. The IMAP runs set `CHECK_DEADLOCK FALSE`, because
  a quiet IDLE session, or the hang that `imap_sync_literal_hang` exhibits,
  really blocks on both reads.

## Not modelled, and the plan

- **keymess registration**: `RegisterTask` (connection, register message,
  ping) is in `g3-daemon`, not under `src/`; each of its calls is one step
  that succeeds or fails with the upstream. The 10 second and
  `retry_interval` sleeps are steps with no duration.
- **keymess backend**: which key types a worker registers and the worker
  task are not under `src/`. `KeymessDispatch` takes them as the constant
  `Supports` and the `Consume`/`WorkerExit` steps, and registration as
  finished before serving starts. The modulo by zero of a dispatcher with
  no worker is reachable in the model; whether the backend allows it is not
  decided under `src/`. The `usize` counter wraps only after 2^64 requests
  and is not modelled past `MaxReqs`.
- **ICAP preview path, OPTIONS refresh and the pool itself** are not under
  `src/`; the pool is modelled from spec 4.4.
- **Chunked encoder**: `with_chunk` with an empty chunk is left out of
  `Init` (listed as a hazard); `without_data` writes no last-chunk line of
  its own, so its callers (not under `src/`) must have written it, and the
  model checks only the trailer section it writes.
- **statsd**: the collect config registry and `TopoMap` are not under
  `src/`; `TopoMap` is taken to be a cycle test, which is what
  `load_at_position` relies on. `get_all_sorted` is a read of the topology
  and is left out. `reload_only_collector` updates an importer outside the
  registry lock; the collector state it changes is not under `src/`.
  `collect/mod.rs` only declares traits; the exporter and statsd-client
  config files are parsing.
- **Known issues no run checks now**: during IDLE, `relay_until_idle_done`
  does not put a multi-literal server response back as ongoing
  (authenticated.rs:263); and the chunked encoder's write loops never treat
  `Ready(Ok(0))` as an error (to_chunked_transfer.rs:228). The datagram
  limiter's `check_packet` tests `cur_packets > max_packets` (datagram.rs:75)
  where `check_packets` tests `>=`, so the single-datagram path lets one
  datagram too many out per window; `DatagramLimiter` models both tests, but
  no run checks the packet budget. `ImapIntercept` still maps the IMAP entry
  point to the engine contract, whose `ImplementsContract` fails because the
  Bypass and Block arms log nothing (mod.rs:90, 104), but no run checks it
  now. All four are listed as hazards in `PROJECT.json`.
- Not modelled at all: configuration parsing, TLS certificate and ticket
  helpers, socket options and OS glue, and log formatting. They are pure
  conversions or system calls with no concurrent or stateful behaviour.

The IMAP log macro labels itself "SmtpConnection", a copy-paste slip. No
property is about log wording, so it is not modelled.
