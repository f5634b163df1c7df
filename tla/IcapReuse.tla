------------------------------ MODULE IcapReuse ------------------------------
(***************************************************************************)
(* ICAP client connection reuse (spec 4.4) in g3-icap-client:              *)
(*   - service/connection.rs: IcapClientConnection with its reader/writer  *)
(*     clean flags, IcapConnector::create and the IcapConnectionEofPoller *)
(*     that keeps a saved connection and hands it to the next poll         *)
(*     request;                                                            *)
(*   - reqmod/h1/forward_body.rs: xfer_without_preview, the REQMOD         *)
(*     transaction that marks the halves finished and saves the            *)
(*     connection;                                                         *)
(*   - reqmod/smtp/data/recv_request.rs, recv_response.rs: the handlers    *)
(*     that read the rest of the ICAP response and save the connection.   *)
(*                                                                         *)
(* Adapters are tasks running one REQMOD transaction after another.  The   *)
(* pool (save_connection, the poll request channel, the fall-back to a new *)
(* connection) is not under src/ and is modelled from spec 4.4 and 6.      *)
(* wDone/rDone are what really happened on the wire: whether the ICAP      *)
(* request was written to its end and the ICAP response read to its end;   *)
(* the clean flags are what the code believes.                             *)
(***************************************************************************)
EXTENDS Naturals, Sequences

CONSTANTS
    Adapters,   \* REQMOD adapter tasks
    Conns,      \* connections IcapConnector::create may open
    NoConn,     \* an adapter without a connection
    MaxTx       \* transactions per adapter

ASSUME MaxTx \in Nat \ {0} /\ NoConn \notin Conns

Payloads == {"NoPayload", "ReqNoBody", "ReqBody", "RspNoBody", "RspBody"}

VARIABLES
    cst,        \* per connection: "Unused", "InUse", "Pooled" (an EofPoller runs), "Closed"
    rClean,     \* reader_clean
    wClean,     \* writer_clean
    reused,     \* reused_connection
    wDone,      \* the ICAP request of the current transaction was fully written
    rDone,      \* the ICAP response of the current transaction was fully read
    gone,       \* the ICAP server closed the idle connection
    ast,        \* per adapter: where its transaction is
    conn,       \* per adapter: the connection it holds
    keep,       \* per adapter: rsp.keep_alive
    tx,         \* per adapter: finished transactions
    reqs        \* the flume channel of IcapConnectionPollRequest: <<adapter, tx>>

connVars == <<cst, rClean, wClean, reused, wDone, rDone, gone>>
adVars == <<ast, conn, keep, tx, reqs>>
vars == <<connVars, adVars>>

Stages == {"Idle", "Wait", "Send", "Xfer", "Transfer", "HandleOk", "HandleReqNoBody",
           "HandleReqBody", "HandleRspNoBody", "HandleRspBody", "RecvRspBody", "Done"}

Init ==
    /\ cst = [c \in Conns |-> "Unused"]
    /\ rClean = [c \in Conns |-> TRUE] /\ wClean = [c \in Conns |-> TRUE]
    /\ reused = [c \in Conns |-> FALSE] /\ gone = [c \in Conns |-> FALSE]
    /\ wDone = [c \in Conns |-> TRUE] /\ rDone = [c \in Conns |-> TRUE]
    /\ ast = [a \in Adapters |-> "Idle"]
    /\ conn = [a \in Adapters |-> NoConn]
    /\ keep = [a \in Adapters |-> FALSE]
    /\ tx = [a \in Adapters |-> 0]
    /\ reqs = <<>>

-----------------------------------------------------------------------------
(* IcapClientConnection                                                    *)

\* reusable(): both halves were marked finished.
Reusable(c) == rClean[c] /\ wClean[c]

\* mark_io_inuse: a transaction starts on c; nothing of it is on the wire yet.
MarkIoInuse(c) ==
    /\ rClean' = [rClean EXCEPT ![c] = FALSE]
    /\ wClean' = [wClean EXCEPT ![c] = FALSE]
    /\ wDone' = [wDone EXCEPT ![c] = FALSE]
    /\ rDone' = [rDone EXCEPT ![c] = FALSE]

\* The end of a transaction: the adapter goes on to the next one.
EndTx(a) ==
    /\ tx' = [tx EXCEPT ![a] = @ + 1]
    /\ ast' = [ast EXCEPT ![a] = IF tx[a] + 1 < MaxTx THEN "Idle" ELSE "Done"]
    /\ conn' = [conn EXCEPT ![a] = NoConn]

\* The adapter drops its connection (an error, or not saved).
Drop(a) ==
    /\ cst' = [cst EXCEPT ![conn[a]] = "Closed"]
    /\ EndTx(a)

\* save_connection -> IcapConnectionEofPoller::new: a connection reusable
\* after this step's marks gets a poller, any other is dropped.
SaveConnection(a) ==
    LET c == conn[a] IN
    /\ cst' = [cst EXCEPT ![c] = IF rClean'[c] /\ wClean'[c] THEN "Pooled" ELSE "Closed"]
    /\ EndTx(a)

\* Save when the ICAP response allowed keep-alive, drop otherwise.
SaveIfKeepAlive(a) == IF keep[a] THEN SaveConnection(a) ELSE Drop(a)

MarkReaderFinished(c) == rClean' = [rClean EXCEPT ![c] = TRUE]

MarkWriterFinished(c) == wClean' = [wClean EXCEPT ![c] = TRUE]

-----------------------------------------------------------------------------
(* Getting a connection: from the pool, or a new one                       *)

\* The service sends a poll request to the pollers and waits for an answer.
AskPool(a) ==
    /\ ast[a] = "Idle"
    /\ ast' = [ast EXCEPT ![a] = "Wait"]
    /\ reqs' = Append(reqs, <<a, tx[a]>>)
    /\ UNCHANGED <<connVars, conn, keep, tx>>

\* IcapConnector::create (unix socket, resolve, connect, TLS handshake with
\* its timeout), from Idle or after giving up on the pool; the service marks
\* the new connection in use.  A failure ends the transaction.
Create(a) ==
    /\ ast[a] \in {"Idle", "Wait"}
    /\ \/ \E c \in Conns :
             /\ cst[c] = "Unused"
             /\ cst' = [cst EXCEPT ![c] = "InUse"]
             /\ reused' = [reused EXCEPT ![c] = FALSE]
             /\ MarkIoInuse(c)
             /\ conn' = [conn EXCEPT ![a] = c]
             /\ ast' = [ast EXCEPT ![a] = "Send"]
             /\ UNCHANGED <<gone, keep, tx>>
       \/ /\ EndTx(a)
          /\ UNCHANGED connVars
    /\ UNCHANGED <<keep, reqs>>

-----------------------------------------------------------------------------
(* IcapConnectionEofPoller::into_running: an unbiased select of three arms *)

\* fill_wait_data: the server sent something or closed; the poller ends.
PollerData(c) ==
    /\ cst[c] = "Pooled" /\ gone[c]
    /\ cst' = [cst EXCEPT ![c] = "Closed"]
    /\ UNCHANGED <<rClean, wClean, reused, wDone, rDone, gone, adVars>>

\* idle_sleep fired; the poller ends and the connection is closed.
PollerIdle(c) ==
    /\ cst[c] = "Pooled"
    /\ cst' = [cst EXCEPT ![c] = "Closed"]
    /\ UNCHANGED <<rClean, wClean, reused, wDone, rDone, gone, adVars>>

\* recv_async took a poll request: the connection is marked reused and sent
\* on the request's oneshot; if that adapter no longer waits for this
\* request the send fails and the connection is dropped.
PollerRecv(c) ==
    /\ cst[c] = "Pooled" /\ reqs # <<>>
    /\ LET a == Head(reqs)[1]
           waiting == ast[a] = "Wait" /\ tx[a] = Head(reqs)[2]
       IN  /\ reqs' = Tail(reqs)
           /\ reused' = [reused EXCEPT ![c] = TRUE]
           /\ IF waiting
                 THEN /\ cst' = [cst EXCEPT ![c] = "InUse"]
                      /\ MarkIoInuse(c)
                      /\ conn' = [conn EXCEPT ![a] = c]
                      /\ ast' = [ast EXCEPT ![a] = "Send"]
                 ELSE /\ cst' = [cst EXCEPT ![c] = "Closed"]
                      /\ UNCHANGED <<rClean, wClean, wDone, rDone, conn, ast>>
    /\ UNCHANGED <<gone, keep, tx>>

\* The ICAP server closes a connection that idles in the pool.
ServerClose(c) ==
    /\ cst[c] = "Pooled" /\ ~gone[c]
    /\ gone' = [gone EXCEPT ![c] = TRUE]
    /\ UNCHANGED <<cst, rClean, wClean, reused, wDone, rDone, adVars>>

-----------------------------------------------------------------------------
(* xfer_without_preview (reqmod/h1/forward_body.rs)                        *)

\* write_all_vectored of the ICAP and HTTP headers.  On a connection the
\* server has closed the transaction fails (here, or at the latest when
\* the response is read).
Send(a) ==
    LET c == conn[a] IN
    /\ ast[a] = "Send"
    /\ IF gone[c]
          THEN Drop(a)
          ELSE \/ ast' = [ast EXCEPT ![a] = "Xfer"] /\ UNCHANGED <<cst, conn, tx>>
               \/ Drop(a)
    /\ UNCHANGED <<rClean, wClean, reused, wDone, rDone, gone, keep, reqs>>

\* transfer_and_recv: the body is sent while the ICAP response header is
\* read; then the match on the payload.  Every arm marks the writer
\* finished if the body transfer finished; NoPayload also marks the
\* reader (a 204 has nothing after its header).
Xfer(a) ==
    LET c == conn[a] IN
    /\ ast[a] = "Xfer"
    /\ \/ Drop(a) /\ UNCHANGED <<rClean, wClean, wDone, rDone, keep>>
       \/ \E p \in Payloads, k \in BOOLEAN, b \in BOOLEAN :
             /\ keep' = [keep EXCEPT ![a] = k]
             /\ wDone' = [wDone EXCEPT ![c] = b]
             /\ rDone' = [rDone EXCEPT ![c] = (p = "NoPayload")]
             /\ IF b THEN MarkWriterFinished(c) ELSE UNCHANGED wClean
             /\ IF p = "NoPayload" THEN MarkReaderFinished(c) ELSE UNCHANGED rClean
             /\ ast' = [ast EXCEPT ![a] =
                   CASE p = "NoPayload" -> "HandleOk"
                     [] p = "ReqNoBody" -> "HandleReqNoBody"
                     [] p = "ReqBody" /\ b -> "HandleReqBody"
                     [] p = "ReqBody" /\ ~b -> "Transfer"
                     [] p = "RspNoBody" -> "HandleRspNoBody"
                     [] p = "RspBody" -> "HandleRspBody"]
             /\ UNCHANGED <<cst, conn, tx>>
    /\ UNCHANGED <<reused, gone, reqs>>

\* Mutant of Transfer: the bidirectional arm does not mark the reader
\* finished after the ICAP read finished.
TransferNoMarkReader(a) ==
    LET c == conn[a] IN
    /\ ast[a] = "Transfer"
    /\ \/ Drop(a) /\ UNCHANGED <<rClean, wClean, wDone, rDone>>
       \/ \E b \in BOOLEAN, r \in BOOLEAN :
             /\ wDone' = [wDone EXCEPT ![c] = b]
             /\ rDone' = [rDone EXCEPT ![c] = r]
             /\ IF b THEN MarkWriterFinished(c) ELSE UNCHANGED wClean
             /\ UNCHANGED rClean
             /\ IF b /\ r /\ keep[a] THEN SaveConnection(a) ELSE Drop(a)
    /\ UNCHANGED <<reused, gone, keep, reqs>>

TransferMarkReaderAlways(a) ==
    LET c == conn[a] IN
    /\ ast[a] = "Transfer"
    /\ \/ Drop(a) /\ UNCHANGED <<rClean, wClean, wDone, rDone>>
       \/ \E b \in BOOLEAN, r \in BOOLEAN :
             /\ wDone' = [wDone EXCEPT ![c] = b]
             /\ rDone' = [rDone EXCEPT ![c] = r]
             /\ IF b THEN MarkWriterFinished(c) ELSE UNCHANGED wClean
             /\ IF b THEN MarkReaderFinished(c) ELSE UNCHANGED rClean
             /\ IF b /\ keep[a] THEN SaveConnection(a) ELSE Drop(a)
    /\ UNCHANGED <<reused, gone, keep, reqs>>

\* The HttpRequestWithBody arm before the body was sent: the bidirectional
\* transfer; the connection is saved only if the body transfer and the
\* ICAP read both finished and the response allows keep-alive.
Transfer(a) ==
    LET c == conn[a] IN
    /\ ast[a] = "Transfer"
    /\ \/ Drop(a) /\ UNCHANGED <<rClean, wClean, wDone, rDone>>
       \/ \E b \in BOOLEAN, r \in BOOLEAN :
             /\ wDone' = [wDone EXCEPT ![c] = b]
             /\ rDone' = [rDone EXCEPT ![c] = r]
             /\ IF b THEN MarkWriterFinished(c) ELSE UNCHANGED wClean
             /\ IF b /\ r THEN MarkReaderFinished(c) ELSE UNCHANGED rClean
             /\ IF b /\ r /\ keep[a] THEN SaveConnection(a) ELSE Drop(a)
    /\ UNCHANGED <<reused, gone, keep, reqs>>

-----------------------------------------------------------------------------
(* The response handlers (reqmod/smtp/data/recv_request.rs,               *)
(* recv_response.rs)                                                       *)

\* The rest of the ICAP response was read: mark the reader finished and
\* save the connection if keep-alive.
ReadRest(a) ==
    /\ rDone' = [rDone EXCEPT ![conn[a]] = TRUE]
    /\ MarkReaderFinished(conn[a])
    /\ SaveIfKeepAlive(a)

\* A failed read or parse drops the connection.
Fail(a) == Drop(a) /\ UNCHANGED <<rClean, rDone>>

handlerVars == <<wClean, reused, wDone, gone, keep, reqs>>

\* handle_icap_ok_without_payload: save if keep-alive.
HandleOk(a) ==
    /\ ast[a] = "HandleOk"
    /\ UNCHANGED <<rClean, rDone, handlerVars>>
    /\ SaveIfKeepAlive(a)

\* handle_icap_http_response_without_body: parse the HTTP header.
HandleRspNoBody(a) ==
    /\ ast[a] = "HandleRspNoBody"
    /\ UNCHANGED handlerVars
    /\ Fail(a) \/ ReadRest(a)

\* handle_icap_http_request_without_body: parse the HTTP header.
HandleReqNoBody(a) ==
    /\ ast[a] = "HandleReqNoBody"
    /\ UNCHANGED handlerVars
    /\ Fail(a) \/ ReadRest(a)

\* handle_icap_http_response_with_body: parse the HTTP header and hand the
\* connection to the response body reader.
HandleRspBody(a) ==
    /\ ast[a] = "HandleRspBody"
    /\ UNCHANGED handlerVars
    /\ \/ Fail(a)
       \/ ast' = [ast EXCEPT ![a] = "RecvRspBody"] /\ UNCHANGED <<cst, rClean, rDone, conn, tx>>

\* ReqmodRecvHttpResponseBody: read the body, then the same save.
RecvRspBody(a) ==
    /\ ast[a] = "RecvRspBody"
    /\ UNCHANGED handlerVars
    /\ Fail(a) \/ ReadRest(a)

\* handle_icap_http_request_with_body_after_transfer: parse, then the
\* biased loop of the body copy and the idle tick; the connection is kept
\* only after the copy and the trailer read succeed.  A parse, read or
\* write error, an idle quit or a force quit drop it.
HandleReqBody(a) ==
    /\ ast[a] = "HandleReqBody"
    /\ UNCHANGED handlerVars
    /\ Fail(a) \/ ReadRest(a)

\* Every adapter has finished and no poller runs.
Terminated ==
    /\ \A a \in Adapters : ast[a] = "Done"
    /\ \A c \in Conns : cst[c] # "Pooled"
    /\ UNCHANGED vars

Next ==
    \/ \E a \in Adapters :
          \/ AskPool(a) \/ Create(a) \/ Send(a) \/ Xfer(a) \/ Transfer(a)
          \/ HandleOk(a) \/ HandleRspNoBody(a) \/ HandleReqNoBody(a)
          \/ HandleRspBody(a) \/ RecvRspBody(a) \/ HandleReqBody(a)
    \/ \E c \in Conns :
          \/ PollerData(c) \/ PollerIdle(c) \/ PollerRecv(c) \/ ServerClose(c)
    \/ Terminated

\* The idle_sleep of every poller fires in the end.
Spec == Init /\ [][Next]_vars /\ \A c \in Conns : WF_vars(PollerIdle(c))

-----------------------------------------------------------------------------

\* Spec 4.4: a connection is pooled only when the ICAP request was written
\* to its end and the ICAP response read to its end, so the next
\* transaction on it starts at a message boundary.  It relates the clean
\* flags that forward_body.rs and the handlers set to what was really sent
\* and read.
NoStaleReuse == \A c \in Conns : cst[c] = "Pooled" => wDone[c] /\ rDone[c]

\* Spec 8.7, the other half: a connection whose ICAP request was written
\* and ICAP response read to their ends, under a keep-alive response, is
\* saved to the pool when its transaction ends.  No arm of the payload
\* match in xfer_without_preview and no response handler may leave a
\* finished half unmarked, or a clean connection is thrown away.
CleanExchangeKept ==
    [][\A a \in Adapters :
          LET c == conn[a] IN
          c # NoConn /\ conn'[a] = NoConn /\ wDone'[c] /\ rDone'[c] /\ keep'[a]
             => cst'[c] = "Pooled"]_vars

====
