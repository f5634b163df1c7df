------------------------------ MODULE ReadAllNow ------------------------------
(***************************************************************************)
(* The ReadAllNow future of g3-io-ext:                                     *)
(* src/lib/g3-io-ext/src/io/ext/read_all_now.rs.                           *)
(*                                                                         *)
(* One poll of the future runs read_all_now_internal: a ReadBuf over the   *)
(* caller's buffer and a loop that returns the filled length once the      *)
(* buffer is full or the reader answers Pending, returns an error as it    *)
(* comes, and otherwise polls the reader again.  The reader is the         *)
(* environment: it hands over part of the bytes it holds, answers Pending  *)
(* when it holds none, or, once its peer has closed and it holds none,     *)
(* answers Ready(Ok(())) without filling anything, the AsyncRead way of    *)
(* saying end of stream, on this and on every later poll_read.             *)
(***************************************************************************)
EXTENDS Naturals

CONSTANTS
    BufLen,     \* buf.len()
    MaxData     \* the most bytes the reader holds

ASSUME BufLen \in Nat /\ MaxData \in Nat

VARIABLES
    pc,         \* "Check" (loop head), "Read" (poll_read), "Ready" (returned)
    filled,     \* buf.filled().len()
    result,     \* "None", "Ok" or "Err": what the poll returned
    avail,      \* bytes the reader holds
    peerEnd     \* the peer closed: no bytes beyond avail will come

vars == <<pc, filled, result, avail, peerEnd>>

TypeOK ==
    /\ pc \in {"Check", "Read", "Ready"}
    /\ filled \in 0..BufLen
    /\ result \in {"None", "Ok", "Err"}
    /\ avail \in 0..MaxData
    /\ peerEnd \in BOOLEAN

\* ReadAllNow::new and its first poll: ReadBuf::new(buf) has nothing
\* filled; the reader holds some bytes and its peer may have closed.
Init ==
    /\ pc = "Check"
    /\ filled = 0
    /\ result = "None"
    /\ avail \in 0..MaxData
    /\ peerEnd \in BOOLEAN

\* The loop head: a full buffer returns Ready(Ok(filled)).
CheckRemaining ==
    /\ pc = "Check"
    /\ IF BufLen - filled = 0
          THEN pc' = "Ready" /\ result' = "Ok"
          ELSE pc' = "Read" /\ UNCHANGED result
    /\ UNCHANGED <<filled, avail, peerEnd>>

\* poll_read: Ready(Ok(())) with k bytes put into the buffer, Ready(Ok(()))
\* with none at end of stream (the loop goes on), Pending (the poll returns
\* Ready(Ok(filled))), or Ready(Err(e)) (returned).
PollRead ==
    /\ pc = "Read"
    /\ \/ \E k \in 1..avail :
             /\ k <= BufLen - filled
             /\ filled' = filled + k
             /\ avail' = avail - k
             /\ pc' = "Check"
             /\ UNCHANGED <<result, peerEnd>>
       \/ /\ avail = 0 /\ peerEnd
          /\ pc' = "Check"
          /\ UNCHANGED <<filled, result, avail, peerEnd>>
       \/ /\ avail = 0 /\ ~peerEnd
          /\ pc' = "Ready" /\ result' = "Ok"
          /\ UNCHANGED <<filled, avail, peerEnd>>
       \/ /\ pc' = "Ready" /\ result' = "Err"
          /\ UNCHANGED <<filled, avail, peerEnd>>

\* The poll returned; the future is done.
Returned ==
    /\ pc = "Ready"
    /\ UNCHANGED vars

Next == CheckRemaining \/ PollRead \/ Returned

\* The task polling the future runs read_all_now_internal to its return.
Spec == Init /\ [][Next]_vars /\ WF_vars(CheckRemaining \/ PollRead)

-----------------------------------------------------------------------------

\* Every poll of ReadAllNow returns: read_all_now_internal never answers
\* Pending, so its loop must end with the filled length or an error; the
\* unit test `closed` expects Ok(0) from a stream that is at its end.
PollReturns == <>(pc = "Ready")

=============================================================================
