--------------------------- MODULE DatagramLimiter ---------------------------
(***************************************************************************)
(* The fixed-window datagram rate limiter of g3-io-ext:                    *)
(* LocalDatagramLimiter in src/lib/g3-io-ext/src/limit/fixed_window/       *)
(* datagram.rs, with the UDP sender that drives it.                        *)
(*                                                                         *)
(* A sender holding a batch of datagrams asks check_packet (one datagram   *)
(* per call) or check_packets (a batch, given as cumulative sizes).  On    *)
(* Advance(n) it sends k <= n datagrams and reports them with              *)
(* set_advance(k, bytes); on DelayFor it waits and asks again.  The check, *)
(* the send and set_advance happen in one poll, so they form one step.     *)
(* Time is abstracted to whether the limiter's time_slice_id is still the  *)
(* slice of the current time: time only grows, so only that equality       *)
(* matters to the code.  sentP/sentB count what really went out in the     *)
(* current window and are what the budgets are checked against.           *)
(***************************************************************************)
EXTENDS Naturals, Sequences, SequencesExt

CONSTANTS
    Limits,     \* the (max_packets, max_bytes) pairs new() or reset() may be given
    Sizes,      \* datagram sizes the sender may have queued
    BatchMax,   \* the most datagrams in one batch
    Api,        \* "single" (check_packet), "batch" (check_packets), or both
    WindowCap   \* the sender sends at most this many datagrams per window

ASSUME Api \subseteq {"single", "batch"} /\ Api # {}
ASSUME BatchMax \in Nat \ {0} /\ WindowCap \in Nat \ {0}

VARIABLES
    limits,       \* [p |-> max_packets, b |-> max_bytes]
    sameSlice,    \* time_slice_id = window.slice_id(now)
    curPackets,   \* cur_packets
    curBytes,     \* cur_bytes
    pend,         \* the sender's queued datagram sizes
    api,          \* which check the sender uses for the queued batch
    sentP,        \* datagrams sent in the current window
    sentB,        \* bytes sent in the current window
    sentFull      \* datagrams of non-zero size sent in the current window

vars == <<limits, sameSlice, curPackets, curBytes, pend, api, sentP, sentB, sentFull>>

Batches == UNION {[1..n -> Sizes] : n \in 1..BatchMax}

Total(s) == FoldLeft(LAMBDA a, b : a + b, 0, s)

\* total_size_v: the cumulative sizes of the first i datagrams.
Cumulative(s) == [i \in 1..Len(s) |-> Total(SubSeq(s, 1, i))]

Smaller(a, b) == IF a < b THEN a ELSE b

MaxBytes == WindowCap * Max(Sizes)

TypeOK ==
    /\ limits \in Limits
    /\ sameSlice \in BOOLEAN
    /\ curPackets \in 0..WindowCap
    /\ curBytes \in 0..MaxBytes
    /\ pend \in Batches \cup {<<>>}
    /\ api \in Api
    /\ sentP \in 0..WindowCap
    /\ sentB \in 0..MaxBytes
    /\ sentFull \in 0..sentP

\* LocalDatagramLimiter::new: a fresh limiter with the configured budgets.
Init ==
    /\ limits \in Limits
    /\ sameSlice = TRUE
    /\ curPackets = 0
    /\ curBytes = 0
    /\ pend = <<>>
    /\ api \in Api
    /\ sentP = 0
    /\ sentB = 0
    /\ sentFull = 0

\* The start of check_packet and check_packets: when the current time is in
\* another slice than time_slice_id, the counters restart at zero.
RecPackets == IF sameSlice THEN curPackets ELSE 0
RecBytes   == IF sameSlice THEN curBytes ELSE 0

\* check_packet: how many datagrams may go out now; 0 stands for DelayFor.
CheckPacketNoFirstPass(size) ==
    IF limits.p > 0 /\ RecPackets > limits.p THEN 0
    ELSE IF limits.b > 0 /\ RecBytes + size >= limits.b THEN 0
    ELSE 1

CheckPacket(size) ==
    IF limits.p > 0 /\ RecPackets > limits.p THEN 0
    ELSE IF limits.b > 0 /\ RecBytes > 0 /\ RecBytes + size >= limits.b THEN 0
    ELSE 1

\* check_packets: the set of counts Advance may carry (binary_search may
\* return any of several equal entries); 0 stands for DelayFor.
\* check_packets without the packet clamp (pkt_count.min(max - cur)).
CheckPacketsNoClamp(batch) ==
    LET count == Len(batch)
        cum     == Cumulative(SubSeq(batch, 1, count))
        allowed == limits.b - RecBytes
        found   == {i \in 1..count : cum[i] = allowed}
        insert  == Cardinality({i \in 1..count : cum[i] < allowed})
    IN  IF limits.p > 0 /\ RecPackets >= limits.p THEN {0}
        ELSE IF limits.b = 0 THEN {count}
        ELSE IF RecBytes >= limits.b THEN {0}
        ELSE IF found # {} THEN found
        ELSE IF insert = 0 THEN {IF RecBytes = 0 THEN 1 ELSE 0}
        ELSE {insert}

CheckPacketsInsertPlusOne(batch) ==
    LET count == IF limits.p > 0 THEN Smaller(Len(batch), limits.p - RecPackets)
                 ELSE Len(batch)
        cum     == Cumulative(SubSeq(batch, 1, count))
        allowed == limits.b - RecBytes
        found   == {i \in 1..count : cum[i] = allowed}
        insert  == Cardinality({i \in 1..count : cum[i] < allowed})
    IN  IF limits.p > 0 /\ RecPackets >= limits.p THEN {0}
        ELSE IF limits.b = 0 THEN {count}
        ELSE IF RecBytes >= limits.b THEN {0}
        ELSE IF found # {} THEN found
        ELSE IF insert = 0 THEN {IF RecBytes = 0 THEN 1 ELSE 0}
        ELSE {Smaller(insert + 1, count)}

CheckPackets(batch) ==
    LET count == IF limits.p > 0 THEN Smaller(Len(batch), limits.p - RecPackets)
                 ELSE Len(batch)
        cum     == Cumulative(SubSeq(batch, 1, count))
        allowed == limits.b - RecBytes
        found   == {i \in 1..count : cum[i] = allowed}
        insert  == Cardinality({i \in 1..count : cum[i] < allowed})
    IN  IF limits.p > 0 /\ RecPackets >= limits.p THEN {0}
        ELSE IF limits.b = 0 THEN {count}
        ELSE IF RecBytes >= limits.b THEN {0}
        ELSE IF found # {} THEN found
        ELSE IF insert = 0 THEN {IF RecBytes = 0 THEN 1 ELSE 0}
        ELSE {insert}

\* set_advance, applied to the counters the check left behind.
SetAdvanceTwice(packets, size) ==
    /\ curPackets' = RecPackets + 2 * packets
    /\ curBytes' = RecBytes + size

SetAdvance(packets, size) ==
    /\ curPackets' = RecPackets + packets
    /\ curBytes' = RecBytes + size

\* The sender queues a new batch of datagrams.
Enqueue ==
    /\ pend = <<>>
    /\ \E b \in Batches, a \in Api : pend' = b /\ api' = a
    /\ UNCHANGED <<limits, sameSlice, curPackets, curBytes, sentP, sentB, sentFull>>

\* The sender sends the first k queued datagrams and reports them.
SendFirst(k) ==
    LET bytes == Total(SubSeq(pend, 1, k)) IN
    /\ sentP + k <= WindowCap
    /\ SetAdvance(k, bytes)
    /\ sentP' = sentP + k
    /\ sentB' = sentB + bytes
    /\ sentFull' = sentFull + Cardinality({i \in 1..k : pend[i] > 0})
    /\ pend' = SubSeq(pend, k + 1, Len(pend))

\* DelayFor: nothing is sent, the counters keep the check's window reset.
Delay ==
    /\ curPackets' = RecPackets
    /\ curBytes' = RecBytes
    /\ UNCHANGED <<pend, sentP, sentB, sentFull>>

\* One datagram through check_packet.
SendSingle ==
    /\ pend # <<>> /\ api = "single"
    /\ IF CheckPacket(Head(pend)) = 0 THEN Delay ELSE SendFirst(1)
    /\ sameSlice' = TRUE
    /\ UNCHANGED <<limits, api>>

\* A batch through check_packets; the send may be partial.
SendBatch ==
    /\ pend # <<>> /\ api = "batch"
    /\ \E n \in CheckPackets(pend) :
          IF n = 0 THEN Delay ELSE \E k \in 1..n : SendFirst(k)
    /\ sameSlice' = TRUE
    /\ UNCHANGED <<limits, api>>

\* The clock enters a new slice of the window.
Tick ==
    /\ sameSlice' = FALSE
    /\ sentP' = 0
    /\ sentB' = 0
    /\ sentFull' = 0
    /\ UNCHANGED <<limits, curPackets, curBytes, pend, api>>

\* LocalDatagramLimiter::reset: new budgets, a new window starting now.
Reset ==
    /\ \E l \in Limits : limits' = l
    /\ sameSlice' = TRUE
    /\ curPackets' = 0
    /\ curBytes' = 0
    /\ sentP' = 0
    /\ sentB' = 0
    /\ sentFull' = 0
    /\ UNCHANGED <<pend, api>>

Next == Enqueue \/ SendSingle \/ SendBatch \/ Tick \/ Reset

\* The sender retries after every delay and time keeps passing.
Spec == Init /\ [][Next]_vars
        /\ WF_vars(SendSingle) /\ WF_vars(SendBatch) /\ WF_vars(Tick)

-----------------------------------------------------------------------------

\* The byte budget: within one window the bytes sent stay within max_bytes,
\* except when a single datagram, sent while cur_bytes was still zero, is
\* alone larger ("always allow the first packet to pass").
ByteBudget == limits.b > 0 => sentB <= limits.b \/ sentFull = 1

\* The packet budget of check_packets: a batch send never takes the
\* datagrams sent in the current window past max_packets, whatever the
\* single-datagram path, partial sends, window changes (with cur_packets
\* reset only lazily, at the next check) and reset() did before it.
BatchPacketBudget ==
    [][SendBatch /\ sentP' > sentP /\ limits.p > 0 => sentP' <= limits.p]_vars

\* Every queued datagram is eventually sent: a delay lasts at most until
\* the next window, even for a datagram larger than the byte budget.
QueueDrains == pend # <<>> ~> pend = <<>>

=============================================================================
