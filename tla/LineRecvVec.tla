----------------------------- MODULE LineRecvVec -----------------------------
(***************************************************************************)
(* The line receive buffer of g3-io-ext: LineRecvVec in                    *)
(* src/lib/g3-io-ext/src/io/line_recv_vec.rs, used by the IMAP relay for   *)
(* its command and response lines.                                         *)
(*                                                                         *)
(* The peer's byte stream is a fixed input over two byte classes: "n" is a *)
(* newline, "a" any other byte; the peer closes after the last byte.       *)
(* buf[0..length) is the sequence data (1-based here, so the code's        *)
(* buf[line_start..line_end) is SubSeq(data, lineStart+1, lineEnd)).  The  *)
(* consumer calls the public operations in any order.  read_line is one    *)
(* step: its loop reads chunks of any size, so what it can end with is     *)
(* every total amount read that the loop could stop at.                    *)
(***************************************************************************)
EXTENDS Naturals, Sequences, FiniteSets

CONSTANTS
    Cap,        \* the capacity given to with_capacity / with_data
    MaxInput,   \* the longest input the peer sends
    MaxLeft     \* the largest max_size given to consume_left

ASSUME Cap \in Nat \ {0} /\ MaxInput \in Nat /\ MaxLeft \in Nat \ {0}

Bytes == {"a", "n"}

VARIABLES
    input,      \* everything the peer sends, then it closes
    taken,      \* bytes read from the reader so far
    data,       \* buf[0..length)
    lineStart,  \* line_start
    lineEnd,    \* line_end
    out,        \* bytes handed to the consumer by consume_line / consume_left
    result      \* what the last read_line returned

vars == <<input, taken, data, lineStart, lineEnd, out, result>>

Results == {"None", "Line", "LineTooLong", "IoClosed", "Interrupted"}

Inputs == UNION {[1..n -> Bytes] : n \in 0..MaxInput}

TypeOK ==
    /\ input \in Inputs
    /\ taken \in 0..Len(input)
    /\ data \in UNION {[1..n -> Bytes] : n \in 0..Cap}
    /\ lineStart \in 0..Cap
    /\ lineEnd \in 0..Cap
    /\ lineStart <= lineEnd /\ lineEnd <= Len(data)
    /\ out \in Seq(Bytes)
    /\ result \in Results

\* with_capacity(cap), or with_data(data, cap) with bytes the caller had
\* already read from the same peer.
Init ==
    /\ input \in Inputs
    /\ taken \in 0..Cap
    /\ taken <= Len(input)
    /\ data = SubSeq(input, 1, taken)
    /\ lineStart = 0
    /\ lineEnd = 0
    /\ out = <<>>
    /\ result = "None"

\* get_line: the end of the current line (line_end), or 0 for None.
\* memchr finds the first b'\n' in buf[line_start..length).
GetLineNoPlusOne(ls, le, d) ==
    IF le > ls THEN le
    ELSE IF ls >= Len(d) THEN 0
    ELSE LET nl == {i \in ls + 1 .. Len(d) : d[i] = "n"}
         IN  IF nl = {} THEN 0
             ELSE (CHOOSE i \in nl : \A j \in nl : i <= j) - 1

GetLine(ls, le, d) ==
    IF le > ls THEN le
    ELSE IF ls >= Len(d) THEN 0
    ELSE LET nl == {i \in ls + 1 .. Len(d) : d[i] = "n"}
         IN  IF nl = {} THEN 0
             ELSE CHOOSE i \in nl : \A j \in nl : i <= j

\* read_line / read_line_with_timeout (read_line_size): a buffered line is
\* returned at once; otherwise the loop reads n more bytes and stops with
\* the line it found, LineTooLong when the buffer is full, IoClosed at the
\* end of the stream, or is interrupted by the timeout or a read error with
\* what it read kept in the buffer.
ReadLine ==
    LET e0 == GetLine(lineStart, lineEnd, data) IN
    /\ IF e0 # 0
          THEN /\ lineEnd' = e0
               /\ result' = "Line"
               /\ UNCHANGED <<taken, data>>
          ELSE \E n \in 0 .. Len(input) - taken :
                 LET d2 == data \o SubSeq(input, taken + 1, taken + n)
                     e  == GetLine(lineStart, lineEnd, d2)
                 IN  /\ Len(d2) <= Cap
                     /\ data' = d2
                     /\ taken' = taken + n
                     /\ \/ e # 0 /\ lineEnd' = e /\ result' = "Line"
                        \/ /\ e = 0 /\ Len(d2) = Cap
                           /\ lineEnd' = lineEnd /\ result' = "LineTooLong"
                        \/ /\ e = 0 /\ Len(d2) < Cap /\ taken + n = Len(input)
                           /\ lineEnd' = lineEnd /\ result' = "IoClosed"
                        \/ /\ e = 0 /\ Len(d2) < Cap
                           /\ lineEnd' = lineEnd /\ result' = "Interrupted"
    /\ UNCHANGED <<input, lineStart, out>>

\* The slice read_line returned borrows the buffer, so a consumer holds it
\* only until its next call: every consume clears result.

\* consume_line: move past the current line; if no further whole line is
\* buffered, shift the rest to the front (copy_within) or empty the buffer.
ConsumeLineKeepLength ==
    LET ls == lineEnd
        e  == GetLine(ls, lineEnd, data)
    IN  /\ out' = out \o SubSeq(data, lineStart + 1, lineEnd)
        /\ IF e # 0
              THEN lineStart' = ls /\ lineEnd' = e /\ UNCHANGED data
              ELSE /\ data' = IF ls < Len(data)
                                 THEN SubSeq(data, ls + 1, Len(data))
                                      \o SubSeq(data, Len(data) - ls + 1, Len(data))
                                 ELSE <<>>
                   /\ lineStart' = 0 /\ lineEnd' = 0
        /\ result' = "None"
        /\ UNCHANGED <<input, taken>>

ConsumeLine ==
    LET ls == lineEnd
        e  == GetLine(ls, lineEnd, data)
    IN  /\ out' = out \o SubSeq(data, lineStart + 1, lineEnd)
        /\ IF e # 0
              THEN lineStart' = ls /\ lineEnd' = e /\ UNCHANGED data
              ELSE /\ data' = IF ls < Len(data) THEN SubSeq(data, ls + 1, Len(data))
                                                ELSE <<>>
                   /\ lineStart' = 0 /\ lineEnd' = 0
        /\ result' = "None"
        /\ UNCHANGED <<input, taken>>

\* consume_left(max_size): hand out up to max_size buffered bytes from
\* line_start, current line or not.
\* consume_left handing out every buffered byte, whatever max_size.
ConsumeLeftIgnoreMax(m) ==
    /\ lineStart < Len(data)
    /\ out' = out \o SubSeq(data, lineStart + 1, Len(data))
    /\ data' = <<>> /\ lineStart' = 0 /\ lineEnd' = 0
    /\ result' = "None"
    /\ UNCHANGED <<input, taken>>

ConsumeLeftKeepLineEnd(m) ==
    LET left == Len(data) - lineStart IN
    /\ lineStart < Len(data)
    /\ IF m >= left
          THEN /\ out' = out \o SubSeq(data, lineStart + 1, Len(data))
               /\ data' = <<>> /\ lineStart' = 0 /\ lineEnd' = 0
          ELSE /\ out' = out \o SubSeq(data, lineStart + 1, lineStart + m)
               /\ lineStart' = lineStart + m
               /\ UNCHANGED <<data, lineEnd>>
    /\ result' = "None"
    /\ UNCHANGED <<input, taken>>

ConsumeLeft(m) ==
    LET left == Len(data) - lineStart IN
    /\ lineStart < Len(data)
    /\ IF m >= left
          THEN /\ out' = out \o SubSeq(data, lineStart + 1, Len(data))
               /\ data' = <<>> /\ lineStart' = 0 /\ lineEnd' = 0
          ELSE /\ out' = out \o SubSeq(data, lineStart + 1, lineStart + m)
               /\ lineStart' = lineStart + m /\ lineEnd' = lineStart + m
               /\ UNCHANGED data
    /\ result' = "None"
    /\ UNCHANGED <<input, taken>>

Next ==
    \/ ReadLine
    \/ ConsumeLine
    \/ \E m \in 1..MaxLeft : ConsumeLeft(m)

Spec == Init /\ [][Next]_vars

-----------------------------------------------------------------------------

\* What the consumer has been handed, followed by what is still buffered
\* from line_start on, is exactly what was read from the peer: consume_line's
\* shifting and consume_left's partial hand-outs lose, repeat and reorder
\* no byte.
NoByteLostOrRepeated ==
    out \o SubSeq(data, lineStart + 1, Len(data)) = SubSeq(input, 1, taken)

\* The reference: the next line of a byte stream is everything up to and
\* including its first newline.
RefNextLine(s) ==
    LET nl == {i \in 1..Len(s) : s[i] = "n"}
    IN  SubSeq(s, 1, CHOOSE i \in nl : \A j \in nl : i <= j)

\* A line read_line returns is the next line of the stream after what the
\* consumer has been handed.
LineIsNextLine ==
    result = "Line" =>
        SubSeq(data, lineStart + 1, lineEnd)
            = RefNextLine(SubSeq(input, Len(out) + 1, Len(input)))

\* The buffer implements the line stream it promises (LineStream): the
\* mapping is the identity on the peer's input, the bytes read and the
\* bytes handed out, the buffer layout being hidden.  consume_line hands
\* out exactly the next whole line or nothing, consume_left at most
\* max_size bytes from line_start, and read_line never reads more than the
\* capacity ahead of the consumer.
LS == INSTANCE LineStream
ImplementsLineStream == LS!LSSpec

=============================================================================
