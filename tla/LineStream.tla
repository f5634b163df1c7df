------------------------------ MODULE LineStream ------------------------------
(***************************************************************************)
(* What the line receive buffer (LineRecvVec) promises its consumer,       *)
(* without its buffer layout: bytes are read from the peer ahead of the    *)
(* consumer, never more than the capacity beyond what was handed out, and  *)
(* the consumer is handed either the next whole line of what was read or   *)
(* up to a requested number of bytes of it, in stream order.               *)
(***************************************************************************)
EXTENDS Naturals, Sequences

CONSTANTS
    Cap,        \* the buffer capacity
    MaxInput,   \* the longest input the peer sends
    MaxLeft     \* the largest number of bytes asked for at once

Bytes == {"a", "n"}

Inputs == UNION {[1..n -> Bytes] : n \in 0..MaxInput}

VARIABLES
    input,      \* everything the peer sends, then it closes
    taken,      \* bytes read from the peer so far
    out         \* bytes handed to the consumer so far

lsVars == <<input, taken, out>>

\* Read from the peer but not yet handed out.
Pending == SubSeq(input, Len(out) + 1, taken)

NewlineAt(s) == {i \in 1..Len(s) : s[i] = "n"}

\* The next line of s: up to and including its first newline.
FirstLine(s) == SubSeq(s, 1, CHOOSE i \in NewlineAt(s) : \A j \in NewlineAt(s) : i <= j)

LSInit ==
    /\ input \in Inputs
    /\ taken \in 0..Cap
    /\ taken <= Len(input)
    /\ out = <<>>

\* More bytes are read, up to the capacity beyond what was handed out.
Receive ==
    /\ \E n \in 1..Len(input) - taken :
          /\ taken + n - Len(out) <= Cap
          /\ taken' = taken + n
    /\ UNCHANGED <<input, out>>

\* The next whole line is handed out.
HandLine ==
    /\ NewlineAt(Pending) # {}
    /\ out' = out \o FirstLine(Pending)
    /\ UNCHANGED <<input, taken>>

\* Up to m of the bytes read are handed out, line or not.
HandUpTo(m) ==
    /\ Pending # <<>>
    /\ out' = out \o SubSeq(Pending, 1, IF m < Len(Pending) THEN m ELSE Len(Pending))
    /\ UNCHANGED <<input, taken>>

LSNext == Receive \/ HandLine \/ \E m \in 1..MaxLeft : HandUpTo(m)

LSSpec == LSInit /\ [][LSNext]_lsVars

=============================================================================
