---------------------------- MODULE MC_LineRecvVec ----------------------------
(* Model values for checking LineRecvVec with TLC. *)
EXTENDS LineRecvVec

\* A three-byte buffer: a line can fill it exactly, overflow it, or share
\* it with the start of the next line; four input bytes hold two lines.
MC_Cap == 3
MC_MaxInput == 4
MC_MaxLeft == 2
=============================================================================
