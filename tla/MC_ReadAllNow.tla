------------------------------ MODULE MC_ReadAllNow ------------------------------
(* Model values for checking ReadAllNow with TLC. *)
EXTENDS ReadAllNow

\* A three-byte buffer, and a reader holding none, fewer or more bytes
\* than fit, so a poll may end full, on Pending or at the end of stream.
MC_BufLen == 3
MC_MaxData == 4
=============================================================================
