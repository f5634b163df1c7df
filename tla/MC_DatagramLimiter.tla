-------------------------- MODULE MC_DatagramLimiter --------------------------
(* Model values for checking DatagramLimiter with TLC. *)
EXTENDS DatagramLimiter

\* A budget of 2 datagrams and 4 bytes, and the unlimited configuration
\* (0 disables a budget) that reset() may switch to.
MC_Limits == {[p |-> 2, b |-> 4], [p |-> 0, b |-> 0]}

\* Empty datagrams (equal cumulative sizes), sizes that add up to the byte
\* budget exactly, and one larger than the whole budget.
MC_Sizes == {0, 1, 3, 5}

MC_BatchMax == 3
MC_WindowCap == 4

MC_ApiBoth == {"single", "batch"}
=============================================================================
