----------------------------- MODULE MC_IcapReuse -----------------------------
(* Model values for checking IcapReuse with TLC. *)
EXTENDS IcapReuse

CONSTANTS a1, a2, c1, c2

\* Two adapters so a connection one saved is reused by the other; two
\* connections so both can be open at once.
MC_Adapters == {a1, a2}
MC_Conns == {c1, c2}

\* Two transactions each: the second may reuse a saved connection.
MC_MaxTx == 2
=============================================================================
