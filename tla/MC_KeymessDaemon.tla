------------------------- MODULE MC_KeymessDaemon -------------------------
EXTENDS KeymessDaemon

CONSTANTS w1, w2

MC_Workers == {w1, w2}

\* RSA keys of 2048, 3072 and 4096 bits and one of 1024 bits (not served),
\* EC keys on P-256 and P-521, one whose ec_key() fails, and an Ed25519 key.
MC_Keys ==
    {[id |-> "RSA", size |-> s, curve |-> "None"] : s \in {128, 256, 384, 512}}
    \cup {[id |-> "EC", size |-> 0, curve |-> c] : c \in {"P256", "P521", "Invalid"}}
    \cup {[id |-> "ED25519", size |-> 0, curve |-> "None"]}

\* w1 serves 2048/3072-bit RSA and P-256, w2 2048/4096-bit RSA; nobody
\* registered P-521.
MC_Supports ==
    [w \in MC_Workers |->
        IF w = w1 THEN {"rsa_2048", "rsa_3072", "ecdsa_p256"}
                  ELSE {"rsa_2048", "rsa_4096"}]

MC_CounterShift == 1
MC_ChanCap == 1
MC_MaxReqs == 4

\* One retry after the first register attempt, so startup both retries
\* and gives up; two outages of the register upstream, so the reconnect
\* loop re-registers more than once, and its reopen can fail and sleep
\* again before it succeeds.
MC_StartupRetry == 1
MC_MaxOutages == 2
=============================================================================
