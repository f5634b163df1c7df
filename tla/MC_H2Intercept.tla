--------------------------- MODULE MC_H2Intercept ---------------------------
(* Model values for checking H2Intercept with TLC. *)
EXTENDS H2Intercept

MC_Actions == {"Intercept", "Detour", "Bypass", "Block"}

\* One tick over the limit ends an idle connection; a tick may report two
\* elapsed periods at once.
MC_MaxIdleCount == 1
MC_MaxTickBatch == 2

\* Two concurrent client streams are enough for one stream task to finish
\* while another is transferring.
MC_MaxConcurrentStreams == 2

=============================================================================
