------------------------- MODULE MC_ChunkedTransfer -------------------------
(* Model values for checking ChunkedTransfer with TLC. *)
EXTENDS ChunkedTransfer

\* An empty DATA frame (skipped), a one-byte frame and a 16-byte frame,
\* whose length takes two hex digits; two frames make the second header
\* start with CRLF; one trailer field or none, or no trailers at all.
MC_ChunkSizes == {0, 1, 16}
MC_MaxChunks == 2
MC_MaxFields == 1

\* A yield after two bytes in one poll.
MC_YieldSize == 2
=============================================================================
