---------------------------- MODULE ChunkedTransfer ----------------------------
(***************************************************************************)
(* The HTTP/2 body to chunked transfer encoder of g3-h2:                   *)
(* H2StreamToChunkedTransfer / ChunkedEncodeTransferInternal in            *)
(* src/lib/g3-h2/src/body/to_chunked_transfer.rs.                          *)
(*                                                                         *)
(* The future is polled by its task; one poll runs poll_transfer and its   *)
(* loops until it returns.  Each step below is one pass of those loops:    *)
(* a poll_data, poll_trailers, poll_write or poll_flush call and what the  *)
(* code does with its answer.  A Pending answer ends the poll with the     *)
(* waker registered; Wake starts the next poll.  The RecvStream and the    *)
(* writer are the environment.  Bytes are symbols: "d" for body data,      *)
(* "CR"/"LF", hex digits, and "F" for one encoded trailer field.           *)
(***************************************************************************)
EXTENDS Naturals, Sequences, SequencesExt

CONSTANTS
    ChunkSizes,   \* sizes of the DATA frames the stream may deliver
    MaxChunks,    \* the most DATA frames in a body
    MaxFields,    \* the most trailer fields
    YieldSize,    \* yield_size
    WriteZero     \* whether the writer may answer Ok(0)

ASSUME MaxChunks \in Nat /\ MaxFields \in Nat /\ YieldSize \in Nat
ASSUME WriteZero \in BOOLEAN

VARIABLES
    pc,          \* "Waiting" (Pending returned), "Polling", "Done", "Failed"
    loc,         \* the point of poll_transfer the current poll is at
    stage,       \* transfer_stage
    header,      \* static_header
    hdrOff,      \* static_offset
    chunk,       \* bytes left of self.chunk, or -1 for None
    readDone,    \* read_data_finished
    totalWrite,  \* total_write
    round,       \* copy_this_round of the current poll
    trailer,     \* trailer_bytes
    trlOff,      \* trailer_offset
    active,      \* active
    src,         \* DATA frames the peer has still to deliver
    fields,      \* trailer fields the peer sends (-1: no trailers)
    got,         \* non-empty DATA frames taken into the encoding so far
    out,         \* every byte written to the writer
    noData       \* the transfer was made by without_data

vars == <<pc, loc, stage, header, hdrOff, chunk, readDone, totalWrite, round,
          trailer, trlOff, active, src, fields, got, out, noData>>

CRLF == <<"CR", "LF">>

HexDigits == <<"0", "1", "2", "3", "4", "5", "6", "7",
               "8", "9", "a", "b", "c", "d", "e", "f">>

\* The digits write!("{:x}") produces for n.
RECURSIVE Hex(_)
Hex(n) == IF n < 16 THEN <<HexDigits[n + 1]>>
          ELSE Hex(n \div 16) \o <<HexDigits[(n % 16) + 1]>>

Data(n) == [i \in 1..n |-> "d"]

Fields(k) == IF k <= 0 THEN <<>> ELSE FlattenSeq([i \in 1..k |-> <<"F">> \o CRLF])

\* The trailer section of a chunked body: the trailer block and the final
\* CRLF.
TrailerSection(k) == Fields(k) \o CRLF

\* The chunked encoding of a body (spec 6): for every chunk its hex length,
\* CRLF, the data and CRLF; then the zero-length chunk and the trailer
\* section.
ChunkedEncoding(sizes, k) ==
    FoldLeft(LAMBDA acc, n : acc \o Hex(n) \o CRLF \o Data(n) \o CRLF, <<>>, sizes)
      \o <<"0">> \o CRLF \o TrailerSection(k)

MaxOut == Len(ChunkedEncoding([i \in 1..MaxChunks + 1 |-> Max(ChunkSizes)], MaxFields))

Locs == {"Recv", "Hdr", "Fin", "Chunk", "Yield", "Trailer", "TrailerWrite", "Flush"}

TypeOK ==
    /\ pc \in {"Waiting", "Polling", "Done", "Failed"}
    /\ loc \in Locs
    /\ stage \in {"Data", "Trailer", "End"}
    /\ hdrOff \in 0..Len(header)
    /\ chunk \in {-1} \cup 0..Max(ChunkSizes)
    /\ readDone \in BOOLEAN
    /\ totalWrite \in 0..MaxOut
    /\ trlOff \in 0..Len(trailer)
    /\ active \in BOOLEAN
    /\ Len(got) <= MaxChunks + 1
    /\ Len(out) <= MaxOut

Bodies == UNION {[1..n -> ChunkSizes] : n \in 0..MaxChunks}

\* H2StreamToChunkedTransfer::new; with_chunk with a first non-empty chunk
\* already taken from the stream (its header "{len:x}\r\n" prepared); or
\* without_data, for a body whose data the caller has already ended: it
\* starts at the Trailer stage with read_data_finished set.
Init ==
    /\ fields \in -1..MaxFields
    /\ \/ /\ src \in Bodies /\ header = <<>> /\ chunk = -1 /\ got = <<>>
          /\ stage = "Data" /\ readDone = FALSE /\ noData = FALSE
       \/ \E n \in ChunkSizes \ {0} :
             /\ src \in Bodies /\ header = Hex(n) \o CRLF /\ chunk = n /\ got = <<n>>
             /\ stage = "Data" /\ readDone = FALSE /\ noData = FALSE
       \/ /\ src = <<>> /\ header = <<>> /\ chunk = -1 /\ got = <<>>
          /\ stage = "Trailer" /\ readDone = TRUE /\ noData = TRUE
    /\ pc = "Waiting"
    /\ loc = "Recv"
    /\ hdrOff = 0
    /\ totalWrite = 0
    /\ round = 0
    /\ trailer = <<>>
    /\ trlOff = 0
    /\ active = FALSE
    /\ out = <<>>

\* What one poll_write may accept of a buffer of len bytes.
Accepted(len) == IF WriteZero THEN 0..len ELSE 1..len

poll == <<pc, loc>>
state == <<stage, header, hdrOff, chunk, readDone, totalWrite, round,
           trailer, trlOff, active>>
peer == <<src, fields, got, out, noData>>

\* A sub-poll answered Pending: the poll returns Pending with the waker set.
Pend == pc' = "Waiting" /\ UNCHANGED <<loc, state, peer>>

\* A sub-poll failed: the poll returns Ready(Err(..)).
Fail == pc' = "Failed" /\ UNCHANGED <<loc, state, peer>>

\* Future::poll -> poll_transfer, dispatching on transfer_stage.
Wake ==
    /\ pc = "Waiting"
    /\ pc' = "Polling"
    /\ loc' = CASE stage = "Data" -> "Recv"
                [] stage = "Trailer" -> "Trailer"
                [] stage = "End" -> "Flush"
    /\ round' = 0
    /\ UNCHANGED <<stage, header, hdrOff, chunk, readDone, totalWrite,
                   trailer, trlOff, active, peer>>

Polling(l) == pc = "Polling" /\ loc = l

RecvDataStepBareHeader ==
    /\ Polling("Recv")
    /\ IF chunk # -1 \/ readDone
          THEN loc' = "Hdr" /\ UNCHANGED <<pc, state, peer>>
          ELSE \/ Pend
               \/ Fail
               \/ /\ src # <<>>
                  /\ LET n == Head(src) IN
                     /\ src' = Tail(src)
                     /\ active' = TRUE
                     /\ IF n = 0
                           THEN UNCHANGED <<loc, header, hdrOff, chunk, got>>
                           ELSE /\ header' = Hex(n) \o CRLF
                                /\ hdrOff' = 0
                                /\ chunk' = n
                                /\ got' = Append(got, n)
                                /\ loc' = "Hdr"
                  /\ UNCHANGED <<pc, stage, readDone, totalWrite, round, trailer,
                                 trlOff, fields, out, noData>>
               \/ /\ src = <<>>
                  /\ readDone' = TRUE
                  /\ active' = TRUE
                  /\ header' = (IF totalWrite = 0 THEN <<>> ELSE CRLF) \o <<"0">> \o CRLF
                  /\ hdrOff' = 0
                  /\ loc' = "Hdr"
                  /\ UNCHANGED <<pc, stage, chunk, totalWrite, round, trailer,
                                 trlOff, peer>>

RecvDataStepKeepOffset ==
    /\ Polling("Recv")
    /\ IF chunk # -1 \/ readDone
          THEN loc' = "Hdr" /\ UNCHANGED <<pc, state, peer>>
          ELSE \/ Pend
               \/ Fail
               \/ /\ src # <<>>
                  /\ LET n == Head(src) IN
                     /\ src' = Tail(src)
                     /\ active' = TRUE
                     /\ IF n = 0
                           THEN UNCHANGED <<loc, header, hdrOff, chunk, got>>
                           ELSE /\ header' = (IF totalWrite = 0 THEN <<>> ELSE CRLF)
                                              \o Hex(n) \o CRLF
                                /\ UNCHANGED hdrOff
                                /\ chunk' = n
                                /\ got' = Append(got, n)
                                /\ loc' = "Hdr"
                  /\ UNCHANGED <<pc, stage, readDone, totalWrite, round, trailer,
                                 trlOff, fields, out, noData>>
               \/ /\ src = <<>>
                  /\ readDone' = TRUE
                  /\ active' = TRUE
                  /\ header' = (IF totalWrite = 0 THEN <<>> ELSE CRLF) \o <<"0">> \o CRLF
                  /\ hdrOff' = 0
                  /\ loc' = "Hdr"
                  /\ UNCHANGED <<pc, stage, chunk, totalWrite, round, trailer,
                                 trlOff, peer>>

\* poll_transfer_data: poll_data when there is no chunk and the body has
\* not ended.  An empty frame is skipped; a frame builds the next header
\* ("{nr:x}\r\n" for the first, "\r\n{nr:x}\r\n" after bytes were
\* written); the end of the body builds "0\r\n" or "\r\n0\r\n".
RecvDataStep ==
    /\ Polling("Recv")
    /\ IF chunk # -1 \/ readDone
          THEN loc' = "Hdr" /\ UNCHANGED <<pc, state, peer>>
          ELSE \/ Pend
               \/ Fail
               \/ /\ src # <<>>
                  /\ LET n == Head(src) IN
                     /\ src' = Tail(src)
                     /\ active' = TRUE
                     /\ IF n = 0
                           THEN UNCHANGED <<loc, header, hdrOff, chunk, got>>
                           ELSE /\ header' = (IF totalWrite = 0 THEN <<>> ELSE CRLF)
                                              \o Hex(n) \o CRLF
                                /\ hdrOff' = 0
                                /\ chunk' = n
                                /\ got' = Append(got, n)
                                /\ loc' = "Hdr"
                  /\ UNCHANGED <<pc, stage, readDone, totalWrite, round, trailer,
                                 trlOff, fields, out, noData>>
               \/ /\ src = <<>>
                  /\ readDone' = TRUE
                  /\ active' = TRUE
                  /\ header' = (IF totalWrite = 0 THEN <<>> ELSE CRLF) \o <<"0">> \o CRLF
                  /\ hdrOff' = 0
                  /\ loc' = "Hdr"
                  /\ UNCHANGED <<pc, stage, chunk, totalWrite, round, trailer,
                                 trlOff, peer>>

\* The static header write loop; then, after the last chunk, move on to
\* the Trailer stage.
WriteHeaderStep ==
    /\ Polling("Hdr")
    /\ IF hdrOff < Len(header)
          THEN \/ Pend
               \/ Fail
               \/ \E k \in Accepted(Len(header) - hdrOff) :
                     /\ out' = out \o SubSeq(header, hdrOff + 1, hdrOff + k)
                     /\ hdrOff' = hdrOff + k
                     /\ totalWrite' = totalWrite + k
                     /\ active' = TRUE
                     /\ UNCHANGED <<pc, loc, stage, header, chunk, readDone, round,
                                    trailer, trlOff, src, fields, got, noData>>
          ELSE /\ loc' = IF readDone THEN "Trailer" ELSE "Chunk"
               /\ stage' = IF readDone THEN "Trailer" ELSE stage
               /\ UNCHANGED <<pc, header, hdrOff, chunk, readDone, totalWrite,
                              round, trailer, trlOff, active, peer>>

\* A chunk write loop that does not mark the transfer active.
WriteChunkStepNoActive ==
    /\ Polling("Chunk")
    /\ IF chunk = -1
          THEN loc' = "Yield" /\ UNCHANGED <<pc, state, peer>>
          ELSE \/ Pend
               \/ Fail
               \/ \E k \in Accepted(chunk) :
                     /\ out' = out \o Data(k)
                     /\ totalWrite' = totalWrite + k
                     /\ round' = round + k
                     /\ chunk' = IF k = chunk THEN -1 ELSE chunk - k
                     /\ loc' = IF k = chunk THEN "Yield" ELSE "Chunk"
                     /\ UNCHANGED <<pc, stage, header, hdrOff, readDone, trailer,
                                    trlOff, active, src, fields, got, noData>>

\* The chunk write loop: a partial write keeps the rest (split_off); an
\* empty rest ends the loop.
WriteChunkStep ==
    /\ Polling("Chunk")
    /\ IF chunk = -1
          THEN loc' = "Yield" /\ UNCHANGED <<pc, state, peer>>
          ELSE \/ Pend
               \/ Fail
               \/ \E k \in Accepted(chunk) :
                     /\ out' = out \o Data(k)
                     /\ totalWrite' = totalWrite + k
                     /\ round' = round + k
                     /\ active' = TRUE
                     /\ chunk' = IF k = chunk THEN -1 ELSE chunk - k
                     /\ loc' = IF k = chunk THEN "Yield" ELSE "Chunk"
                     /\ UNCHANGED <<pc, stage, header, hdrOff, readDone, trailer,
                                    trlOff, src, fields, got, noData>>

YieldStepNoWake ==
    /\ Polling("Yield")
    /\ IF round >= YieldSize
          THEN pc' = "Parked" /\ UNCHANGED loc
          ELSE loc' = "Recv" /\ UNCHANGED pc
    /\ UNCHANGED <<state, peer>>

\* After yield_size bytes in one poll the task wakes itself and yields.
YieldStep ==
    /\ Polling("Yield")
    /\ IF round >= YieldSize
          THEN pc' = "Waiting" /\ UNCHANGED loc
          ELSE loc' = "Recv" /\ UNCHANGED pc
    /\ UNCHANGED <<state, peer>>

\* poll_transfer_trailers before the trailer bytes exist: poll_trailers,
\* then the encoded fields and a blank line, or just "\r\n".
RecvTrailersStep ==
    /\ Polling("Trailer")
    /\ IF trailer # <<>>
          THEN loc' = "TrailerWrite" /\ UNCHANGED <<pc, state, peer>>
          ELSE \/ Pend
               \/ Fail
               \/ /\ trailer' = Fields(fields) \o CRLF
                  /\ active' = TRUE
                  /\ loc' = "TrailerWrite"
                  /\ UNCHANGED <<pc, stage, header, hdrOff, chunk, readDone,
                                 totalWrite, round, trlOff, peer>>

\* The trailer write loop, then the End stage.
WriteTrailerStep ==
    /\ Polling("TrailerWrite")
    /\ IF trlOff < Len(trailer)
          THEN \/ Pend
               \/ Fail
               \/ \E k \in Accepted(Len(trailer) - trlOff) :
                     /\ out' = out \o SubSeq(trailer, trlOff + 1, trlOff + k)
                     /\ trlOff' = trlOff + k
                     /\ totalWrite' = totalWrite + k
                     /\ active' = TRUE
                     /\ UNCHANGED <<pc, loc, stage, header, hdrOff, chunk, readDone,
                                    round, trailer, src, fields, got, noData>>
          ELSE /\ stage' = "End"
               /\ loc' = "Flush"
               /\ UNCHANGED <<pc, header, hdrOff, chunk, readDone, totalWrite,
                              round, trailer, trlOff, active, peer>>

\* The End stage: poll_flush, then Ready(Ok(total_write)).
FlushStep ==
    /\ Polling("Flush")
    /\ \/ Pend
       \/ Fail
       \/ pc' = "Done" /\ UNCHANGED <<loc, state, peer>>

\* is_idle: nothing moved since the last reset_active.
IsIdle == ~active

\* reset_active, called by the idle checker of the task driving the future.
ResetActive ==
    /\ pc \in {"Waiting", "Polling"}
    /\ active' = FALSE
    /\ UNCHANGED <<pc, loc, stage, header, hdrOff, chunk, readDone, totalWrite,
                   round, trailer, trlOff, peer>>

\* no_cached_data without the chunk.is_none() test.
NoCachedDataHeaderOnly ==
    CASE stage = "Data" -> hdrOff >= Len(header)
      [] stage = "Trailer" -> trlOff >= Len(trailer)
      [] stage = "End" -> TRUE

\* no_cached_data: the encoder holds no byte the writer has not taken; the
\* task driving the future reads it to tell an idle reader from an idle
\* writer.
NoCachedData ==
    CASE stage = "Data" -> hdrOff >= Len(header) /\ chunk = -1
      [] stage = "Trailer" -> trlOff >= Len(trailer)
      [] stage = "End" -> TRUE

\* The future has completed.
Finished ==
    /\ pc \in {"Done", "Failed"}
    /\ UNCHANGED vars

PollStep ==
    \/ RecvDataStep \/ WriteHeaderStep \/ WriteChunkStep \/ YieldStep
    \/ RecvTrailersStep \/ WriteTrailerStep \/ FlushStep

Next == Wake \/ PollStep \/ ResetActive \/ Finished

\* A poll step at l that is not a sub-poll answering Pending.
Answered(l) == Polling(l) /\ PollStep /\ pc' # "Waiting"

\* A registered waker is always woken and a poll runs on to its return
\* (weak fairness); the peer and the writer are not unready forever: a
\* sub-poll that keeps being retried at the same point eventually gets an
\* answer other than Pending (strong fairness per point).
Spec == Init /\ [][Next]_vars /\ WF_vars(Wake) /\ WF_vars(PollStep)
             /\ \A l \in Locs : SF_vars(Answered(l))

-----------------------------------------------------------------------------

\* Once the future returned Ready(Ok(total_write)), the writer received
\* exactly the chunked encoding (spec 6) of the DATA frames and trailers
\* the stream delivered (only its trailer section for a transfer made by
\* without_data), whatever the partial writes, Pending answers and yields
\* in between, and total_write is the number of bytes written.
OutputIsChunkedEncoding ==
    pc = "Done" => /\ out = IF noData THEN TrailerSection(fields)
                                     ELSE ChunkedEncoding(got, fields)
                   /\ totalWrite = Len(out)

\* The bytes the encoder has produced from what it took: the chunks so far,
\* each after its header (with the CRLF that closes the chunk before it),
\* the last-chunk header once the body ended, and the trailer bytes.
ChunkBytes(sizes) ==
    FoldLeft(LAMBDA acc, n : acc \o (IF acc = <<>> THEN <<>> ELSE CRLF)
                             \o Hex(n) \o CRLF \o Data(n), <<>>, sizes)
Produced == ChunkBytes(got) \o (IF readDone THEN header ELSE <<>>) \o trailer

\* Whenever no_cached_data() says the encoder holds nothing, the writer has
\* received every byte produced from the DATA frames and trailers taken
\* from the stream, so an idle transfer in that state is waiting on the
\* stream and not on the writer.
CachedDataAccounted == NoCachedData => out = Produced

\* The idle checker of the task driving the future calls reset_active and,
\* a timeout later, reads is_idle to decide the transfer is stuck: every
\* step that takes a DATA frame or trailers from the stream or hands bytes
\* to the writer, on any of the write paths and after any partial write,
\* leaves is_idle false, so a transfer that moved data in the interval is
\* never reported idle.
ProgressNotIdle ==
    [][(out' # out \/ got' # got \/ trailer' # trailer) => ~IsIdle']_vars

\* Under the fairness of Spec the transfer ends, with Ok or an error.
TransferCompletes == <>(pc \in {"Done", "Failed"})

=============================================================================
