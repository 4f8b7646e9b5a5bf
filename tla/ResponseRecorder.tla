----------------------------- MODULE ResponseRecorder -----------------------------
(***************************************************************************)
(* What cache/block-cache.ts and request-log.ts see of one response that   *)
(* was missed in the cache.  Both wrap write and end of the response, the  *)
(* cache outside the log: each chunk is recorded by the cache, then by the *)
(* log, then it is sent.  When the response ends, the cache keeps what it  *)
(* recorded if it is the result of a query without errors; the log has its *)
(* size and its first bytes.                                               *)
(*                                                                         *)
(* A chunk is bytes, or text, which is sent as UTF-8; end may also come    *)
(* without a chunk, or with a callback in its place.                       *)
(***************************************************************************)
EXTENDS Naturals, Sequences, SequencesExt

CONSTANTS
  Chunks,         \* what handlers write: records of a kind and a body
  Wide,           \* the characters that take two bytes, others take one
  Results,        \* the bytes that parse as a result with data and no errors
  Nothing,        \* no payload, no first bytes
  MaxEntryBytes,  \* BLOCK_CACHE_MAX_ENTRY_BYTES
  HeadBytes,      \* 64: how much of the first chunk the log looks at
  MaxChunks       \* bound: calls of write

ASSUME RecorderAssumption ==
  /\ \A c \in Chunks : c.kind \in {"bytes", "text", "none", "callback"}
  /\ MaxEntryBytes \in Nat /\ HeadBytes \in Nat /\ MaxChunks \in Nat

VARIABLES
  status,    \* of the response
  sent,      \* the bytes handed to the client
  writes,    \* chunks written so far
  ended,     \* whether end has been called
  chunks,    \* the cache's record ...
  size,      \* ... its size, chunks dropped included ...
  tooBig,    \* ... and whether it was given up
  kept,      \* the payload the cache stores, or Nothing
  bytes,     \* the log's count
  firstBytes \* the log's first bytes, or Nothing

recorderVars == <<status, sent, writes, ended, chunks, size, tooBig, kept, bytes, firstBytes>>

RecorderInit ==
  /\ status \in {200, 500}
  /\ sent = << >> /\ writes = 0 /\ ended = FALSE
  /\ chunks = << >> /\ size = 0 /\ tooBig = FALSE /\ kept = Nothing
  /\ bytes = 0 /\ firstBytes = Nothing

Utf8(text) ==
  FlattenSeq([i \in DOMAIN text |->
                IF text[i] \in Wide THEN <<<<text[i], 1>>, <<text[i], 2>>>>
                                    ELSE <<<<text[i], 1>>>>])

(* Buffer.isBuffer(chunk) ? chunk : Buffer.from(chunk), and what is sent *)
BytesOf(chunk) ==
  CASE chunk.kind = "bytes" -> chunk.body
    [] chunk.kind = "text"  -> Utf8(chunk.body)
    [] OTHER                -> << >>

(* Bodies are sequences, no beginning of a chunk is Nothing, and without   *)
(* any bytes there is no result.                                           *)
ASSUME ChunksAssumption ==
  /\ \A c \in Chunks : c.body \in Seq(ToSet(c.body)) /\ Nothing \notin Prefixes(BytesOf(c))
  /\ << >> \notin Results

IsData(chunk) == chunk.kind \in {"bytes", "text"}

(* Mutant of CacheRecords: the size is that of the chunk alone. *)
CacheRecordsEach(chunk) ==
  IF tooBig \/ ~ IsData(chunk) THEN UNCHANGED <<chunks, size, tooBig>>
  ELSE /\ size' = Len(BytesOf(chunk))
       /\ IF size' > MaxEntryBytes THEN tooBig' = TRUE /\ chunks' = << >>
          ELSE chunks' = Append(chunks, BytesOf(chunk)) /\ UNCHANGED tooBig

(* record of the cache *)
CacheRecords(chunk) ==
  IF tooBig \/ ~ IsData(chunk) THEN UNCHANGED <<chunks, size, tooBig>>
  ELSE /\ size' = size + Len(BytesOf(chunk))
       /\ IF size' > MaxEntryBytes THEN tooBig' = TRUE /\ chunks' = << >>
          ELSE chunks' = Append(chunks, BytesOf(chunk)) /\ UNCHANGED tooBig

FirstBytesWith(buf) ==
  IF firstBytes = Nothing /\ buf # << >>
  THEN SubSeq(buf, 1, IF HeadBytes < Len(buf) THEN HeadBytes ELSE Len(buf))
  ELSE firstBytes

(* Mutant of LogRecords: counts characters where the chunk is text. *)
LogRecordsLength(chunk) ==
  IF ~ IsData(chunk) THEN UNCHANGED <<bytes, firstBytes>>
  ELSE /\ bytes' = bytes + Len(chunk.body)
       /\ firstBytes' = FirstBytesWith(BytesOf(chunk))

(* record of the log *)
LogRecords(chunk) ==
  IF ~ IsData(chunk) THEN UNCHANGED <<bytes, firstBytes>>
  ELSE LET buf == BytesOf(chunk)
       IN  /\ bytes' = bytes + Len(buf)
           /\ firstBytes' = FirstBytesWith(buf)

Send(chunk) ==
  /\ ~ ended
  /\ CacheRecords(chunk)
  /\ LogRecords(chunk)
  /\ sent' = sent \o BytesOf(chunk)

(* res.write *)
Write(chunk) ==
  /\ IsData(chunk) /\ writes < MaxChunks
  /\ Send(chunk)
  /\ writes' = writes + 1
  /\ UNCHANGED <<status, ended, kept>>

(* res.end: what the cache has, is stored if it parses. *)
End(chunk) ==
  /\ Send(chunk)
  /\ ended' = TRUE
  /\ kept' = IF status = 200 /\ ~ tooBig' /\ chunks' # << >> /\ FlattenSeq(chunks') \in Results
             THEN FlattenSeq(chunks') ELSE Nothing
  /\ UNCHANGED <<status, writes>>

RecorderEnded == ended /\ UNCHANGED recorderVars

RecorderNext == (\E chunk \in Chunks : Write(chunk) \/ End(chunk)) \/ RecorderEnded

RecorderSpec == RecorderInit /\ [][RecorderNext]_recorderVars

-----------------------------------------------------------------------------
(***************************************************************************)
(* block-cache.ts:78-79 and :103-120, "store it on success": a response    *)
(* that ended is kept, byte for byte as the client got it, exactly if it   *)
(* is a result without errors, has status 200 and fits, in however many    *)
(* chunks and with characters cut across them.                             *)
(***************************************************************************)
KeepsResultsAsSent ==
  ended => kept = IF status = 200 /\ sent \in Results /\ Len(sent) =< MaxEntryBytes
                  THEN sent ELSE Nothing

(***************************************************************************)
(* request-log.ts:74-92: the log counts every byte once, in whatever form  *)
(* it was written, and its first bytes are those the client gets first.    *)
(***************************************************************************)
LogMeasuresWhatIsSent ==
  /\ bytes = Len(sent)
  /\ firstBytes = Nothing <=> sent = << >>
  /\ firstBytes # Nothing => Len(firstBytes) =< HeadBytes /\ IsPrefix(firstBytes, sent)

=============================================================================
