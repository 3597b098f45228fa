------------------------------ MODULE Streams ------------------------------
(***************************************************************************)
(* streamingCrypto.service.ts: a file is encrypted in fixed-size chunks,   *)
(* one authenticated frame each, and decrypted while it downloads.  Both   *)
(* transforms see their input in slices of whatever size the stream        *)
(* delivers.  The wire is a sequence of units: two for the header, two for *)
(* the length field of a frame, one for its nonce and tag, one for each    *)
(* unit of plaintext.  AES-GCM is perfect: a frame opens if and only if    *)
(* its body is, unit by unit, the body of a frame encrypted under the same *)
(* associated data.  Between the two the stored object may have been       *)
(* damaged.  The two pages that open documents (Documents.tsx and          *)
(* AccessCenter.tsx) look at the first bytes to tell a framed object from  *)
(* an old one, and hand what the transform gave to the user.               *)
(***************************************************************************)
EXTENDS Naturals, Sequences, FiniteSets

CONSTANTS CHUNK_SIZE,    \* plaintext units per frame
          MAX_FILE,      \* largest file
          SLICE_SIZES    \* sizes of the slices the streams deliver

HEADER == <<[t |-> "magic"], [t |-> "header"]>>
LENGTH_UNITS == 2

VARIABLES fileSize,      \* the plaintext is 1, 2, ..., fileSize
          taken,         \* plaintext units the encrypt transform was given
          pendingLen,    \* of those, not yet in a frame
          frames,        \* frames enqueued: the plaintext and associated data of each
          wire,          \* the stored object as it is downloaded; <<>> before that
          damaged,       \* was it altered on the way
          bufferChunks,  \* decrypt: slices not consumed yet
          headerParsed, chunkIndex, finalized,
          output,        \* plaintext units enqueued by the decrypt transform
          streaming,     \* "encrypting", "stored", "decrypting", "closed", "legacy",
                         \* "delivered", "error"
          delivered      \* what the user was given, or Nothing

encryptVars == <<fileSize, taken, pendingLen, frames>>
decryptVars == <<bufferChunks, headerParsed, chunkIndex, finalized, output>>
streamsVars == <<fileSize, taken, pendingLen, frames, wire, damaged, bufferChunks,
                 headerParsed, chunkIndex, finalized, output, streaming, delivered>>

Nothing == <<0>>       \* no unit of a file is 0
Garbage == <<0, 0>>    \* whatever the old decryption makes of a framed object

Size(chunks) ==
  LET upTo[i \in 0..Len(chunks)] == IF i = 0 THEN 0 ELSE upTo[i - 1] + Len(chunks[i])
  IN upTo[Len(chunks)]

Joined(chunks) ==
  LET upTo[i \in 0..Len(chunks)] == IF i = 0 THEN <<>> ELSE upTo[i - 1] \o chunks[i]
  IN upTo[Len(chunks)]

\* Every frame is sealed under the same associated data.
chunkIndexAad_fixed(i) == 0

chunkIndexAad(i) == i

---------------------------------------------------------------------------
(* Encryption.                                                             *)

\* The next frame: n units of plaintext, starting after those framed so far.
encryptChunk(emitted, first, n) ==
  Append(emitted, [plain |-> [i \in 1..n |-> first + i], aad |-> chunkIndexAad(Len(emitted))])

\* A slice of the file arrives: every full chunk of what is pending becomes a frame.
EncryptTransform ==
  /\ streaming = "encrypting"
  /\ taken < fileSize
  /\ \E n \in SLICE_SIZES :
       /\ taken + n <= fileSize
       /\ LET total == pendingLen + n
              full == total \div CHUNK_SIZE
              emit[i \in 0..full] ==
                IF i = 0 THEN frames
                ELSE encryptChunk(emit[i - 1], taken - pendingLen + (i - 1) * CHUNK_SIZE,
                                  CHUNK_SIZE)
          IN /\ frames' = emit[full]
             /\ pendingLen' = total % CHUNK_SIZE
       /\ taken' = taken + n
  /\ UNCHANGED <<fileSize, wire, damaged, bufferChunks, headerParsed, chunkIndex,
                 finalized, output, streaming, delivered>>

\* The file ended: what is pending, even if nothing, is the final, short frame.
EncryptFlush ==
  /\ streaming = "encrypting"
  /\ taken = fileSize
  /\ frames' = encryptChunk(frames, taken - pendingLen, pendingLen)
  /\ pendingLen' = 0
  /\ streaming' = "stored"
  /\ UNCHANGED <<fileSize, taken, wire, damaged, bufferChunks, headerParsed, chunkIndex,
                 finalized, output, delivered>>

\* The units of one frame.
FrameUnits(f) ==
  LET n == Len(frames[f].plain)
  IN [i \in 1..LENGTH_UNITS |-> [t |-> "length", v |-> n]]
       \o [j \in 1..(n + 1) |-> [t |-> "body", f |-> f, j |-> j - 1]]

\* The object made of the given frames, in that order.
ObjectOf(order) ==
  HEADER \o Joined([i \in 1..Len(order) |-> FrameUnits(order[i])])

---------------------------------------------------------------------------
(* What is fetched: the stored object, or a damaged form of it (external). *)

Honest == [i \in 1..Len(frames) |-> i]

Damages ==
  {SubSeq(ObjectOf(Honest), 1, k) : k \in 0..(Len(ObjectOf(Honest)) - 1)}    \* truncated
    \cup {ObjectOf([Honest EXCEPT ![i] = j, ![j] = i]) : i, j \in DOMAIN frames} \* reordered
    \cup {ObjectOf(SubSeq(Honest, 1, i - 1) \o SubSeq(Honest, i + 1, Len(Honest))) :
            i \in DOMAIN frames}                                             \* one lost
    \cup {ObjectOf(SubSeq(Honest, 1, i) \o SubSeq(Honest, i, Len(Honest))) :
            i \in DOMAIN frames}                                             \* one repeated

isStreamingEncryptedPrefix(prefix) == prefix # <<>> /\ prefix[1] = HEADER[1]

\* The slices read to see the prefix are the first slices of the stream given back.
detectStreamingCiphertext(body) ==
  [isStreaming |-> isStreamingEncryptedPrefix(body), stream |-> body]

\* The object is fetched and told apart.  An object that does not start with the
\* magic bytes is decrypted as a whole the old way, which may throw.
Open(body, altered) ==
  LET detected == detectStreamingCiphertext(body)
  IN /\ wire' = detected.stream
     /\ damaged' = altered
     /\ streaming' \in IF detected.isStreaming THEN {"decrypting"} ELSE {"legacy", "error"}

\* No account, no access on chain, no key for the document, or no provider has it.
Refused ==
  /\ streaming' = "error" /\ damaged' = TRUE
  /\ UNCHANGED wire

decryptFileFromIPFS ==
  /\ streaming = "stored"
  /\ \/ Open(ObjectOf(Honest), FALSE)
     \/ \E body \in Damages \ {ObjectOf(Honest)} : Open(body, TRUE)
     \/ Refused
  /\ UNCHANGED <<fileSize, taken, pendingLen, frames, bufferChunks, headerParsed,
                 chunkIndex, finalized, output, delivered>>

---------------------------------------------------------------------------
(* Decryption.                                                             *)

\* Bytes are taken from the front; a slice consumed in part keeps its rest.
drainChunks(chunks, count) ==
  LET left[i \in 0..Len(chunks)] ==     \* still to take after the first i slices
        IF i = 0 THEN count
        ELSE IF left[i - 1] >= Len(chunks[i]) THEN left[i - 1] - Len(chunks[i]) ELSE 0
      gone == {i \in DOMAIN chunks : left[i - 1] >= Len(chunks[i])}
      k == Cardinality(gone)
  IN [taken |-> SubSeq(Joined(chunks), 1, count),
      chunks |-> IF k = Len(chunks) THEN <<>>
                 ELSE <<SubSeq(chunks[k + 1], left[k] + 1, Len(chunks[k + 1]))>>
                        \o SubSeq(chunks, k + 2, Len(chunks))]

parseHeader(h) == h = HEADER

\* The length field, read in the first slice only: when the slice ends inside the
\* field the read passes the end of its buffer and throws.
readUint32BE(chunks) ==
  IF Len(chunks[1]) < LENGTH_UNITS \/ chunks[1][1].t # "length" THEN CHUNK_SIZE + 1
  ELSE chunks[1][1].v

\* The frame a body belongs to, when it opens under the given associated data.
Opens(body, n, aad) ==
  {f \in DOMAIN frames :
     /\ Len(frames[f].plain) = n
     /\ frames[f].aad = aad
     /\ body = [j \in 1..(n + 1) |-> [t |-> "body", f |-> f, j |-> j - 1]]}

\* The loop of the transform: s is [chunks, index, out, final, error].
Frame(s) ==
  LET n == readUint32BE(s.chunks)
      drained == drainChunks(s.chunks, LENGTH_UNITS + n + 1)
      opened == Opens(SubSeq(drained.taken, LENGTH_UNITS + 1, LENGTH_UNITS + n + 1), n,
                      chunkIndexAad(s.index))
  IN IF n > CHUNK_SIZE THEN [s EXCEPT !.error = TRUE]
     ELSE IF Size(s.chunks) < LENGTH_UNITS + n + 1 THEN [s EXCEPT !.waits = TRUE]
     ELSE IF opened = {} THEN [s EXCEPT !.error = TRUE]
     ELSE [s EXCEPT !.chunks = drained.chunks,
                    !.index = @ + 1,
                    !.out = @ \o frames[CHOOSE f \in opened : TRUE].plain,
                    !.final = n < CHUNK_SIZE,
                    !.error = n < CHUNK_SIZE /\ drained.chunks # <<>>]

\* Frame after frame until one fails, one is final or there is no whole frame left.
FramesOf(s) ==
  LET loop[k \in 0..(Len(frames) + 2)] ==
        IF k = 0 THEN s
        ELSE LET p == loop[k - 1]
             IN IF p.error \/ p.final \/ p.waits \/ Size(p.chunks) < LENGTH_UNITS THEN p
                ELSE Frame(p)
  IN loop[Len(frames) + 2]

\* A slice of the download arrives.
DecryptTransform ==
  /\ streaming = "decrypting"
  /\ wire # <<>>
  /\ \E n \in SLICE_SIZES :
       LET size == IF n < Len(wire) THEN n ELSE Len(wire)
           arrived == Append(bufferChunks, SubSeq(wire, 1, size))
           header == drainChunks(arrived, Len(HEADER))
           chunks == IF headerParsed THEN arrived ELSE header.chunks
           after == FramesOf([chunks |-> chunks, index |-> chunkIndex, out |-> output,
                              final |-> FALSE, error |-> FALSE, waits |-> FALSE])
       IN /\ wire' = SubSeq(wire, size + 1, Len(wire))
          /\ IF finalized
             THEN /\ streaming' = "error"
                  /\ UNCHANGED decryptVars
             ELSE IF ~headerParsed /\ Size(arrived) < Len(HEADER)
             THEN /\ bufferChunks' = arrived
                  /\ UNCHANGED <<headerParsed, chunkIndex, finalized, output, streaming>>
             ELSE IF ~headerParsed /\ ~parseHeader(header.taken)
             THEN /\ streaming' = "error"
                  /\ UNCHANGED decryptVars
             ELSE /\ bufferChunks' = after.chunks
                  /\ headerParsed' = TRUE
                  /\ chunkIndex' = after.index
                  /\ finalized' = after.final
                  /\ output' = after.out
                  /\ streaming' = IF after.error THEN "error" ELSE "decrypting"
  /\ UNCHANGED <<fileSize, taken, pendingLen, frames, damaged, delivered>>

\* The download ended.
DecryptFlush ==
  /\ streaming = "decrypting"
  /\ wire = <<>>
  /\ streaming' = IF headerParsed /\ finalized /\ bufferChunks = <<>> THEN "closed" ELSE "error"
  /\ UNCHANGED <<fileSize, taken, pendingLen, frames, wire, damaged, bufferChunks,
                 headerParsed, chunkIndex, finalized, output, delivered>>

\* The stream is collected, or piped to a file that is kept only when the pipe closes.
collectStream == IF streaming = "closed" THEN output ELSE Garbage

\* A download or a view: a stream that failed gives the user a message, no file.
handleDownload ==
  /\ streaming \in {"closed", "legacy"}
  /\ delivered' = collectStream
  /\ streaming' = "delivered"
  /\ UNCHANGED <<fileSize, taken, pendingLen, frames, wire, damaged, bufferChunks,
                 headerParsed, chunkIndex, finalized, output>>

StreamsInit ==
  /\ fileSize \in 0..MAX_FILE
  /\ taken = 0 /\ pendingLen = 0 /\ frames = <<>>
  /\ wire = <<>> /\ damaged = FALSE
  /\ bufferChunks = <<>> /\ headerParsed = FALSE /\ chunkIndex = 0
  /\ finalized = FALSE /\ output = <<>>
  /\ streaming = "encrypting" /\ delivered = Nothing

StreamsNext ==
  \/ EncryptTransform \/ EncryptFlush \/ decryptFileFromIPFS
  \/ DecryptTransform \/ DecryptFlush \/ handleDownload

StreamsSpec == StreamsInit /\ [][StreamsNext]_streamsVars

---------------------------------------------------------------------------
Plaintext == [i \in 1..fileSize |-> i]

(* However the object was sliced on its way in and out, and whatever was    *)
(* lost, repeated, reordered or cut off it, the decrypt transform never     *)
(* enqueues anything but the beginning of the file, and handleDownload and  *)
(* handleView give the user the whole file or, of an object that still      *)
(* starts with the magic bytes, nothing.                                    *)
OnlyThePlaintext ==
  /\ output = SubSeq(Plaintext, 1, Len(output))
  /\ delivered \in {Plaintext, Nothing, Garbage}
  /\ delivered = Garbage => damaged

=============================================================================
