------------------------------ MODULE Transcript ------------------------------
(***************************************************************************)
(* The bytes of a bucket of commits (quic-mls/src/transcript.rs):          *)
(* encode_transcript writes the longest prefix for which there is room,    *)
(* the datagram may be cut, padded or damaged on its way, and              *)
(* decode_transcript takes it apart, entry by entry.                       *)
(***************************************************************************)
EXTENDS Bytes, SequencesExt

CONSTANTS
    MAGIC,       \* a sequence of bytes (4 in the code)
    WORD,        \* bytes of a count or a length (4)
    MaxBytes     \* the room there may be (send_preamble gives usize::MAX)

ASSUME TranscriptConstants ==
    /\ MAGIC \in Seq(Byte) /\ WORD \in Nat \ {0}
    /\ MaxBytes \subseteq Nat

VARIABLES
    bucket,       \* the entries to encode, each with an epoch and its bytes
    max_bytes,
    included,     \* entries of it the encoder has taken
    body_len,
    bytes,        \* the encoding
    fate,         \* what has happened to it: "whole", "cut", "padded", "altered"
    datagram,     \* what arrives
    pos, count, out,
    result        \* "idle", "encoding", "sent", "decoding",
                  \* or the decoder's "ok", "Truncated", "BadMagic"

encoder == <<bucket, max_bytes, included, body_len, bytes>>
decoder == <<pos, count, out>>
transcriptVars == <<encoder, fate, datagram, decoder, result>>

-----------------------------------------------------------------------------
EntryLen(e) == EPOCH + WORD + Len(e.bytes)
Entry(e) == BigEndian(e.epoch, EPOCH) \o BigEndian(Len(e.bytes), WORD) \o e.bytes

Blob(n, entries) ==
    MAGIC \o BigEndian(n, WORD) \o FlattenSeq([i \in DOMAIN entries |-> Entry(entries[i])])

HeaderLen == Len(MAGIC) + WORD

\* datagram[pos + k .. pos + k + n]; what is not there is not read.
Field(k, n) == SubSeq(datagram, pos + k + 1,
                      IF pos + k + n <= Len(datagram) THEN pos + k + n ELSE Len(datagram))

TranscriptInit ==
    /\ bucket = <<>> /\ max_bytes = 0
    /\ included = 0 /\ body_len = 0 /\ bytes = <<>>
    /\ fate = "whole" /\ datagram = <<>>
    /\ pos = 0 /\ count = 0 /\ out = <<>>
    /\ result = "idle"

-----------------------------------------------------------------------------
(* encode_transcript.                                                      *)

EncodeTranscript(entries) ==
    /\ result = "idle"
    /\ bucket' = entries
    /\ max_bytes' \in MaxBytes
    /\ result' = "encoding"
    /\ UNCHANGED <<included, body_len, bytes, fate, datagram, decoder>>

NextFits ==
    /\ included < Len(bucket)
    /\ HeaderLen + body_len + EntryLen(bucket[included + 1]) <= max_bytes

Include ==
    /\ result = "encoding" /\ NextFits
    /\ body_len' = body_len + EntryLen(bucket[included + 1])
    /\ included' = included + 1
    /\ UNCHANGED <<bucket, max_bytes, bytes, fate, datagram, decoder, result>>

Write ==
    /\ result = "encoding" /\ ~NextFits
    /\ bytes' = IF included = 0 THEN <<>> ELSE Blob(included, SubSeq(bucket, 1, included))
    /\ result' = "sent"
    /\ UNCHANGED <<bucket, max_bytes, included, body_len, fate, datagram, decoder>>

-----------------------------------------------------------------------------
(* The way.  An empty encoding is not sent.                                *)

Arrives(f, d) ==
    /\ result = "sent" /\ bytes # <<>>
    /\ fate' = f /\ datagram' = d
    /\ result' = "decoding"
    /\ UNCHANGED <<encoder, decoder>>

Intact == Arrives("whole", bytes)
Cut    == \E n \in 0..Len(bytes) : n < Len(bytes) /\ Arrives("cut", SubSeq(bytes, 1, n))
Padded == \E b \in Byte : Arrives("padded", bytes \o <<b, b>>)
Altered ==
    \E i \in DOMAIN bytes, b \in Byte :
        b # bytes[i] /\ Arrives("altered", [bytes EXCEPT ![i] = b])

-----------------------------------------------------------------------------
(* decode_transcript.                                                      *)

Ends(r) == result' = r /\ UNCHANGED <<encoder, fate, datagram, decoder>>

Truncated ==
    /\ result = "decoding" /\ pos = 0
    /\ Len(datagram) < HeaderLen
    /\ Ends("Truncated")

BadMagic ==
    /\ result = "decoding" /\ pos = 0
    /\ Len(datagram) >= HeaderLen
    /\ Field(0, Len(MAGIC)) # MAGIC
    /\ Ends("BadMagic")

Header ==
    /\ result = "decoding" /\ pos = 0
    /\ Len(datagram) >= HeaderLen
    /\ Field(0, Len(MAGIC)) = MAGIC
    /\ count' = Value(Field(Len(MAGIC), WORD))
    /\ pos' = HeaderLen
    /\ UNCHANGED <<encoder, fate, datagram, out, result>>

MoreEntries == result = "decoding" /\ pos > 0 /\ Len(out) < count
EntryHeaderFits == pos + EPOCH + WORD <= Len(datagram)
EntryEpoch == Value(Field(0, EPOCH))
EntryBytes == Value(Field(EPOCH, WORD))
EntryFits == EntryHeaderFits /\ pos + EPOCH + WORD + EntryBytes <= Len(datagram)

EntryCutShortAs(r) == MoreEntries /\ ~EntryFits /\ Ends(r)

\* Slip: the decoder makes do with what it has.
EntryCutShortIsTheEnd == EntryCutShortAs("ok")
EntryCutShort == EntryCutShortAs("Truncated")

TakeEntryAnd(step) ==
    /\ MoreEntries /\ EntryFits
    /\ out' = Append(out, [epoch |-> EntryEpoch, bytes |-> Field(EPOCH + WORD, EntryBytes)])
    /\ pos' = pos + EPOCH + WORD + step
    /\ UNCHANGED <<encoder, fate, datagram, count, result>>

\* Slip: the bytes are not skipped.
TakeEntryInPlace == TakeEntryAnd(0)
TakeEntry == TakeEntryAnd(EntryBytes)

Finish ==
    /\ result = "decoding" /\ pos > 0 /\ Len(out) = count
    /\ Ends("ok")

-----------------------------------------------------------------------------
Encode == Include \/ Write
Wire   == Intact \/ Cut \/ Padded \/ Altered
Decode == Truncated \/ BadMagic \/ Header \/ EntryCutShort \/ TakeEntry \/ Finish

-----------------------------------------------------------------------------
Decided == result \in {"ok", "Truncated", "BadMagic"}

\* A datagram is decoded to all that was written, or not at all: bytes behind the end
\* change nothing, and if bytes are missing, wherever it was cut, the whole entries
\* before the cut are not taken for the bucket (transcript.rs:62, 76, 83, 89).
WholeOrNotAtAll ==
    Decided /\ fate # "altered" =>
        IF fate = "cut" THEN result = "Truncated"
        ELSE result = "ok" /\ out = SubSeq(bucket, 1, included)

\* Whatever arrives, the decoder never reads past the end of it, and what it accepts,
\* also of a damaged datagram, is what the datagram says: encoding those entries
\* again gives the bytes that were read (transcript.rs:83-88).
AcceptedIsThere ==
    /\ pos <= Len(datagram)
    /\ result = "ok" => Blob(Len(out), out) = SubSeq(datagram, 1, pos)
=============================================================================
