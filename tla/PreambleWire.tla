----------------------------- MODULE PreambleWire -----------------------------
(***************************************************************************)
(* What becomes of a commit window on its way: send_preamble               *)
(* (quic-mls/src/preamble.rs) cuts it into buckets, encodes each into a    *)
(* datagram behind a marker byte, and at the other end the datagram is     *)
(* decoded.  bucket_window counts the bytes of an encoding it does not     *)
(* make: its header lengths and those of transcript.rs are written down    *)
(* twice in the code.                                                      *)
(*                                                                         *)
(* Datagrams have nothing to do with each other: one is followed.          *)
(***************************************************************************)
EXTENDS BucketWindow, Transcript

\* Vec<u8> and u64; a datagram is far shorter than a u32 can count.
ASSUME WireConstants ==
    /\ \A w \in Windows : \A k \in DOMAIN w :
           w[k].bytes \in Seq(Byte) /\ FitsIn(w[k].epoch, EPOCH)
    /\ \A n \in 0..MAX_DATAGRAM_PAYLOAD : FitsIn(n, WORD)

vars == <<bucketVars, transcriptVars>>

Init == BucketInit /\ TranscriptInit

CutWindow == BucketLoop /\ UNCHANGED transcriptVars

\* send_preamble encodes a bucket once bucket_window has returned them all.
EncodeBucket ==
    /\ done
    /\ \E i \in DOMAIN buckets : EncodeTranscript(buckets[i])
    /\ UNCHANGED bucketVars

CodeAndCarry == (Encode \/ Wire \/ Decode) /\ UNCHANGED bucketVars

Next == CutWindow \/ EncodeBucket \/ CodeAndCarry

Spec == Init /\ [][Next]_vars

-----------------------------------------------------------------------------
\* What bucket_window counts is what encode_transcript writes: given the room of a
\* datagram or more, no entry of a bucket is left out, and the datagram with its
\* marker is within MAX_DATAGRAM_PAYLOAD (preamble.rs:72, 121-128, transcript.rs:40).
\* An entry left out would be gone without an error: nobody compares the counts.
BucketsGoWhole ==
    (result \notin {"idle", "encoding"} /\ max_bytes >= PerDatagramBudget) =>
        /\ included = Len(bucket)
        /\ 1 + Len(bytes) <= MAX_DATAGRAM_PAYLOAD
=============================================================================
