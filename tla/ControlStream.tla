----------------------------- MODULE ControlStream -----------------------------
(***************************************************************************)
(* Control messages as bytes on a QUIC stream (quic-mls/src/control.rs).   *)
(* write_message hands a message to the stream piece by piece, as its flow *)
(* control allows; read_message waits for a tag and then for the eight     *)
(* bytes of an epoch, which come as the packets do.  The connection may be *)
(* lost at any byte, which is when the writing task is aborted.            *)
(***************************************************************************)
EXTENDS Bytes, SequencesExt

CONSTANTS
    Epochs,        \* epochs that are reported
    Credit,        \* bytes the stream takes before some are read
    MaxMessages    \* bound on the messages written

ASSUME ControlConstants ==
    /\ BASE > 3 /\ Epochs \subseteq Nat /\ \A k \in Epochs : FitsIn(k, EPOCH)
    /\ Credit \in Nat \ {0} /\ MaxMessages \in Nat

\* ControlMessage: Hello has no epoch.
Messages == {<<"Report", k>> : k \in Epochs} \cup {<<"Hello">>}

VARIABLES
    sent,        \* messages write_message was called with
    unsent,      \* bytes of the last of them the stream has not taken
    writer,      \* "open", "failed", "aborted"
    stream,      \* bytes taken and not yet read
    lost,        \* the connection is lost
    part,        \* bytes of a message read_message has so far
    received,    \* messages it has returned
    reader       \* "open", "ended", "aborted"

writing == <<sent, unsent, writer>>
reading == <<part, received, reader>>
controlVars == <<writing, stream, lost, reading>>

-----------------------------------------------------------------------------
REPORT == 2
HELLO  == 3

encode(msg) == IF msg[1] = "Report" THEN <<REPORT>> \o BigEndian(msg[2], EPOCH) ELSE <<HELLO>>

ControlInit ==
    /\ sent = <<>> /\ unsent = <<>> /\ writer = "open"
    /\ stream = <<>> /\ lost = FALSE
    /\ part = <<>> /\ received = <<>> /\ reader = "open"

-----------------------------------------------------------------------------
(* The writer: run_report_sender, or run_alice with its Hello.             *)

WriteMessage(msg) ==
    /\ writer = "open" /\ unsent = <<>> /\ ~lost
    /\ Len(sent) < MaxMessages
    /\ sent' = Append(sent, msg)
    /\ unsent' = encode(msg)
    /\ UNCHANGED <<writer, stream, lost, reading>>

\* The stream takes the first n bytes; rest is what is left to write.
WritePiece(n, rest) ==
    /\ writer = "open" /\ ~lost
    /\ n <= Len(unsent) /\ n + Len(stream) <= Credit
    /\ stream' = stream \o SubSeq(unsent, 1, n)
    /\ unsent' = rest
    /\ UNCHANGED <<sent, writer, lost, reading>>

\* Slip: write for write_all.
WriteOnce == \E n \in 1..Credit : WritePiece(n, <<>>)
WriteAll == \E n \in 1..Credit : WritePiece(n, SubSeq(unsent, n + 1, Len(unsent)))

\* The connection is lost, or the other end has dropped its RecvStream.
WriteFails ==
    /\ writer = "open" /\ (lost \/ reader = "aborted")
    /\ writer' = "failed"
    /\ UNCHANGED <<sent, unsent, stream, lost, reading>>

\* conn.closed() has returned, and the task is aborted wherever it is in its write.
WriterAborted ==
    /\ writer = "open" /\ lost
    /\ writer' = "aborted"
    /\ UNCHANGED <<sent, unsent, stream, lost, reading>>

-----------------------------------------------------------------------------
(* The way: what is not yet with the reader when the connection is lost    *)
(* does not come.                                                          *)

ConnectionLost ==
    /\ ~lost
    /\ lost' = TRUE
    /\ \E n \in 0..Len(stream) : stream' = SubSeq(stream, 1, n)
    /\ UNCHANGED <<writing, reading>>

-----------------------------------------------------------------------------
(* The reader: run_report_receiver around read_message.                    *)

Tag ==
    /\ reader = "open" /\ part = <<>> /\ stream # <<>>
    /\ stream' = Tail(stream)
    /\ CASE Head(stream) = REPORT ->
              part' = <<REPORT>> /\ UNCHANGED <<received, reader>>
         [] Head(stream) = HELLO ->
              received' = Append(received, <<"Hello">>) /\ UNCHANGED <<part, reader>>
         [] OTHER ->
              reader' = "ended" /\ UNCHANGED <<part, received>>
    /\ UNCHANGED <<writing, lost>>

\* n more bytes of the epoch; the message is whole when complete holds of what is there.
EpochBytes(n, complete(_)) ==
    LET got == part \o SubSeq(stream, 1, n)
    IN  /\ reader = "open" /\ part # <<>>
        /\ n <= Len(stream) /\ Len(got) <= 1 + EPOCH
        /\ stream' = SubSeq(stream, n + 1, Len(stream))
        /\ IF complete(got)
           THEN part' = <<>> /\ received' = Append(received, <<"Report", Value(Tail(got))>>)
           ELSE part' = got /\ UNCHANGED received
        /\ UNCHANGED <<writing, lost, reader>>

\* Slip: one read, of whatever has come.
ReadOnce == \E n \in 1..EPOCH : EpochBytes(n, LAMBDA got : TRUE)
ReadU64 == \E n \in 1..EPOCH : EpochBytes(n, LAMBDA got : Len(got) = 1 + EPOCH)

\* No byte is left and none will come: read_u8 or read_u64 fails, the loop is left.
ReadFails ==
    /\ reader = "open" /\ stream = <<>> /\ lost
    /\ reader' = "ended"
    /\ UNCHANGED <<writing, stream, lost, part, received>>

\* The end of a contact aborts the task.
ReaderAborted ==
    /\ reader = "open"
    /\ reader' = "aborted"
    /\ UNCHANGED <<writing, stream, lost, part, received>>

-----------------------------------------------------------------------------
WriterRuns == WriteAll \/ WriteFails
ReaderRuns == Tag \/ ReadU64 \/ ReadFails

ControlNext ==
    \/ \E msg \in Messages : WriteMessage(msg)
    \/ WriterRuns \/ WriterAborted \/ ConnectionLost \/ ReaderRuns \/ ReaderAborted

\* Both tasks are polled.
ControlSpec == ControlInit /\ [][ControlNext]_controlVars
               /\ WF_controlVars(WriterRuns) /\ WF_controlVars(ReaderRuns)

-----------------------------------------------------------------------------
Encoded(msgs) == FlattenSeq([i \in DOMAIN msgs |-> encode(msgs[i])])

\* While the connection holds, what the reader has made of the stream, what it is in the
\* middle of, what is on its way and what is still to be written are, in this order, the
\* messages written, however the bytes were cut up (control.rs:33, 36, 47: read_u64 and
\* write_all).  After a loss it is the beginning of that.
ReaderInStep ==
    LET bytes == Encoded(received) \o part \o stream
    IN  IF lost THEN IsPrefix(bytes, Encoded(sent)) ELSE bytes \o unsent = Encoded(sent)

\* The stream is a channel of messages (MessageChannel): never torn, doubled or made up,
\* and each is delivered unless the stream ends.
Channel == INSTANCE MessageChannel WITH broken <- lost \/ writer # "open" \/ reader = "aborted"
ImplementsChannel == Channel!Spec
=============================================================================
