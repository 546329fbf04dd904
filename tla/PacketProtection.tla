--------------------------- MODULE PacketProtection ---------------------------
(***************************************************************************)
(* Packet protection (quic-mls/src/packet_key.rs, header_key.rs and the    *)
(* Initial keys of keys.rs): the two sides of a connection seal packets    *)
(* under the keys of their direction and open what arrives, which may be   *)
(* cut, damaged, repeated, or sent back to where it came from.             *)
(*                                                                         *)
(* A byte is the set of the bits set in it.  Sealing is symbolic: a byte   *)
(* of a sealed payload is its place in it, and only all of them, unchanged *)
(* and under the same key, nonce and header, open.                         *)
(***************************************************************************)
EXTENDS Integers, Sequences

CONSTANTS
    PN,           \* bytes of a packet number (8)
    SAMPLE,       \* bytes of a header-protection sample (16)
    TAG,          \* bytes of an AEAD tag (16)
    Payloads,     \* sequences
    Cids,         \* connection IDs
    FirstPn,      \* packets each side has sealed before, all of which have arrived
    MaxPackets,   \* bound on the packets each side seals
    Iv(_),        \* HKDF of a secret with "quic iv", a sequence of bytes
    Mask(_, _)    \* AES of a sample under a header key: a sequence of bytes

ASSUME ProtectionConstants ==
    /\ PN \in Nat \ 0..3 /\ SAMPLE \in Nat \ {0}
    /\ FirstPn \in Nat /\ MaxPackets \in Nat /\ FirstPn <= MaxPackets
    /\ TAG \in 0..SAMPLE
    /\ \A p \in Payloads : p \in Seq(Nat)

VARIABLES
    dst_cid,   \* the connection ID the Initial keys are derived from
    next_pn,   \* packet number each side uses next
    received,  \* quinn's rx_packet: the largest number each side has opened
    used,      \* key and nonce of every packet each side seals from the first
    wire,      \* the packet under way, if any: where from, what it was, its bytes
    whole,     \* it is as it was sent
    seen       \* what the last receiver made of it

vars == <<dst_cid, next_pn, received, used, wire, whole, seen>>

Sides   == {"Client", "Server"}
Peer(s) == IF s = "Client" THEN "Server" ELSE "Client"
Numbers == FirstPn..MaxPackets
Byte    == SUBSET (0..7)
Xor(a, b) == (a \ b) \cup (b \ a)

-----------------------------------------------------------------------------
(* Keys.                                                                   *)

derive_keys_from_secret(secret) ==
    [key |-> <<secret, "quic key">>, iv |-> Iv(secret), hp |-> <<secret, "quic hp">>]

derive_initial_secrets(cid) ==
    [client |-> <<cid, "client in">>, server |-> <<cid, "server in">>]

\* Slip: a side receives under the keys it sends with.
OneKeyEach(client, server, side) ==
    LET mine == derive_keys_from_secret(IF side = "Client" THEN client ELSE server)
    IN  [local |-> mine, remote |-> mine]

derive_directional_keys(client, server, side) ==
    LET c == derive_keys_from_secret(client)
        s == derive_keys_from_secret(server)
    IN  IF side = "Client" THEN [local |-> c, remote |-> s] ELSE [local |-> s, remote |-> c]

derive_initial_keys(cid, side) ==
    LET secrets == derive_initial_secrets(cid)
    IN  derive_directional_keys(secrets.client, secrets.server, side)

-----------------------------------------------------------------------------
(* packet_key.rs.                                                          *)

ToBeBytes(pn) ==
    [i \in 1..PN |-> {b \in 0..7 : ((pn \div 256^(PN - i)) \div 2^b) % 2 = 1}]

\* Slip: the packet number is left out.
IvAlone(iv, bytes) == iv
\* nonce_for: the number goes into the last bytes of the IV.
nonce_for(iv, bytes) ==
    [i \in DOMAIN iv |->
        IF i > Len(iv) - PN THEN Xor(iv[i], bytes[i - (Len(iv) - PN)]) ELSE iv[i]]

\* A byte in the clear, and the i-th byte of a sealed payload with its tag.
Plain(b) == [byte |-> b, sealed |-> <<>>, at |-> 0]
With(cell, b) == [byte |-> b, sealed |-> cell.sealed, at |-> cell.at]
Sealed(s) ==
    [i \in 1..(Len(s.payload) + TAG) |-> [byte |-> {}, sealed |-> <<s>>, at |-> i]]

Under(keys, pn, header, payload) ==
    [key |-> keys.key, nonce |-> nonce_for(keys.iv, ToBeBytes(pn)),
     header |-> header, payload |-> payload]

\* Aes128GcmPacketKey::encrypt: the header stays, the rest is sealed.
EncryptPayload(keys, pn, header, payload) ==
    [i \in DOMAIN header |-> Plain(header[i])] \o Sealed(Under(keys, pn, header, payload))

\* Aes128GcmPacketKey::decrypt, <<>> if the tag does not match.
Open(keys, pn, header, rest) ==
    IF /\ rest # <<>> /\ rest[1].sealed # <<>>
       /\ LET s == rest[1].sealed[1]
          IN  rest = Sealed(s) /\ s = Under(keys, pn, header, s.payload)
    THEN <<rest[1].sealed[1].payload>>
    ELSE <<>>

DecryptPayload(keys, pn, header, rest) == Open(keys, pn, header, rest)

-----------------------------------------------------------------------------
(* header_key.rs.  A packet is a sequence from 1; offsets are from 0.      *)

PnLen(first) == 1 + (IF 0 \in first THEN 1 ELSE 0) + (IF 1 \in first THEN 2 ELSE 0)

\* Slip: the sample is not asked for.
NoSample == 0
sample_size == SAMPLE

\* compute_mask: from four bytes behind where the packet number begins.
compute_mask(hp, pn_offset, packet) ==
    Mask(hp, [i \in 1..SAMPLE |-> IF pn_offset + 4 + i \in DOMAIN packet
                                  THEN packet[pn_offset + 4 + i] ELSE Plain({})])

\* Slip: the whole first byte is masked.
MaskWhole(first, mask) == Xor(first, mask)
\* xor_first_byte: four bits of a long header, five of a short one.
xor_first_byte(first, mask) ==
    Xor(first, mask \cap (IF 7 \in first THEN 0..3 ELSE 0..4))

\* xor_pn_bytes, and the first byte; the rest stays.
MaskedByte(pn_offset, i, byte, mask, pn_len) ==
    IF i = 1 THEN xor_first_byte(byte, mask[1])
    ELSE IF i \in (pn_offset + 1)..(pn_offset + pn_len)
         THEN Xor(byte, mask[1 + i - pn_offset])
         ELSE byte

Masked(pn_offset, packet, mask, pn_len) ==
    [i \in DOMAIN packet |->
        With(packet[i], MaskedByte(pn_offset, i, packet[i].byte, mask, pn_len))]

DecryptHeader(hp, pn_offset, packet) ==
    LET mask == compute_mask(hp, pn_offset, packet)
    IN  Masked(pn_offset, packet, mask, PnLen(xor_first_byte(packet[1].byte, mask[1])))

\* Slip: the length is read off the masked byte.
EncryptAsDecrypt(hp, pn_offset, packet) == DecryptHeader(hp, pn_offset, packet)
EncryptHeader(hp, pn_offset, packet) ==
    LET mask == compute_mask(hp, pn_offset, packet)
    IN  Masked(pn_offset, packet, mask, PnLen(packet[1].byte))

-----------------------------------------------------------------------------
(* quinn-proto, which calls the two.                                       *)

PN_OFFSET == 2      \* behind the first byte and what stands for the rest of the header

\* Long: form and fixed bit.  Short: fixed bit, and any spin and key-phase bit.
FirstBytes ==
    {f \cup l : f \in {{6, 7}} \cup {{6} \cup s : s \in SUBSET {2, 5}}, l \in SUBSET {0, 1}}

Header(first, pn) == <<first, {}>> \o SubSeq(ToBeBytes(pn), PN - PnLen(first) + 1, PN)

\* d < 256^len / 2
Within(d, len) == d \div 256^(len - 1) < 128

\* PacketNumber::expand: the number in a window around the one expected next that ends in
\* the bytes read off the wire.  A number that nobody uses opens nothing.
Expands(n, bytes, expected) ==
    /\ SubSeq(ToBeBytes(n), PN - Len(bytes) + 1, PN) = bytes
    /\ Within(n - expected - 1, Len(bytes)) /\ Within(expected - n, Len(bytes))
Known(bytes, expected) == \E n \in Numbers : Expands(n, bytes, expected)
FromBeBytes(bytes, expected) == CHOOSE n \in Numbers : Expands(n, bytes, expected)

Packet(from, first, pn, payload, bytes) ==
    [from |-> from, first |-> first, pn |-> pn, payload |-> payload, bytes |-> bytes]

Seen(by, tag_start, pn, payload) ==
    [by |-> by, tag_start |-> tag_start, pn |-> pn, payload |-> payload]
Unseen == Seen("nobody", 0, 0, <<>>)

Init ==
    /\ dst_cid \in Cids
    /\ next_pn = [s \in Sides |-> FirstPn]
    /\ received = [s \in Sides |-> IF FirstPn = 0 THEN 0 ELSE FirstPn - 1]
    /\ used = [s \in Sides |-> <<>>] /\ wire = <<>> /\ whole = TRUE /\ seen = Unseen

\* A number is sent in bytes enough to be told from half a window of them behind the last
\* acknowledged, which the peer has received.  Padding leaves a sample behind it.
Send(s, first, payload) ==
    LET keys   == derive_initial_keys(dst_cid, s).local
        pn     == next_pn[s]
        header == Header(first, pn)
        packet == EncryptPayload(keys, pn, header, payload)
    IN  /\ wire = <<>> /\ pn < MaxPackets
        /\ Within(pn - received[Peer(s)], PnLen(first))
        /\ PnLen(first) + Len(payload) + TAG >= 4 + SAMPLE
        /\ next_pn' = [next_pn EXCEPT ![s] = @ + 1]
        /\ used' = [used EXCEPT ![s] = Append(@, <<keys.key, nonce_for(keys.iv, ToBeBytes(pn))>>)]
        /\ wire' = <<Packet(s, first, pn, payload, EncryptHeader(keys.hp, PN_OFFSET, packet))>>
        /\ UNCHANGED <<dst_cid, received, whole, seen>>

\* A packet too short for the sample is dropped before its header is looked at.
Receive(s) ==
    LET keys   == derive_initial_keys(dst_cid, s).remote
        packet == DecryptHeader(keys.hp, PN_OFFSET, wire[1].bytes)
        split  == PN_OFFSET + PnLen(packet[1].byte)
        header == [i \in 1..split |-> packet[i].byte]
        bytes  == SubSeq(header, PN_OFFSET + 1, split)
        pn     == FromBeBytes(bytes, received[s] + 1)
        rest   == SubSeq(packet, split + 1, Len(packet))
        opened == IF Known(bytes, received[s] + 1)
                  THEN DecryptPayload(keys, pn, header, rest) ELSE <<>>
    IN  /\ wire # <<>> /\ Len(wire[1].bytes) >= PN_OFFSET + 4 + sample_size
        /\ seen' = Seen(s, Len(rest) - TAG, IF opened = <<>> THEN 0 ELSE pn, opened)
        /\ received' = IF opened # <<>> /\ pn > received[s]
                       THEN [received EXCEPT ![s] = pn] ELSE received
        /\ UNCHANGED <<dst_cid, next_pn, used, wire, whole>>

\* The packet loses its end, or a bit of its header or a byte of the rest changes.
Becomes(bytes) ==
    wire' = <<Packet(wire[1].from, wire[1].first, wire[1].pn, wire[1].payload, bytes)>>

Damage ==
    LET bytes == wire[1].bytes
    IN  /\ wire # <<>> /\ whole
        /\ \/ \E n \in (PN_OFFSET + 4)..(Len(bytes) - 1) : Becomes(SubSeq(bytes, 1, n))
           \/ \E i \in {1, PN_OFFSET + 1}, b \in {0, 2} :
                 Becomes([bytes EXCEPT ![i] = With(bytes[i], Xor(bytes[i].byte, {b}))])
           \/ Becomes([bytes EXCEPT ![Len(bytes)] = With(bytes[Len(bytes)], {0})])
        /\ whole' = FALSE /\ seen' = Unseen
        /\ UNCHANGED <<dst_cid, next_pn, received, used>>

\* The last of it has been received.
Gone ==
    /\ wire # <<>>
    /\ wire' = <<>> /\ whole' = TRUE /\ seen' = Unseen
    /\ UNCHANGED <<dst_cid, next_pn, received, used>>

Next ==
    \/ \E s \in Sides, f \in FirstBytes, p \in Payloads : Send(s, f, p)
    \/ \E s \in Sides : Receive(s)
    \/ Damage \/ Gone

Spec == Init /\ [][Next]_vars

-----------------------------------------------------------------------------
\* What a side seals, the other opens, whatever the mask and however long the packet
\* number (header_key.rs:18, 26: the two orders in which first byte and number are
\* unmasked and masked).
WholePacketOpens ==
    whole /\ wire # <<>> /\ seen.by \in Sides \ {wire[1].from} =>
        seen.pn = wire[1].pn /\ seen.payload = <<wire[1].payload>>

\* And nothing else opens: not a packet that was changed, not one's own (keys.rs:26).
OnlyThePeersOpens ==
    seen.payload # <<>> => whole /\ seen.by # wire[1].from /\ seen.payload = <<wire[1].payload>>

\* No key seals two packets under the same nonce (packet_key.rs:21).
NoncesAreFresh ==
    \A s, t \in Sides : \A i \in DOMAIN used[s], j \in DOMAIN used[t] :
        used[s][i] = used[t][j] => s = t /\ i = j

\* The bits of the first byte that say what a datagram is are not masked: the form, and
\* the fixed bit by which PreambleSocket tells a packet from a preamble
\* (header_key.rs:49, preamble.rs:37).
FormStaysVisible ==
    wire # <<>> /\ whole =>
        /\ wire[1].bytes[1].byte \cap {6, 7} = wire[1].first \cap {6, 7}
        /\ wire[1].bytes[1].byte \cap {6, 7} # {}

\* decrypt has a tag to split off, however short the packet (packet_key.rs:56, an
\* unsigned subtraction).
TagFits == seen.tag_start >= 0
=============================================================================
