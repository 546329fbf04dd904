----------------------- MODULE PacketProtection_proofs -----------------------
(***************************************************************************)
(* Header protection and nonces for every key, mask, packet and packet     *)
(* number: what one side masks the other unmasks, packet numbers do not    *)
(* share nonces, and neither the form of a packet nor the place of its tag *)
(* is lost.  What opens is what the peer sealed, and nothing else.         *)
(***************************************************************************)
EXTENDS PacketProtection, TLAPS

LEMMA XorTwice == ASSUME NEW a, NEW m PROVE Xor(Xor(a, m), m) = a
BY DEF Xor

LEMMA XorInjective == ASSUME NEW a, NEW b, NEW m, Xor(m, a) = Xor(m, b) PROVE a = b
<1>1. \A x : x \in Xor(m, a) <=> x \in Xor(m, b)
  OBVIOUS
<1>2. \A x : x \in a <=> x \in b
  BY <1>1 DEF Xor
<1> QED BY <1>2

\* Packet numbers that differ have nonces that differ, under any IV (packet_key.rs:21-29).
THEOREM NoncesDiffer ==
    ASSUME NEW S, NEW iv \in Seq(S), Len(iv) >= PN,
           NEW a, NEW b, DOMAIN a = 1..PN, DOMAIN b = 1..PN, a = [i \in 1..PN |-> a[i]],
           b = [i \in 1..PN |-> b[i]], nonce_for(iv, a) = nonce_for(iv, b)
    PROVE  a = b
<1>1. ASSUME NEW i \in 1..PN PROVE a[i] = b[i]
  <2> DEFINE k == i + (Len(iv) - PN)
  <2>1. PN \in Nat /\ Len(iv) \in Nat /\ DOMAIN iv = 1..Len(iv)
    BY ProtectionConstants
  <2>2. k \in DOMAIN iv /\ k > Len(iv) - PN /\ k - (Len(iv) - PN) = i
    BY <2>1
  <2>3. nonce_for(iv, a)[k] = Xor(iv[k], a[i]) /\ nonce_for(iv, b)[k] = Xor(iv[k], b[i])
    <3> HIDE DEF k
    <3> QED BY <2>2 DEF nonce_for
  <2> QED BY <2>3, XorInjective
<1> QED BY <1>1

-----------------------------------------------------------------------------
LEMMA LengthBounds == ASSUME NEW f PROVE PnLen(f) \in 1..4
BY DEF PnLen

\* Masking the first byte is undone by masking it, and leaves the bits it must.
LEMMA FirstByteTwice ==
    ASSUME NEW f, NEW m
    PROVE  /\ xor_first_byte(xor_first_byte(f, m), m) = f
           /\ xor_first_byte(f, m) \cap {6, 7} = f \cap {6, 7}
<1>1. ~(7 \in 0..3) /\ ~(7 \in 0..4) /\ ~(6 \in 0..3) /\ ~(6 \in 0..4)
  OBVIOUS
<1> DEFINE M == m \cap (IF 7 \in f THEN 0..3 ELSE 0..4)
<1>2. ~(7 \in M) /\ ~(6 \in M)
  BY <1>1
<1>3. xor_first_byte(f, m) = Xor(f, M)
  BY DEF xor_first_byte
<1>4. \A x : ~(x \in M) => (x \in Xor(f, M) <=> x \in f)
  BY DEF Xor
<1>5. (7 \in xor_first_byte(f, m)) <=> 7 \in f
  BY <1>2, <1>3, <1>4
<1>6. xor_first_byte(xor_first_byte(f, m), m) = Xor(Xor(f, M), M)
  BY <1>3, <1>5 DEF xor_first_byte
<1>7. xor_first_byte(f, m) \cap {6, 7} = f \cap {6, 7}
  BY <1>2, <1>3, <1>4
<1> QED BY <1>6, <1>7, XorTwice

\* A packet of n cells.
IsCell(c)     == c = [byte |-> c.byte, sealed |-> c.sealed, at |-> c.at]
OfCells(p, n) == p = [i \in 1..n |-> p[i]] /\ \A i \in 1..n : IsCell(p[i])

\* Masking touches neither the sample nor more than the bytes of the cells, and undoes
\* itself.
UndoesItself(hp, off, n, packet, len) ==
    LET mask == compute_mask(hp, off, packet)
        once == Masked(off, packet, mask, len)
    IN  /\ OfCells(once, n)
        /\ compute_mask(hp, off, once) = mask
        /\ once[1].byte = xor_first_byte(packet[1].byte, mask[1])
        /\ Masked(off, once, mask, len) = packet
        /\ \A i \in 1..n : /\ once[i].sealed = packet[i].sealed
                           /\ once[i].at = packet[i].at
                           /\ i > off + 4 => once[i] = packet[i]

LEMMA MaskedTwice ==
    ASSUME NEW hp, NEW off \in Nat \ {0}, NEW n \in Nat, n >= off + 4,
           NEW packet, OfCells(packet, n), NEW len \in 1..4
    PROVE  UndoesItself(hp, off, n, packet, len)
<1> DEFINE mask == compute_mask(hp, off, packet)
           once == Masked(off, packet, mask, len)
<1>1. 1 \in 1..n /\ DOMAIN packet = 1..n
  BY DEF OfCells
<1> HIDE DEF mask
<1>2. DOMAIN once = 1..n /\ once = [i \in 1..n |-> once[i]]
  BY <1>1 DEF Masked
<1>3. ASSUME NEW i \in 1..n
      PROVE  once[i] = [byte |-> MaskedByte(off, i, packet[i].byte, mask, len),
                        sealed |-> packet[i].sealed, at |-> packet[i].at]
  BY <1>1 DEF Masked, With
<1> HIDE DEF once
<1>3a. ASSUME NEW i \in 1..n
       PROVE  /\ once[i].byte = MaskedByte(off, i, packet[i].byte, mask, len)
              /\ once[i].sealed = packet[i].sealed /\ once[i].at = packet[i].at
  <2> DEFINE m == MaskedByte(off, i, packet[i].byte, mask, len)
  <2>1. once[i] = [byte |-> m, sealed |-> packet[i].sealed, at |-> packet[i].at]
    BY <1>3
  <2> HIDE DEF m
  <2>2. once[i].byte = m /\ once[i].sealed = packet[i].sealed /\ once[i].at = packet[i].at
    BY <2>1
  <2> QED BY <2>2 DEF m
<1>4. OfCells(once, n)
  BY <1>2, <1>3 DEF OfCells, IsCell
<1>5. ASSUME NEW i \in 1..n, i > off + 4 PROVE once[i] = packet[i]
  <2>1. i # 1 /\ ~(i \in (off + 1)..(off + len))
    BY <1>5
  <2>2. MaskedByte(off, i, packet[i].byte, mask, len) = packet[i].byte
    BY <2>1 DEF MaskedByte
  <2> QED BY <1>3, <2>2 DEF OfCells, IsCell
<1>6. compute_mask(hp, off, once) = mask
  <2> DEFINE Sample(p) == [i \in 1..SAMPLE |-> IF off + 4 + i \in DOMAIN p
                                               THEN p[off + 4 + i] ELSE Plain({})]
  <2>1. ASSUME NEW i \in 1..SAMPLE PROVE Sample(once)[i] = Sample(packet)[i]
    <3>1. SAMPLE \in Nat /\ off + 4 + i > off + 4
      BY ProtectionConstants
    <3>2. off + 4 + i \in 1..n => once[off + 4 + i] = packet[off + 4 + i]
      BY <1>5, <3>1
    <3> QED BY <1>1, <1>2, <3>2
  <2>2. Sample(once) = Sample(packet)
    BY <2>1
  <2> QED BY <2>2 DEF compute_mask, mask
<1>7. once[1].byte = xor_first_byte(packet[1].byte, mask[1])
  <2>1. once[1].byte = MaskedByte(off, 1, packet[1].byte, mask, len)
    BY <1>1, <1>3a
  <2> QED BY <2>1 DEF MaskedByte
<1>8. ASSUME NEW i \in 1..n PROVE Masked(off, once, mask, len)[i] = packet[i]
  <2> DEFINE b == packet[i].byte
  <2>1. packet[i] = [byte |-> b, sealed |-> packet[i].sealed, at |-> packet[i].at]
    BY DEF OfCells, IsCell
  <2>2. Masked(off, once, mask, len)[i] =
            [byte |-> MaskedByte(off, i, MaskedByte(off, i, b, mask, len), mask, len),
             sealed |-> packet[i].sealed, at |-> packet[i].at]
    BY <1>2, <1>3 DEF Masked, With
  <2>3. MaskedByte(off, i, MaskedByte(off, i, b, mask, len), mask, len) = b
    BY XorTwice, FirstByteTwice DEF MaskedByte
  <2> QED BY <2>1, <2>2, <2>3
<1>9. Masked(off, once, mask, len) = packet
  <2>1. Masked(off, once, mask, len) = [i \in 1..n |-> Masked(off, once, mask, len)[i]]
    BY <1>2 DEF Masked
  <2> QED BY <1>8, <2>1 DEF OfCells
<1>10. \A i \in 1..n : /\ once[i].sealed = packet[i].sealed
                       /\ once[i].at = packet[i].at
                       /\ i > off + 4 => once[i] = packet[i]
  BY <1>3a, <1>5
<1> QED BY <1>4, <1>6, <1>7, <1>9, <1>10 DEF once, mask, UndoesItself

\* decrypt undoes encrypt (header_key.rs:18-31): it finds the same sample, though it does
\* not know yet how long the packet number is, hence the same mask, hence the length.
THEOREM HeaderRoundTrip ==
    ASSUME NEW hp, NEW off \in Nat \ {0}, NEW n \in Nat, n >= off + 4,
           NEW packet, OfCells(packet, n)
    PROVE  DecryptHeader(hp, off, EncryptHeader(hp, off, packet)) = packet
<1> DEFINE mask  == compute_mask(hp, off, packet)
           len   == PnLen(packet[1].byte)
           wired == Masked(off, packet, mask, len)
<1>1. len \in 1..4
  BY LengthBounds
<1>2. /\ compute_mask(hp, off, wired) = mask /\ Masked(off, wired, mask, len) = packet
      /\ wired[1].byte = xor_first_byte(packet[1].byte, mask[1])
  <2> HIDE DEF len
  <2>1. UndoesItself(hp, off, n, packet, len)
    BY <1>1, MaskedTwice
  <2> QED BY <2>1 DEF UndoesItself
<1>3. EncryptHeader(hp, off, packet) = wired
  BY DEF EncryptHeader
<1> HIDE DEF mask, wired
<1>4. PnLen(xor_first_byte(wired[1].byte, mask[1])) = len
  BY <1>2, FirstByteTwice
<1> QED BY <1>2, <1>3, <1>4 DEF DecryptHeader

\* And encrypt undoes decrypt: two packets a key unmasks to the same were the same.
MasksBack(hp, off, n, bytes) ==
    LET packet == DecryptHeader(hp, off, bytes)
    IN  /\ EncryptHeader(hp, off, packet) = bytes
        /\ OfCells(packet, n)
        /\ \A i \in 1..n : packet[i].sealed = bytes[i].sealed /\ packet[i].at = bytes[i].at

LEMMA UnmaskedOnce ==
    ASSUME NEW hp, NEW off \in Nat \ {0}, NEW n \in Nat, n >= off + 4,
           NEW bytes, OfCells(bytes, n)
    PROVE  MasksBack(hp, off, n, bytes)
<1> DEFINE mask    == compute_mask(hp, off, bytes)
           once(l) == Masked(off, bytes, mask, l)
           len     == PnLen(xor_first_byte(bytes[1].byte, mask[1]))
<1>1. ASSUME NEW l \in 1..4
      PROVE  /\ OfCells(once(l), n)
             /\ compute_mask(hp, off, once(l)) = mask
             /\ once(l)[1].byte = xor_first_byte(bytes[1].byte, mask[1])
             /\ Masked(off, once(l), mask, l) = bytes
             /\ \A i \in 1..n : /\ once(l)[i].sealed = bytes[i].sealed
                                /\ once(l)[i].at = bytes[i].at
                                /\ i > off + 4 => once(l)[i] = bytes[i]
  <2>1. UndoesItself(hp, off, n, bytes, l)
    BY MaskedTwice
  <2> QED BY <2>1 DEF UndoesItself
<1>2. len \in 1..4
  BY LengthBounds
<1>3. DecryptHeader(hp, off, bytes) = once(len)
  BY DEF DecryptHeader
<1> DEFINE packet == once(len)
<1> HIDE DEF once
<1>4. PnLen(packet[1].byte) = len
  BY <1>1, <1>2
<1> HIDE DEF len
<1>5. EncryptHeader(hp, off, packet) = Masked(off, packet, mask, len)
  BY <1>1, <1>2, <1>4 DEF EncryptHeader
<1>6. /\ Masked(off, packet, mask, len) = bytes /\ OfCells(packet, n)
      /\ \A i \in 1..n : packet[i].sealed = bytes[i].sealed /\ packet[i].at = bytes[i].at
  BY <1>1, <1>2
<1> QED BY <1>3, <1>5, <1>6 DEF MasksBack

-----------------------------------------------------------------------------
(* The invariant: what was sent has its first byte masked, and a packet is *)
(* a sequence of bytes.                                                    *)

IsPacket(bytes) == \E S : bytes \in Seq(S)

WireInv ==
    /\ wire # <<>> =>
        /\ wire = <<wire[1]>>
        /\ IsPacket(wire[1].bytes)
        /\ wire[1].first \in FirstBytes
        /\ whole => \E m : wire[1].bytes[1].byte = xor_first_byte(wire[1].first, m)
    /\ TagFits

LEMMA MaskedIsPacket ==
    ASSUME NEW off, NEW bytes, IsPacket(bytes), NEW mask, NEW len
    PROVE  /\ IsPacket(Masked(off, bytes, mask, len))
           /\ Len(Masked(off, bytes, mask, len)) = Len(bytes)
<1>1. DOMAIN bytes = 1..Len(bytes) /\ Len(bytes) \in Nat
  BY DEF IsPacket
<1>2. Masked(off, bytes, mask, len) \in Seq({Masked(off, bytes, mask, len)[i] : i \in 1..Len(bytes)})
  BY <1>1 DEF Masked
<1>3. Len(Masked(off, bytes, mask, len)) = Len(bytes)
  BY <1>1 DEF Masked
<1> QED BY <1>2, <1>3 DEF IsPacket

\* An encrypted payload is a packet, and begins with the header's first byte.
LEMMA EncryptedIsPacket ==
    ASSUME NEW keys, NEW pn, NEW header, NEW H, header \in Seq(H), header # <<>>,
           NEW payload \in Payloads
    PROVE  LET packet == EncryptPayload(keys, pn, header, payload)
           IN  /\ IsPacket(packet)
               /\ Len(packet) = Len(header) + Len(payload) + TAG
               /\ packet[1].byte = header[1]
<1> DEFINE front == [i \in DOMAIN header |-> Plain(header[i])]
           s == Under(keys, pn, header, payload)
           Cells == [byte : H \cup {{}}, sealed : {<<>>, <<s>>}, at : Nat]
<1>1. Len(header) \in Nat /\ DOMAIN header = 1..Len(header) /\ 1 \in 1..Len(header)
  OBVIOUS
<1>2. front \in Seq(Cells) /\ Len(front) = Len(header) /\ front[1].byte = header[1]
  <2>1. \A i \in 1..Len(header) : Plain(header[i]) \in Cells /\ Plain(header[i]).byte = header[i]
    BY DEF Plain
  <2> HIDE DEF Cells
  <2> QED BY <1>1, <2>1
<1>3. s.payload = payload /\ Len(payload) \in Nat /\ TAG \in Nat
  <2>1. payload \in Seq(Nat) /\ TAG \in Nat
    BY ProtectionConstants
  <2> QED BY <2>1 DEF Under
<1>4. Sealed(s) \in Seq(Cells) /\ Len(Sealed(s)) = Len(payload) + TAG
  <2> HIDE DEF s
  <2> QED BY <1>3 DEF Sealed
<1>5. EncryptPayload(keys, pn, header, payload) = front \o Sealed(s)
  BY DEF EncryptPayload
<1> HIDE DEF front, s, Cells
<1>6. /\ front \o Sealed(s) \in Seq(Cells)
      /\ Len(front \o Sealed(s)) = Len(front) + Len(Sealed(s))
      /\ (front \o Sealed(s))[1] = front[1]
  BY <1>1, <1>2, <1>4
<1>7. Len(header) + (Len(payload) + TAG) = Len(header) + Len(payload) + TAG
  BY <1>1, <1>3
<1> QED BY <1>2, <1>4, <1>5, <1>6, <1>7 DEF IsPacket

LEMMA HeaderBegins ==
    ASSUME NEW first, NEW pn
    PROVE  /\ Header(first, pn) \in Seq({first} \cup Byte)
           /\ Header(first, pn) # <<>> /\ Header(first, pn)[1] = first
           /\ Len(Header(first, pn)) \in Nat \ {0}
<1> DEFINE n == PnLen(first)
<1>1. n \in 1..4 /\ PN \in Nat /\ PN >= 4
  BY LengthBounds, ProtectionConstants
<1>2. ToBeBytes(pn) \in Seq(Byte) /\ Len(ToBeBytes(pn)) = PN
  BY <1>1 DEF ToBeBytes, Byte
<1> HIDE DEF n
<1> DEFINE number == SubSeq(ToBeBytes(pn), PN - n + 1, PN)
           front  == <<first, {}>>
<1>3. number \in Seq({first} \cup Byte)
  BY <1>1, <1>2
<1>4. {} \in Byte
  BY DEF Byte
<1>5. front \in Seq({first} \cup Byte) /\ front # <<>> /\ front[1] = first
  BY <1>4
<1>6. Header(first, pn) = front \o number
  BY DEF Header, n
<1> HIDE DEF number, front
<1>7. ASSUME NEW B, NEW x \in Seq(B), NEW y \in Seq(B), x # <<>>
      PROVE  x \o y \in Seq(B) /\ Len(x \o y) \in Nat \ {0} /\ (x \o y)[1] = x[1]
  BY <1>7
<1>8. /\ front \o number \in Seq({first} \cup Byte)
      /\ Len(front \o number) \in Nat \ {0}
      /\ (front \o number)[1] = first
  <2>1. front \o number \in Seq({first} \cup Byte) /\ Len(front \o number) \in Nat \ {0}
        /\ (front \o number)[1] = front[1]
    BY <1>3, <1>5, <1>7
  <2> QED BY <2>1, <1>5
<1>9. front \o number # <<>>
  BY <1>8
<1> QED BY <1>6, <1>8, <1>9

\* encrypt leaves a packet whose first byte is the masked one.
LEMMA SentIsMasked ==
    ASSUME NEW s, NEW first, NEW payload \in Payloads, Send(s, first, payload)
    PROVE  /\ wire' = <<wire'[1]>> /\ IsPacket(wire'[1].bytes) /\ wire'[1].first = first
           /\ \E m : wire'[1].bytes[1].byte = xor_first_byte(first, m)
<1> DEFINE keys   == derive_initial_keys(dst_cid, s).local
           pn     == next_pn[s]
           header == Header(first, pn)
           packet == EncryptPayload(keys, pn, header, payload)
           mask   == compute_mask(keys.hp, PN_OFFSET, packet)
           bytes  == Masked(PN_OFFSET, packet, mask, PnLen(packet[1].byte))
<1>1. wire' = <<Packet(s, first, pn, payload, bytes)>>
  BY DEF Send, EncryptHeader
<1>2. /\ IsPacket(packet) /\ packet[1].byte = first
      /\ Len(packet) = Len(header) + Len(payload) + TAG
  <2>1. /\ header \in Seq({first} \cup Byte) /\ header # <<>> /\ header[1] = first
    <3> HIDE DEF pn
    <3> QED BY HeaderBegins
  <2> HIDE DEF keys, pn, header
  <2> QED BY <2>1, EncryptedIsPacket
<1>3. 1 \in DOMAIN packet
  <2>1. Len(header) \in Nat \ {0}
    <3> HIDE DEF pn
    <3> QED BY HeaderBegins
  <2>2. Len(payload) \in Nat /\ TAG \in Nat
    <3>1. payload \in Seq(Nat) /\ TAG \in Nat
      BY ProtectionConstants
    <3> QED BY <3>1
  <2> HIDE DEF packet, header
  <2>3. Len(packet) \in Nat \ {0} /\ DOMAIN packet = 1..Len(packet)
    BY <1>2, <2>1, <2>2 DEF IsPacket
  <2> QED BY <2>3
<1> HIDE DEF packet, mask
<1>4. IsPacket(bytes)
  BY <1>2, MaskedIsPacket
<1>5. bytes[1].byte = xor_first_byte(first, mask[1])
  BY <1>2, <1>3 DEF Masked, MaskedByte, With
<1> HIDE DEF bytes
<1> QED BY <1>1, <1>4, <1>5 DEF Packet

\* What decrypt splits off is longer than a tag (packet_key.rs:56), because quinn asks for
\* a sample.
LEMMA ReceiveFitsTag ==
    ASSUME WireInv, NEW s, Receive(s)
    PROVE  TagFits'
<1> DEFINE keys   == derive_initial_keys(dst_cid, s).remote
           packet == DecryptHeader(keys.hp, PN_OFFSET, wire[1].bytes)
           k      == PnLen(packet[1].byte)
           split  == PN_OFFSET + k
           rest   == SubSeq(packet, split + 1, Len(packet))
<1>1. IsPacket(wire[1].bytes) /\ Len(wire[1].bytes) >= PN_OFFSET + 4 + SAMPLE
  BY DEF WireInv, Receive, sample_size
<1>2. IsPacket(packet) /\ Len(packet) = Len(wire[1].bytes)
  <2> HIDE DEF keys
  <2> QED BY <1>1, MaskedIsPacket DEF DecryptHeader
<1>3. k \in 1..4
  BY LengthBounds
<1>4. SAMPLE \in Nat /\ TAG \in 0..SAMPLE
  BY ProtectionConstants
<1>5. seen'.tag_start = Len(rest) - TAG
  BY DEF Receive, Seen
<1> HIDE DEF packet, k
<1>6. Len(rest) = Len(packet) - split
  BY <1>1, <1>2, <1>3, <1>4 DEF IsPacket, PN_OFFSET
<1>7. Len(rest) - TAG >= 0 /\ Len(packet) \in Nat
  BY <1>1, <1>2, <1>3, <1>4, <1>6 DEF IsPacket, PN_OFFSET
<1> HIDE DEF rest, split
<1>8. seen'.tag_start >= 0
  BY <1>5, <1>7
<1> QED BY <1>8 DEF TagFits

LEMMA DamageLeavesAPacket ==
    ASSUME WireInv, Damage
    PROVE  wire' = <<wire'[1]>> /\ IsPacket(wire'[1].bytes) /\ wire'[1].first = wire[1].first
<1> DEFINE s == wire[1].bytes
<1>1. PICK S : s \in Seq(S)
  BY DEF WireInv, Damage, IsPacket
<1>2. Len(s) \in Nat /\ DOMAIN s = 1..Len(s)
  BY <1>1
<1>3. ASSUME NEW n \in 6..(Len(s) - 1) PROVE IsPacket(SubSeq(s, 1, n))
  <2> HIDE DEF s
  <2> QED BY <1>1, <1>2 DEF IsPacket
<1>4. ASSUME NEW i, NEW c PROVE IsPacket([s EXCEPT ![i] = c])
  <2> HIDE DEF s
  <2> DEFINE t == [s EXCEPT ![i] = c]
  <2>1. t = [k \in 1..Len(s) |-> t[k]]
    BY <1>2
  <2>2. \A k \in 1..Len(s) : t[k] \in {t[k2] : k2 \in 1..Len(s)}
    OBVIOUS
  <2> HIDE DEF t
  <2>3. t \in Seq({t[k] : k \in 1..Len(s)})
    BY <1>2, <2>1, <2>2
  <2>4. IsPacket(t)
    BY <2>3 DEF IsPacket
  <2> QED BY <2>4 DEF t
<1>5. ASSUME NEW bytes, IsPacket(bytes), Becomes(bytes)
      PROVE  wire' = <<wire'[1]>> /\ IsPacket(wire'[1].bytes) /\ wire'[1].first = wire[1].first
  BY <1>5 DEF Becomes, Packet
<1>6. \/ \E n \in 6..(Len(s) - 1) : Becomes(SubSeq(s, 1, n))
      \/ \E i, c : Becomes([s EXCEPT ![i] = c])
  <2>1. PN_OFFSET + 4 = 6
    BY DEF PN_OFFSET
  <2> QED BY <2>1, Zenon DEF Damage
<1> HIDE DEF s
<1> QED BY <1>3, <1>4, <1>5, <1>6

LEMMA Protected == Spec => [](FormStaysVisible /\ TagFits)
<1>1. Init => WireInv
  BY DEF Init, WireInv, TagFits, Unseen, Seen
<1>2. ASSUME WireInv, [Next]_vars PROVE WireInv'
  <2>1. ASSUME NEW s \in Sides, NEW f \in FirstBytes, NEW p \in Payloads, Send(s, f, p)
        PROVE  WireInv'
    <3>1. TagFits'
      BY <1>2, <2>1 DEF Send, WireInv, TagFits
    <3> QED BY <2>1, <3>1, SentIsMasked DEF WireInv
  <2>2. ASSUME NEW s \in Sides, Receive(s) PROVE WireInv'
    <3>1. wire' = wire /\ whole' = whole
      BY <2>2 DEF Receive
    <3> QED BY <1>2, <2>2, <3>1, ReceiveFitsTag DEF WireInv
  <2>3. CASE Damage
    <3>1. whole' = FALSE /\ TagFits' /\ wire # <<>>
      BY <2>3 DEF Damage, TagFits, Unseen, Seen
    <3> QED BY <1>2, <2>3, <3>1, DamageLeavesAPacket DEF WireInv
  <2>4. CASE Gone
    BY <2>4 DEF Gone, WireInv, TagFits, Unseen, Seen
  <2>5. CASE UNCHANGED vars
    BY <1>2, <2>5 DEF vars, WireInv, TagFits
  <2> QED BY <1>2, <2>1, <2>2, <2>3, <2>4, <2>5 DEF Next
<1>3. WireInv => FormStaysVisible /\ TagFits
  <2>1. ASSUME NEW f \in FirstBytes PROVE f \cap {6, 7} # {}
    <3>1. 6 \in f
      BY DEF FirstBytes
    <3> QED BY <3>1
  <2>2. ASSUME WireInv, wire # <<>>, whole
        PROVE  /\ wire[1].bytes[1].byte \cap {6, 7} = wire[1].first \cap {6, 7}
               /\ wire[1].first \in FirstBytes
    <3>1. PICK m : wire[1].bytes[1].byte = xor_first_byte(wire[1].first, m)
      BY <2>2 DEF WireInv
    <3> QED BY <2>2, <3>1, FirstByteTwice DEF WireInv
  <2> QED BY <2>1, <2>2 DEF WireInv, FormStaysVisible
<1> QED BY <1>1, <1>2, <1>3, PTL DEF Spec

\* For every key schedule and mask a receiver can tell a packet from a preamble, and a
\* long header from a short one, before it can unmask it (header_key.rs:49).
THEOREM FormAlwaysVisible == Spec => []FormStaysVisible
BY Protected, PTL

\* No packet, however it was cut, is too short for the tag that decrypt splits off
\* (packet_key.rs:56).
THEOREM TagAlwaysFits == Spec => []TagFits
BY Protected, PTL


-----------------------------------------------------------------------------
(* Each side's packets so far, by number.                                  *)

Key(s)      == derive_initial_keys(dst_cid, s).local
KeyNonce(s, pn) == <<Key(s).key, nonce_for(Key(s).iv, ToBeBytes(pn))>>

UsedInOrder ==
    /\ next_pn \in [Sides -> Nat]
    /\ DOMAIN used = Sides
    /\ \A s \in Sides :
          /\ \E S : used[s] \in Seq(S)
          /\ Len(used[s]) = next_pn[s] - FirstPn /\ next_pn[s] \in Numbers
          /\ \A i \in DOMAIN used[s] : used[s][i] = KeyNonce(s, FirstPn + i - 1)

LEMMA PairsEqual ==
    ASSUME NEW a, NEW b, NEW c, NEW d, <<a, b>> = <<c, d>>
    PROVE  a = c /\ b = d
OBVIOUS

LEMMA KeysByDirection ==
    ASSUME NEW s \in Sides
    PROVE  /\ \E secret : Key(s).iv = Iv(secret)
           /\ \A t \in Sides : Key(s).key = Key(t).key => s = t
<1> DEFINE secret(t) == <<dst_cid, IF t = "Client" THEN "client in" ELSE "server in">>
<1>1. ASSUME NEW t \in Sides PROVE Key(t) = derive_keys_from_secret(secret(t))
  <2>1. CASE t = "Client"
    BY <2>1 DEF Key, derive_initial_keys, derive_initial_secrets, derive_directional_keys
  <2>2. CASE t = "Server"
    BY <2>2 DEF Key, derive_initial_keys, derive_initial_secrets, derive_directional_keys
  <2> QED BY <2>1, <2>2 DEF Sides
<1>2. ASSUME NEW x
      PROVE  /\ derive_keys_from_secret(x).key = <<x, "quic key">>
             /\ derive_keys_from_secret(x).iv = Iv(x)
  BY DEF derive_keys_from_secret
<1>3. ASSUME NEW t \in Sides, secret(s) = secret(t) PROVE s = t
  <2>1. (IF s = "Client" THEN "client in" ELSE "server in")
            = (IF t = "Client" THEN "client in" ELSE "server in")
    BY <1>3, PairsEqual
  <2>2. s \in {"Client", "Server"} /\ t \in {"Client", "Server"}
    BY DEF Sides
  <2>3. s = "Client" /\ t = "Server" => FALSE
    <3> SUFFICES ASSUME s = "Client", t = "Server" PROVE FALSE
      OBVIOUS
    <3>1. "client in" = "server in"
      BY <2>1
    <3> QED BY <3>1
  <2>4. s = "Server" /\ t = "Client" => FALSE
    <3> SUFFICES ASSUME s = "Server", t = "Client" PROVE FALSE
      OBVIOUS
    <3>1. "server in" = "client in"
      BY <2>1
    <3> QED BY <3>1
  <2> QED BY <2>2, <2>3, <2>4
<1>4. \A t \in Sides : Key(t).key = <<secret(t), "quic key">> /\ Key(t).iv = Iv(secret(t))
  BY <1>1, <1>2
<1>5. ASSUME NEW t \in Sides, Key(s).key = Key(t).key PROVE s = t
  <2>1. secret(s) = secret(t)
    <3>1. <<secret(s), "quic key">> = <<secret(t), "quic key">>
      BY <1>4, <1>5
    <3> QED BY <3>1, PairsEqual
  <2> QED BY <2>1, <1>3
<1> QED BY <1>4, <1>5

LEMMA OneMoreUsed ==
    ASSUME NEW S, NEW q \in Seq(S), NEW x
    PROVE  /\ \E T : Append(q, x) \in Seq(T)
           /\ Len(Append(q, x)) = Len(q) + 1
           /\ DOMAIN Append(q, x) = 1..(Len(q) + 1) /\ DOMAIN q = 1..Len(q) /\ Len(q) \in Nat
           /\ \A i \in 1..Len(q) : Append(q, x)[i] = q[i]
           /\ Append(q, x)[Len(q) + 1] = x
<1>1. q \in Seq(S \cup {x}) /\ x \in S \cup {x}
  OBVIOUS
<1>2. Append(q, x) \in Seq(S \cup {x})
  BY <1>1
<1> QED BY <1>1, <1>2

LEMMA UsedStarts == Init => UsedInOrder
<1> SUFFICES ASSUME Init PROVE UsedInOrder
  OBVIOUS
<1>1. <<>> \in Seq({}) /\ Len(<<>>) = 0
  OBVIOUS
<1>2. FirstPn \in Nat /\ FirstPn \in Numbers /\ FirstPn - FirstPn = 0
  BY ProtectionConstants DEF Numbers
<1> QED BY <1>1, <1>2 DEF Init, UsedInOrder

LEMMA UsedKept == ASSUME UsedInOrder, [Next]_vars PROVE UsedInOrder'
<1>1. ASSUME NEW s \in Sides, NEW f \in FirstBytes, NEW p \in Payloads, Send(s, f, p)
      PROVE  UsedInOrder'
  <2>1. /\ dst_cid' = dst_cid /\ next_pn[s] < MaxPackets
        /\ next_pn' = [next_pn EXCEPT ![s] = @ + 1]
        /\ used' = [used EXCEPT ![s] = Append(@, KeyNonce(s, next_pn[s]))]
    BY <1>1 DEF Send, KeyNonce, Key
  <2>2. \A t : KeyNonce(t, 0)' = KeyNonce(t, 0) /\ \A n : KeyNonce(t, n)' = KeyNonce(t, n)
    BY <2>1 DEF KeyNonce, Key
  <2>3. next_pn' \in [Sides -> Nat] /\ DOMAIN used' = Sides
    BY <2>1 DEF UsedInOrder
  <2>4. ASSUME NEW t \in Sides
        PROVE  /\ \E S : used'[t] \in Seq(S)
               /\ Len(used'[t]) = next_pn'[t] - FirstPn /\ next_pn'[t] \in Numbers
               /\ \A i \in DOMAIN used'[t] : used'[t][i] = KeyNonce(t, FirstPn + i - 1)
    <3>1. CASE t # s
      <4>1. used'[t] = used[t] /\ next_pn'[t] = next_pn[t]
        BY <2>1, <3>1 DEF UsedInOrder
      <4> QED BY <4>1 DEF UsedInOrder
    <3>2. CASE t = s
      <4>1. PICK S : used[s] \in Seq(S)
        BY DEF UsedInOrder
      <4>2. used'[s] = Append(used[s], KeyNonce(s, next_pn[s])) /\ next_pn'[s] = next_pn[s] + 1
        BY <2>1 DEF UsedInOrder
      <4>3. /\ Len(used[s]) = next_pn[s] - FirstPn /\ next_pn[s] \in FirstPn..MaxPackets
            /\ next_pn[s] \in Nat /\ MaxPackets \in Nat /\ FirstPn \in Nat
            /\ \A i \in DOMAIN used[s] : used[s][i] = KeyNonce(s, FirstPn + i - 1)
        BY ProtectionConstants DEF UsedInOrder, Numbers
      <4> DEFINE q == used[s]  x == KeyNonce(s, next_pn[s])
      <4>4. /\ \E T : Append(q, x) \in Seq(T)
            /\ Len(Append(q, x)) = Len(q) + 1
            /\ DOMAIN Append(q, x) = 1..(Len(q) + 1) /\ DOMAIN q = 1..Len(q) /\ Len(q) \in Nat
            /\ \A i \in 1..Len(q) : Append(q, x)[i] = q[i]
            /\ Append(q, x)[Len(q) + 1] = x
        BY <4>1, OneMoreUsed
      <4>5. \A i \in DOMAIN used'[s] : used'[s][i] = KeyNonce(s, FirstPn + i - 1)
        <5> SUFFICES ASSUME NEW i \in DOMAIN used'[s]
                     PROVE  used'[s][i] = KeyNonce(s, FirstPn + i - 1)
          OBVIOUS
        <5>1. i \in 1..(Len(q) + 1)
          BY <4>2, <4>4
        <5>2. CASE i \in 1..Len(q)
          BY <4>2, <4>3, <4>4, <5>2
        <5>3. CASE i = Len(q) + 1
          <6>1. FirstPn + i - 1 = next_pn[s]
            BY <4>3, <5>3
          <6> QED BY <4>2, <4>4, <5>3, <6>1
        <5> QED BY <4>4, <5>1, <5>2, <5>3
      <4>6. Len(used'[s]) = next_pn'[s] - FirstPn /\ next_pn'[s] \in Numbers
        BY <2>1, <4>2, <4>3, <4>4 DEF Numbers
      <4>7. \E T : used'[s] \in Seq(T)
        BY <4>2, <4>4
      <4> QED BY <3>2, <4>5, <4>6, <4>7
    <3> QED BY <3>1, <3>2
  <2> QED BY <2>2, <2>3, <2>4 DEF UsedInOrder
<1>2. CASE \/ \E s \in Sides : Receive(s)
           \/ Damage \/ Gone \/ UNCHANGED vars
  <2>1. dst_cid' = dst_cid /\ next_pn' = next_pn /\ used' = used
    BY <1>2 DEF Receive, Damage, Gone, vars
  <2> QED BY <2>1 DEF UsedInOrder, KeyNonce, Key
<1> QED BY <1>1, <1>2 DEF Next

\* No key ever seals two packets under one nonce, neither within a direction nor across
\* the two (packet_key.rs:21-29, keys.rs:26), if an IV is as long as a packet number at
\* least and the numbers in use differ in their bytes, as eight of them do.
THEOREM NoncesStayFresh ==
    ASSUME \A secret : \E S : Iv(secret) \in Seq(S) /\ Len(Iv(secret)) >= PN,
           \A m, n \in 0..MaxPackets : ToBeBytes(m) = ToBeBytes(n) => m = n
    PROVE  Spec => []NoncesAreFresh
<1>1. ASSUME UsedInOrder PROVE NoncesAreFresh
  <2> SUFFICES ASSUME NEW s \in Sides, NEW t \in Sides,
                      NEW i \in DOMAIN used[s], NEW j \in DOMAIN used[t],
                      used[s][i] = used[t][j]
               PROVE  s = t /\ i = j
    BY DEF NoncesAreFresh
  <2>1. used[s][i] = KeyNonce(s, FirstPn + i - 1)
       /\ used[t][j] = KeyNonce(t, FirstPn + j - 1)
    BY <1>1 DEF UsedInOrder
  <2>2. Key(s).key = Key(t).key
        /\ nonce_for(Key(s).iv, ToBeBytes(FirstPn + i - 1))
               = nonce_for(Key(t).iv, ToBeBytes(FirstPn + j - 1))
    <3>1. KeyNonce(s, FirstPn + i - 1) = KeyNonce(t, FirstPn + j - 1)
      BY <2>1
    <3> QED BY <3>1, PairsEqual DEF KeyNonce
  <2>3. s = t
    BY <2>2, KeysByDirection
  <2>4. \E secret : Key(s).iv = Iv(secret)
    BY KeysByDirection
  <2>5. PICK S : Key(s).iv \in Seq(S) /\ Len(Key(s).iv) >= PN
    BY <2>4
  <2>6. ToBeBytes(FirstPn + i - 1) = ToBeBytes(FirstPn + j - 1)
    <3> DEFINE a == ToBeBytes(FirstPn + i - 1)  b == ToBeBytes(FirstPn + j - 1)
    <3>1. /\ DOMAIN a = 1..PN /\ DOMAIN b = 1..PN
          /\ a = [k \in 1..PN |-> a[k]] /\ b = [k \in 1..PN |-> b[k]]
      BY DEF ToBeBytes
    <3>2. nonce_for(Key(s).iv, a) = nonce_for(Key(s).iv, b)
      BY <2>2, <2>3
    <3> HIDE DEF a, b
    <3>3. a = b
      BY <2>5, <3>1, <3>2, NoncesDiffer
    <3> QED BY <3>3 DEF a, b
  <2>7. /\ FirstPn + i - 1 \in 0..MaxPackets /\ FirstPn + j - 1 \in 0..MaxPackets
        /\ i \in Nat /\ j \in Nat /\ FirstPn \in Nat
    <3>1. ASSUME NEW u \in Sides, NEW k \in DOMAIN used[u]
          PROVE  k \in Nat /\ FirstPn + k - 1 \in 0..MaxPackets
      <4>1. PICK R : used[u] \in Seq(R)
        BY <1>1 DEF UsedInOrder
      <4>2. k \in 1..Len(used[u]) /\ Len(used[u]) = next_pn[u] - FirstPn
            /\ next_pn[u] \in FirstPn..MaxPackets
        BY <1>1, <4>1 DEF UsedInOrder, Numbers
      <4> QED BY <4>2, ProtectionConstants
    <3> QED BY <3>1, ProtectionConstants
  <2> QED BY <2>3, <2>6, <2>7
<1> QED BY <1>1, UsedStarts, UsedKept, PTL DEF Spec

-----------------------------------------------------------------------------
(***************************************************************************)
(* What opens, and what does not.  A cell of a packet remembers whether it *)
(* was sealed, in what and at which place: masking never changes that, so  *)
(* that a receiver who splits a packet anywhere but where it was put       *)
(* together, or misses a cell of it, does not hold what was sealed.        *)
(***************************************************************************)

\* A packet as sent: its cells in the clear, and masked.
Clear(keys, first, pn, payload) == EncryptPayload(keys, pn, Header(first, pn), payload)
SealOf(keys, first, pn, payload) == Under(keys, pn, Header(first, pn), payload)
HeaderLen(first) == PN_OFFSET + PnLen(first)
PacketLen(first, payload) == HeaderLen(first) + Len(payload) + TAG

LEMMA Concatenated ==
    ASSUME NEW B, NEW x \in Seq(B), NEW y \in Seq(B)
    PROVE  /\ x \o y \in Seq(B) /\ Len(x \o y) = Len(x) + Len(y)
           /\ \A i \in 1..Len(x) : (x \o y)[i] = x[i]
           /\ \A i \in 1..Len(y) : (x \o y)[Len(x) + i] = y[i]
           /\ x \o y = [i \in 1..(Len(x) + Len(y)) |-> (x \o y)[i]]
<1> DEFINE z == x \o y
<1>1. z \in Seq(B) /\ Len(z) = Len(x) + Len(y) /\ \A i \in 1..Len(x) : z[i] = x[i]
  OBVIOUS
<1>2. ASSUME NEW i \in 1..Len(y) PROVE z[Len(x) + i] = y[i]
  <2>1. Len(x) \in Nat /\ Len(x) + i \in 1..(Len(x) + Len(y)) /\ (Len(x) + i) - Len(x) = i
        /\ ~(Len(x) + i <= Len(x))
    OBVIOUS
  <2> QED BY <2>1
<1> HIDE DEF z
<1>3. z = [i \in 1..Len(z) |-> z[i]]
  BY <1>1
<1> QED BY <1>1, <1>2, <1>3 DEF z

LEMMA SeqOfCells ==
    ASSUME NEW p, NEW n \in Nat, p = [i \in 1..n |-> p[i]]
    PROVE  p \in Seq({p[i] : i \in 1..n}) /\ Len(p) = n /\ DOMAIN p = 1..n
<1>1. p \in [1..n -> {p[i] : i \in 1..n}]
  OBVIOUS
<1> QED BY <1>1

LEMMA Ending ==
    ASSUME NEW B, NEW p \in Seq(B), NEW k \in Nat, k <= Len(p)
    PROVE  /\ SubSeq(p, k + 1, Len(p)) \in Seq(B)
           /\ Len(SubSeq(p, k + 1, Len(p))) = Len(p) - k
           /\ \A i \in 1..(Len(p) - k) : SubSeq(p, k + 1, Len(p))[i] = p[k + i]
OBVIOUS

LEMMA HeaderCells ==
    ASSUME NEW first \in FirstBytes, NEW pn
    PROVE  /\ Header(first, pn) \in Seq(Byte)
           /\ Len(Header(first, pn)) = HeaderLen(first) /\ HeaderLen(first) \in 3..6
           /\ DOMAIN Header(first, pn) = 1..HeaderLen(first)
           /\ Header(first, pn) = [i \in 1..HeaderLen(first) |-> Header(first, pn)[i]]
           /\ Header(first, pn)[1] = first
           /\ \A i \in 1..PnLen(first) :
                  Header(first, pn)[PN_OFFSET + i] = ToBeBytes(pn)[PN - PnLen(first) + i]
<1> DEFINE k == PnLen(first)
           number == SubSeq(ToBeBytes(pn), PN - k + 1, PN)
           front  == <<first, {}>>
<1>1. k \in 1..4 /\ PN \in Nat /\ PN >= 4
  BY LengthBounds, ProtectionConstants
<1>2. ToBeBytes(pn) \in Seq(Byte) /\ Len(ToBeBytes(pn)) = PN
  BY <1>1 DEF ToBeBytes, Byte
<1>3. first \in Byte /\ {} \in Byte
  <2>1. 0 \in 0..7 /\ 1 \in 0..7 /\ 2 \in 0..7 /\ 5 \in 0..7 /\ 6 \in 0..7 /\ 7 \in 0..7
    OBVIOUS
  <2>2. \A x \in first : x \in 0..7
    <3>1. PICK f \in {{6, 7}} \cup {{6} \cup s : s \in SUBSET {2, 5}}, l \in SUBSET {0, 1} :
              first = f \cup l
      BY DEF FirstBytes
    <3>2. \A x \in f : x \in {2, 5, 6, 7}
      OBVIOUS
    <3>3. \A x \in l : x \in {0, 1}
      OBVIOUS
    <3> QED BY <2>1, <3>1, <3>2, <3>3
  <2> QED BY <2>2 DEF Byte
<1>4. front \in Seq(Byte) /\ Len(front) = 2 /\ front[1] = first
  BY <1>3
<1>5. Header(first, pn) = front \o number
  BY DEF Header
<1> HIDE DEF k, front
<1>6. number \in Seq(Byte) /\ Len(number) = k
      /\ \A i \in 1..k : number[i] = ToBeBytes(pn)[PN - k + i]
  <2> DEFINE q == ToBeBytes(pn)
             e == PN - k
  <2>1. e \in Nat /\ e <= Len(q) /\ Len(q) - e = k /\ Len(q) = PN /\ q \in Seq(Byte)
    BY <1>1, <1>2
  <2> HIDE DEF q, e
  <2>2. LET r == SubSeq(q, e + 1, Len(q))
        IN  r \in Seq(Byte) /\ Len(r) = Len(q) - e /\ \A i \in 1..(Len(q) - e) : r[i] = q[e + i]
    BY <2>1, Ending
  <2> QED BY <2>1, <2>2 DEF q, e
<1> HIDE DEF number
<1>7. /\ front \o number \in Seq(Byte) /\ Len(front \o number) = 2 + k
      /\ (front \o number)[1] = first
      /\ \A i \in 1..k : (front \o number)[2 + i] = number[i]
      /\ front \o number = [i \in 1..(2 + k) |-> (front \o number)[i]]
  <2>1. LET z == front \o number
        IN  /\ z \in Seq(Byte) /\ Len(z) = Len(front) + Len(number)
            /\ \A i \in 1..Len(front) : z[i] = front[i]
            /\ \A i \in 1..Len(number) : z[Len(front) + i] = number[i]
            /\ z = [i \in 1..(Len(front) + Len(number)) |-> z[i]]
    BY <1>4, <1>6, Concatenated
  <2>2. 1 \in 1..2
    OBVIOUS
  <2> QED BY <1>4, <1>6, <2>1, <2>2
<1>8. DOMAIN (front \o number) = 1..(2 + k) /\ 2 + k \in 3..6
  BY <1>1, <1>7
<1> QED BY <1>5, <1>6, <1>7, <1>8 DEF HeaderLen, PN_OFFSET, k

\* A packet in the clear: the header, and behind it what was sealed.
LaidOut(keys, first, pn, payload) ==
    LET c == Clear(keys, first, pn, payload)
        h == HeaderLen(first)
        n == PacketLen(first, payload)
        s == SealOf(keys, first, pn, payload)
    IN  /\ n \in Nat /\ n = h + (Len(payload) + TAG) /\ n - h \in Nat
        /\ OfCells(c, n)
        /\ \A i \in 1..h : c[i] = Plain(Header(first, pn)[i])
        /\ \A i \in 1..(n - h) : c[h + i] = [byte |-> {}, sealed |-> <<s>>, at |-> i]
        /\ Sealed(s) = [i \in 1..(n - h) |-> [byte |-> {}, sealed |-> <<s>>, at |-> i]]

LEMMA ClearCells ==
    ASSUME NEW keys, NEW first \in FirstBytes, NEW pn, NEW payload \in Payloads
    PROVE  LaidOut(keys, first, pn, payload)
<1> DEFINE H == Header(first, pn)
           h == HeaderLen(first)
           n == PacketLen(first, payload)
           s == SealOf(keys, first, pn, payload)
           m == Len(payload) + TAG
           front == [i \in DOMAIN H |-> Plain(H[i])]
           Cells == [byte : Byte, sealed : {<<>>, <<s>>}, at : Nat]
<1>1. h \in 3..6 /\ H \in Seq(Byte) /\ Len(H) = h
  BY HeaderCells
<1>2. m \in Nat /\ s.payload = payload
  <2>1. payload \in Seq(Nat) /\ TAG \in Nat
    BY ProtectionConstants
  <2> QED BY <2>1 DEF SealOf, Under
<1>3. n = h + m /\ n \in Nat /\ n - h = m
  <2>1. n = h + Len(payload) + TAG /\ Len(payload) \in Nat /\ TAG \in Nat
    <3>1. payload \in Seq(Nat) /\ TAG \in Nat
      BY ProtectionConstants
    <3> QED BY <3>1 DEF PacketLen
  <2> QED BY <1>1, <2>1
<1>4. Sealed(s) = [i \in 1..m |-> [byte |-> {}, sealed |-> <<s>>, at |-> i]]
  BY <1>2 DEF Sealed
<1> HIDE DEF H, h, n, s, m
<1>5. /\ front \in Seq(Cells) /\ Len(front) = h
      /\ \A i \in 1..h : front[i] = Plain(H[i])
  <2>1. DOMAIN H = 1..h /\ \A i \in 1..h : Plain(H[i]) \in Cells
    BY <1>1 DEF Plain
  <2> HIDE DEF Cells
  <2> QED BY <1>1, <2>1
<1>6. Sealed(s) \in Seq(Cells) /\ Len(Sealed(s)) = m
  <2>1. {} \in Byte
    BY DEF Byte
  <2>2. \A i \in 1..m : [byte |-> {}, sealed |-> <<s>>, at |-> i] \in Cells
    BY <1>2, <2>1
  <2> HIDE DEF Cells
  <2> QED BY <1>2, <1>4, <2>2
<1> HIDE DEF front
<1> DEFINE c == front \o Sealed(s)
<1>7. /\ c \in Seq(Cells) /\ Len(c) = h + m
      /\ \A i \in 1..h : c[i] = front[i]
      /\ \A i \in 1..m : c[h + i] = Sealed(s)[i]
      /\ c = [i \in 1..(h + m) |-> c[i]]
  <2> HIDE DEF Cells
  <2>1. /\ c \in Seq(Cells) /\ Len(c) = Len(front) + Len(Sealed(s))
        /\ \A i \in 1..Len(front) : c[i] = front[i]
        /\ \A i \in 1..Len(Sealed(s)) : c[Len(front) + i] = Sealed(s)[i]
        /\ c = [i \in 1..(Len(front) + Len(Sealed(s))) |-> c[i]]
    BY <1>5, <1>6, Concatenated
  <2> HIDE DEF c
  <2> QED BY <1>5, <1>6, <2>1
<1>8. Clear(keys, first, pn, payload) = c
  BY DEF Clear, EncryptPayload, front, H, s, SealOf
<1> HIDE DEF c
<1>9. OfCells(c, n)
  <2>1. \A i \in 1..n : c[i] \in Cells
    <3> HIDE DEF Cells
    <3> QED BY <1>3, <1>7
  <2> QED BY <1>3, <1>7, <2>1 DEF OfCells, IsCell
<1>10. \A i \in 1..m : c[h + i] = [byte |-> {}, sealed |-> <<s>>, at |-> i]
  BY <1>4, <1>7
<1> QED BY <1>2, <1>3, <1>4, <1>5, <1>7, <1>8, <1>9, <1>10
       DEF h, n, s, H, m, LaidOut

-----------------------------------------------------------------------------
(* What a side sends under keys K, and what the other makes of bytes.      *)

SentBytes(K, first, pn, payload) == EncryptHeader(K.hp, PN_OFFSET, Clear(K, first, pn, payload))

\* What is sent differs from the clear packet in the protected bytes only.
SentLikeClear(K, first, pn, payload) ==
    LET c == Clear(K, first, pn, payload)
        w == SentBytes(K, first, pn, payload)
        n == PacketLen(first, payload)
    IN  /\ OfCells(w, n) /\ DecryptHeader(K.hp, PN_OFFSET, w) = c
        /\ \A i \in 1..n : /\ w[i].sealed = c[i].sealed
                           /\ w[i].at = c[i].at
                           /\ i > PN_OFFSET + 4 => w[i] = c[i]

LEMMA SentCells ==
    ASSUME NEW K, NEW first \in FirstBytes, NEW pn, NEW payload \in Payloads,
           PacketLen(first, payload) >= PN_OFFSET + 4
    PROVE  SentLikeClear(K, first, pn, payload)
<1> DEFINE c == Clear(K, first, pn, payload)
           n == PacketLen(first, payload)
           len == PnLen(c[1].byte)
           w == SentBytes(K, first, pn, payload)
<1>1. OfCells(c, n) /\ n \in Nat /\ PN_OFFSET \in Nat \ {0} /\ n >= PN_OFFSET + 4
  <2>1. OfCells(c, n) /\ n \in Nat
    BY ClearCells DEF LaidOut
  <2>2. PN_OFFSET \in Nat \ {0}
    BY DEF PN_OFFSET
  <2> QED BY <2>1, <2>2
<1>2. len \in 1..4
  BY LengthBounds
<1>3. w = Masked(PN_OFFSET, c, compute_mask(K.hp, PN_OFFSET, c), len)
  BY DEF SentBytes, EncryptHeader
<1>4. DecryptHeader(K.hp, PN_OFFSET, w) = c
  <2> HIDE DEF c, n
  <2> QED BY <1>1, HeaderRoundTrip DEF SentBytes, c
<1> HIDE DEF c, n, len
<1>5. UndoesItself(K.hp, PN_OFFSET, n, c, len)
  BY <1>1, <1>2, MaskedTwice
<1>6. /\ OfCells(w, n)
      /\ \A i \in 1..n : /\ w[i].sealed = c[i].sealed
                         /\ w[i].at = c[i].at
                         /\ i > PN_OFFSET + 4 => w[i] = c[i]
  BY <1>3, <1>5 DEF UndoesItself
<1> QED BY <1>4, <1>6 DEF SentLikeClear, c, n

PeerKeys(s)   == derive_initial_keys(dst_cid, s).remote
Unmasked(s, bytes) == DecryptHeader(PeerKeys(s).hp, PN_OFFSET, bytes)
SplitOf(p)    == PN_OFFSET + PnLen(p[1].byte)
HeaderOf(p)   == [i \in 1..SplitOf(p) |-> p[i].byte]
NumberOf(p)   == SubSeq(HeaderOf(p), PN_OFFSET + 1, SplitOf(p))
RestOf(p)     == SubSeq(p, SplitOf(p) + 1, Len(p))

PnOf(s, p)    == FromBeBytes(NumberOf(p), received[s] + 1)
OpenedOf(s, p) ==
    IF Known(NumberOf(p), received[s] + 1)
    THEN DecryptPayload(PeerKeys(s), PnOf(s, p), HeaderOf(p), RestOf(p))
    ELSE <<>>

MadeOf(s, p) ==
    Seen(s, Len(RestOf(p)) - TAG, IF OpenedOf(s, p) = <<>> THEN 0 ELSE PnOf(s, p), OpenedOf(s, p))

LEMMA ReceiveMakes ==
    ASSUME NEW s, Receive(s)
    PROVE  LET p == Unmasked(s, wire[1].bytes)
           IN  /\ seen' = MadeOf(s, p) /\ seen'.by = s /\ seen'.payload = OpenedOf(s, p)
               /\ received' = IF OpenedOf(s, p) # <<>> /\ PnOf(s, p) > received[s]
                              THEN [received EXCEPT ![s] = PnOf(s, p)] ELSE received
<1> DEFINE p == Unmasked(s, wire[1].bytes)
<1>1. /\ seen' = MadeOf(s, p)
      /\ received' = IF OpenedOf(s, p) # <<>> /\ PnOf(s, p) > received[s]
                     THEN [received EXCEPT ![s] = PnOf(s, p)] ELSE received
  BY DEF Receive, MadeOf, OpenedOf, PnOf, Unmasked, PeerKeys, SplitOf, HeaderOf, NumberOf, RestOf
<1> HIDE DEF p
<1>2. MadeOf(s, p).by = s /\ MadeOf(s, p).payload = OpenedOf(s, p)
  BY DEF MadeOf, Seen
<1> QED BY <1>1, <1>2 DEF p

\* A side receives under the keys the other sends with.
LEMMA RemoteIsPeers ==
    ASSUME NEW s \in Sides, NEW t \in Sides, s # t
    PROVE  PeerKeys(s) = Key(t)
<1>1. (s = "Client" /\ t = "Server") \/ (s = "Server" /\ t = "Client")
  BY DEF Sides
<1>2. CASE s = "Client" /\ t = "Server"
  BY <1>2 DEF PeerKeys, Key, derive_initial_keys, derive_directional_keys
<1>3. CASE s = "Server" /\ t = "Client"
  BY <1>3 DEF PeerKeys, Key, derive_initial_keys, derive_directional_keys
<1> QED BY <1>1, <1>2, <1>3

LEMMA SameSequence ==
    ASSUME NEW B, NEW x \in Seq(B), NEW y \in Seq(B), Len(x) = Len(y),
           \A i \in 1..Len(x) : x[i] = y[i]
    PROVE  x = y
<1>1. x = [i \in 1..Len(x) |-> x[i]] /\ y = [i \in 1..Len(y) |-> y[i]]
  OBVIOUS
<1> QED BY <1>1

LEMMA TailBytes ==
    ASSUME NEW n, NEW k \in 1..4
    PROVE  LET tail == SubSeq(ToBeBytes(n), PN - k + 1, PN)
           IN  /\ tail \in Seq(Byte) /\ Len(tail) = k
               /\ \A i \in 1..k : tail[i] = ToBeBytes(n)[PN - k + i]
<1> DEFINE q == ToBeBytes(n)
           e == PN - k
<1>1. q \in Seq(Byte) /\ Len(q) = PN /\ PN \in Nat /\ PN >= 4
  BY ProtectionConstants DEF ToBeBytes, Byte
<1>2. e \in Nat /\ e <= Len(q) /\ Len(q) - e = k
  BY <1>1
<1> HIDE DEF q, e
<1>3. LET r == SubSeq(q, e + 1, Len(q))
      IN  r \in Seq(Byte) /\ Len(r) = Len(q) - e /\ \A i \in 1..(Len(q) - e) : r[i] = q[e + i]
  BY <1>1, <1>2, Ending
<1> QED BY <1>1, <1>2, <1>3 DEF q, e

-----------------------------------------------------------------------------
(* Numbers by their last bytes.  Two numbers of one window that end in the *)
(* same bytes are the same.                                                *)

Bits(q) == {b \in 0..7 : (q \div 2^b) % 2 = 1}

LEMMA BitsTell ==
    ASSUME NEW q \in Nat, NEW r \in Nat, Bits(q) = Bits(r)
    PROVE  q % 256 = r % 256
<1>1. \A b \in 0..7 : ((q \div 2^b) % 2 = 1) <=> ((r \div 2^b) % 2 = 1)
  BY DEF Bits
<1>2. q % 2 = r % 2
  <2>1. ((q \div 2^0) % 2 = 1) <=> ((r \div 2^0) % 2 = 1)
    BY <1>1
  <2> QED BY <2>1
<1>3. q % 4 = r % 4
  <2>1. ((q \div 2^1) % 2 = 1) <=> ((r \div 2^1) % 2 = 1)
    BY <1>1
  <2> QED BY <1>2, <2>1
<1>4. q % 8 = r % 8
  <2>1. ((q \div 2^2) % 2 = 1) <=> ((r \div 2^2) % 2 = 1)
    BY <1>1
  <2> QED BY <1>3, <2>1
<1>5. q % 16 = r % 16
  <2>1. ((q \div 2^3) % 2 = 1) <=> ((r \div 2^3) % 2 = 1)
    BY <1>1
  <2> QED BY <1>4, <2>1
<1>6. q % 32 = r % 32
  <2>1. ((q \div 2^4) % 2 = 1) <=> ((r \div 2^4) % 2 = 1)
    BY <1>1
  <2> QED BY <1>5, <2>1
<1>7. q % 64 = r % 64
  <2>1. ((q \div 2^5) % 2 = 1) <=> ((r \div 2^5) % 2 = 1)
    BY <1>1
  <2> QED BY <1>6, <2>1
<1>8. q % 128 = r % 128
  <2>1. ((q \div 2^6) % 2 = 1) <=> ((r \div 2^6) % 2 = 1)
    BY <1>1
  <2> QED BY <1>7, <2>1
<1>9. q % 256 = r % 256
  <2>1. ((q \div 2^7) % 2 = 1) <=> ((r \div 2^7) % 2 = 1)
    BY <1>1
  <2> QED BY <1>8, <2>1
<1> QED BY <1>9

\* The d-th byte from the end.
LEMMA BytesTell ==
    ASSUME NEW m \in Nat, NEW n \in Nat, NEW d \in 0..3,
           ToBeBytes(m)[PN - d] = ToBeBytes(n)[PN - d]
    PROVE  (m \div 256^d) % 256 = (n \div 256^d) % 256
<1>1. ASSUME NEW x PROVE ToBeBytes(x)[PN - d] = Bits(x \div 256^d)
  <2>1. PN - d \in 1..PN /\ PN - (PN - d) = d
    BY ProtectionConstants
  <2> QED BY <2>1 DEF ToBeBytes, Bits
<1>2. m \div 256^d \in Nat /\ n \div 256^d \in Nat
  <2>1. d = 0 \/ d = 1 \/ d = 2 \/ d = 3
    OBVIOUS
  <2>2. 256^0 = 1 /\ 256^1 = 256 /\ 256^2 = 65536 /\ 256^3 = 16777216
    OBVIOUS
  <2>3. CASE d = 0
    BY <2>2, <2>3
  <2>4. CASE d = 1
    BY <2>2, <2>4
  <2>5. CASE d = 2
    BY <2>2, <2>5
  <2>6. CASE d = 3
    BY <2>2, <2>6
  <2> QED BY <2>1, <2>3, <2>4, <2>5, <2>6
<1> DEFINE q == m \div 256^d  r == n \div 256^d
<1>3. Bits(q) = Bits(r)
  <2>1. ToBeBytes(m)[PN - d] = Bits(q) /\ ToBeBytes(n)[PN - d] = Bits(r)
    BY <1>1
  <2> QED BY <2>1
<1>4. q \in Nat /\ r \in Nat
  BY <1>2
<1> HIDE DEF q, r
<1>5. q % 256 = r % 256
  BY <1>3, <1>4, BitsTell
<1> QED BY <1>5 DEF q, r

\* The last k bytes are alike.
SameEnd(m, n, k) == \A d \in 0..(k - 1) : ToBeBytes(m)[PN - d] = ToBeBytes(n)[PN - d]

LEMMA WindowTells ==
    ASSUME NEW m \in Nat, NEW n \in Nat, NEW k \in 1..4, NEW e \in Nat, SameEnd(m, n, k),
           Within(m - e - 1, k), Within(e - m, k), Within(n - e - 1, k), Within(e - n, k)
    PROVE  m = n
<1>1. m % 256 = n % 256
  <2>1. 0 \in 0..3 /\ 0 \in 0..(k - 1)
    OBVIOUS
  <2>2. (m \div 256^0) % 256 = (n \div 256^0) % 256
    BY <2>1, BytesTell DEF SameEnd
  <2> QED BY <2>2
<1>2. k >= 2 => (m \div 256) % 256 = (n \div 256) % 256
  <2>1. k >= 2 => 1 \in 0..3 /\ 1 \in 0..(k - 1)
    OBVIOUS
  <2>2. k >= 2 => (m \div 256^1) % 256 = (n \div 256^1) % 256
    BY <2>1, BytesTell DEF SameEnd
  <2> QED BY <2>2
<1>3. k >= 3 => (m \div 65536) % 256 = (n \div 65536) % 256
  <2>1. k >= 3 => 2 \in 0..3 /\ 2 \in 0..(k - 1)
    OBVIOUS
  <2>2. k >= 3 => (m \div 256^2) % 256 = (n \div 256^2) % 256
    BY <2>1, BytesTell DEF SameEnd
  <2> QED BY <2>2
<1>4. k >= 4 => (m \div 16777216) % 256 = (n \div 16777216) % 256
  <2>1. k >= 4 => 3 \in 0..3 /\ 3 \in 0..(k - 1)
    OBVIOUS
  <2>2. k >= 4 => (m \div 256^3) % 256 = (n \div 256^3) % 256
    BY <2>1, BytesTell DEF SameEnd
  <2> QED BY <2>2
<1>5. k >= 2 => m % 65536 = n % 65536
  BY <1>1, <1>2
<1>6. k >= 3 => m % 16777216 = n % 16777216
  <2> SUFFICES ASSUME k >= 3 PROVE m % 16777216 = n % 16777216
    OBVIOUS
  <2>1. m % 65536 = n % 65536 /\ (m \div 65536) % 256 = (n \div 65536) % 256
    BY <1>3, <1>5
  <2> QED BY <2>1
<1>7. k >= 4 => m % 4294967296 = n % 4294967296
  <2> SUFFICES ASSUME k >= 4 PROVE m % 4294967296 = n % 4294967296
    OBVIOUS
  <2>1. m % 16777216 = n % 16777216 /\ (m \div 16777216) % 256 = (n \div 16777216) % 256
    BY <1>4, <1>6
  <2> QED BY <2>1
<1>8. CASE k = 1
  <2>1. (m - e - 1) \div 256^0 < 128 /\ (e - m) \div 256^0 < 128
        /\ (n - e - 1) \div 256^0 < 128 /\ (e - n) \div 256^0 < 128
    BY <1>8 DEF Within
  <2> QED BY <1>1, <2>1
<1>9. CASE k = 2
  <2>1. (m - e - 1) \div 256^1 < 128 /\ (e - m) \div 256^1 < 128
        /\ (n - e - 1) \div 256^1 < 128 /\ (e - n) \div 256^1 < 128
    BY <1>9 DEF Within
  <2> QED BY <1>5, <1>9, <2>1
<1>10. CASE k = 3
  <2>1. (m - e - 1) \div 256^2 < 128 /\ (e - m) \div 256^2 < 128
        /\ (n - e - 1) \div 256^2 < 128 /\ (e - n) \div 256^2 < 128
    BY <1>10 DEF Within
  <2> QED BY <1>6, <1>10, <2>1
<1>11. CASE k = 4
  <2>1. (m - e - 1) \div 256^3 < 128 /\ (e - m) \div 256^3 < 128
        /\ (n - e - 1) \div 256^3 < 128 /\ (e - n) \div 256^3 < 128
    BY <1>11 DEF Within
  <2> QED BY <1>7, <1>11, <2>1
<1> QED BY <1>8, <1>9, <1>10, <1>11

\* The last bytes of a packet number, read back by a receiver in whose window it lies, are
\* the number they were taken from.
LEMMA NumberReadBack ==
    ASSUME NEW first \in FirstBytes, NEW pn \in Numbers, NEW e \in Nat,
           Within(pn - e - 1, PnLen(first)), Within(e - pn, PnLen(first))
    PROVE  LET number == SubSeq(Header(first, pn), PN_OFFSET + 1, HeaderLen(first))
           IN  Known(number, e) /\ FromBeBytes(number, e) = pn
<1> DEFINE H == Header(first, pn)
           k == PnLen(first)
           number == SubSeq(H, PN_OFFSET + 1, HeaderLen(first))
           LastBytes(n) == SubSeq(ToBeBytes(n), PN - k + 1, PN)
<1>1. k \in 1..4 /\ PN \in Nat /\ PN >= 4 /\ HeaderLen(first) = 2 + k /\ PN_OFFSET = 2
  BY LengthBounds, ProtectionConstants DEF HeaderLen, PN_OFFSET
<1>2. /\ H \in Seq(Byte) /\ Len(H) = 2 + k
      /\ \A i \in 1..k : H[2 + i] = ToBeBytes(pn)[PN - k + i]
  BY <1>1, HeaderCells
<1>0. Within(pn - e - 1, k) /\ Within(e - pn, k)
  OBVIOUS
<1> HIDE DEF H, k
<1>3. number \in Seq(Byte) /\ Len(number) = k /\ \A i \in 1..k : number[i] = H[2 + i]
  <2>1. 2 \in Nat /\ 2 <= Len(H) /\ Len(H) - 2 = k
    BY <1>1, <1>2
  <2>2. LET r == SubSeq(H, 2 + 1, Len(H))
        IN  r \in Seq(Byte) /\ Len(r) = Len(H) - 2 /\ \A i \in 1..(Len(H) - 2) : r[i] = H[2 + i]
    BY <1>2, <2>1, Ending
  <2> QED BY <1>1, <1>2, <2>1, <2>2
<1>4. ASSUME NEW n
      PROVE  /\ LastBytes(n) \in Seq(Byte) /\ Len(LastBytes(n)) = k
             /\ \A i \in 1..k : LastBytes(n)[i] = ToBeBytes(n)[PN - k + i]
  BY <1>1, TailBytes
<1> HIDE DEF number, LastBytes
<1>5. LastBytes(pn) = number
  <2>1. ASSUME NEW i \in 1..k PROVE LastBytes(pn)[i] = number[i]
    BY <1>2, <1>3, <1>4
  <2> QED BY <1>3, <1>4, <2>1, SameSequence
<1>6. ASSUME NEW n \in Numbers, LastBytes(n) = number, Within(n - e - 1, k), Within(e - n, k)
      PROVE  n = pn
  <2>1. ASSUME NEW d \in 0..(k - 1) PROVE ToBeBytes(n)[PN - d] = ToBeBytes(pn)[PN - d]
    <3>1. k - d \in 1..k /\ PN - k + (k - d) = PN - d
      BY <1>1
    <3>2. LastBytes(n)[k - d] = ToBeBytes(n)[PN - d]
          /\ LastBytes(pn)[k - d] = ToBeBytes(pn)[PN - d]
      BY <1>4, <3>1
    <3> QED BY <1>5, <1>6, <3>2
  <2>2. n \in Nat /\ pn \in Nat
    BY ProtectionConstants DEF Numbers
  <2>3. SameEnd(n, pn, k)
    BY <2>1 DEF SameEnd
  <2> QED BY <1>0, <1>1, <1>6, <2>2, <2>3, WindowTells
<1>7. \A n : Expands(n, number, e) <=>
                 LastBytes(n) = number /\ Within(n - e - 1, k) /\ Within(e - n, k)
  BY <1>3 DEF LastBytes, Expands
<1>8. Known(number, e)
  BY <1>0, <1>5, <1>7 DEF Known
<1>9. FromBeBytes(number, e) = pn
  <2>1. FromBeBytes(number, e) \in Numbers /\ Expands(FromBeBytes(number, e), number, e)
    BY <1>8 DEF Known, FromBeBytes
  <2> QED BY <1>6, <1>7, <2>1
<1> QED BY <1>8, <1>9 DEF number, H

\* What was sent, unmasked, is split where it was put together.
LEMMA ClearSplits ==
    ASSUME NEW K, NEW first \in FirstBytes, NEW pn, NEW payload \in Payloads,
           PacketLen(first, payload) > HeaderLen(first)
    PROVE  LET c == Clear(K, first, pn, payload)
               s == SealOf(K, first, pn, payload)
           IN  /\ SplitOf(c) = HeaderLen(first) /\ HeaderOf(c) = Header(first, pn)
               /\ RestOf(c) = Sealed(s) /\ RestOf(c) # <<>> /\ RestOf(c)[1].sealed = <<s>>
<1> DEFINE c == Clear(K, first, pn, payload)
           s == SealOf(K, first, pn, payload)
           H == Header(first, pn)
           h == HeaderLen(first)
           n == PacketLen(first, payload)
<1>1. /\ n \in Nat /\ n - h \in Nat /\ OfCells(c, n)
      /\ \A i \in 1..h : c[i] = Plain(H[i])
      /\ \A i \in 1..(n - h) : c[h + i] = [byte |-> {}, sealed |-> <<s>>, at |-> i]
      /\ Sealed(s) = [i \in 1..(n - h) |-> [byte |-> {}, sealed |-> <<s>>, at |-> i]]
  <2>1. LaidOut(K, first, pn, payload)
    BY ClearCells
  <2> QED BY <2>1 DEF LaidOut
<1>2. h \in 3..6 /\ H[1] = first /\ H = [i \in 1..h |-> H[i]] /\ h = PN_OFFSET + PnLen(first)
  BY HeaderCells DEF HeaderLen
<1> HIDE DEF c, s, H, h, n
<1>3. ASSUME NEW i \in 1..h PROVE c[i].byte = H[i]
  <2>1. c[i] = [byte |-> H[i], sealed |-> <<>>, at |-> 0]
    BY <1>1 DEF Plain
  <2> QED BY <2>1
<1>4. SplitOf(c) = h
  <2>1. 1 \in 1..h
    BY <1>2
  <2> QED BY <1>2, <1>3, <2>1 DEF SplitOf
<1>5. HeaderOf(c) = H
  BY <1>2, <1>3, <1>4 DEF HeaderOf
<1>6. c \in Seq({c[i] : i \in 1..n}) /\ Len(c) = n
  BY <1>1, SeqOfCells DEF OfCells
<1>7. n > h
  BY DEF n, h
<1> DEFINE r == SubSeq(c, h + 1, Len(c))
<1>8. /\ r \in Seq({c[i] : i \in 1..n}) /\ Len(r) = n - h
      /\ \A i \in 1..(n - h) : r[i] = c[h + i]
  <2>1. h \in Nat /\ h <= Len(c)
    BY <1>1, <1>2, <1>6, <1>7
  <2>2. /\ r \in Seq({c[i] : i \in 1..n}) /\ Len(r) = Len(c) - h
        /\ \A i \in 1..(Len(c) - h) : r[i] = c[h + i]
    <3> DEFINE B == {c[i] : i \in 1..n}
    <3>1. c \in Seq(B)
      BY <1>6
    <3> HIDE DEF B
    <3>2. r \in Seq(B) /\ Len(r) = Len(c) - h /\ \A i \in 1..(Len(c) - h) : r[i] = c[h + i]
      BY <2>1, <3>1, Ending
    <3> QED BY <3>2 DEF B
  <2> QED BY <1>6, <2>2
<1>9. RestOf(c) = r
  BY <1>4 DEF RestOf
<1> HIDE DEF r
<1>10. 1 \in 1..(n - h)
  BY <1>1, <1>2, <1>7
<1>11. r = [i \in 1..(n - h) |-> r[i]]
  BY <1>8
<1>12. r = Sealed(s)
  BY <1>1, <1>8, <1>11
<1>13. r # <<>> /\ r[1].sealed = <<s>>
  <2>1. r[1] = [byte |-> {}, sealed |-> <<s>>, at |-> 1]
    BY <1>1, <1>8, <1>10
  <2>2. r # <<>>
    BY <1>8, <1>10
  <2> QED BY <2>1, <2>2
<1> QED BY <1>4, <1>5, <1>9, <1>12, <1>13 DEF c, s, H, h

LEMMA WithinNone == ASSUME NEW n \in Nat, NEW k \in 1..4 PROVE Within(n - n, k)
<1>1. 256^0 = 1 /\ 256^1 = 256 /\ 256^2 = 65536 /\ 256^3 = 16777216
  OBVIOUS
<1>2. n - n = 0
  OBVIOUS
<1>3. Within(0, k)
  <2>1. CASE k = 1
    BY <1>1, <2>1 DEF Within
  <2>2. CASE k = 2
    BY <1>1, <2>2 DEF Within
  <2>3. CASE k = 3
    BY <1>1, <2>3 DEF Within
  <2>4. CASE k = 4
    BY <1>1, <2>4 DEF Within
  <2> QED BY <2>1, <2>2, <2>3, <2>4
<1> QED BY <1>2, <1>3

LEMMA WindowReached ==
    ASSUME NEW pn \in Nat, NEW last \in Nat, last <= pn, NEW k \in 1..4, Within(pn - last, k)
    PROVE  Within(pn - (last + 1) - 1, k) /\ Within(last + 1 - pn, k)
<1>1. 256^0 = 1 /\ 256^1 = 256 /\ 256^2 = 65536 /\ 256^3 = 16777216
  OBVIOUS
<1>2. CASE k = 1
  BY <1>1, <1>2 DEF Within
<1>3. CASE k = 2
  BY <1>1, <1>3 DEF Within
<1>4. CASE k = 3
  BY <1>1, <1>4 DEF Within
<1>5. CASE k = 4
  BY <1>1, <1>5 DEF Within
<1> QED BY <1>2, <1>3, <1>4, <1>5

\* The peer opens a packet as sent.
LEMMA PeerOpens ==
    ASSUME NEW s \in Sides, NEW from \in Sides, s # from,
           NEW first \in FirstBytes, NEW pn \in Numbers, NEW payload \in Payloads,
           PacketLen(first, payload) >= PN_OFFSET + 4 + SAMPLE,
           received[s] \in Nat, received[s] <= pn, Within(pn - received[s], PnLen(first))
    PROVE  LET p == Unmasked(s, SentBytes(Key(from), first, pn, payload))
           IN  /\ MadeOf(s, p).pn = pn /\ MadeOf(s, p).payload = <<payload>>
               /\ PnOf(s, p) = pn /\ OpenedOf(s, p) # <<>>
<1> DEFINE K == Key(from)
           c == Clear(K, first, pn, payload)
           S == SealOf(K, first, pn, payload)
           H == Header(first, pn)
           h == HeaderLen(first)
           n == PacketLen(first, payload)
<1>1. PeerKeys(s) = K
  BY RemoteIsPeers
<1>2. n >= PN_OFFSET + 4 /\ n > h
  <2>1. n >= 6 + SAMPLE /\ SAMPLE \in Nat \ {0}
    BY ProtectionConstants DEF PN_OFFSET
  <2>1a. n \in Nat /\ h \in 3..6
    BY ClearCells, HeaderCells DEF LaidOut
  <2>2. PN_OFFSET + 4 = 6
    BY DEF PN_OFFSET
  <2> HIDE DEF n, h
  <2> QED BY <2>1, <2>1a, <2>2
<1>3. Unmasked(s, SentBytes(K, first, pn, payload)) = c
  <2> HIDE DEF K, c
  <2> QED BY <1>1, <1>2, SentCells DEF SentLikeClear, Unmasked, c
<1>4. /\ SplitOf(c) = h /\ HeaderOf(c) = H
      /\ RestOf(c) = Sealed(S) /\ RestOf(c) # <<>> /\ RestOf(c)[1].sealed = <<S>>
  <2> HIDE DEF K
  <2> QED BY <1>2, ClearSplits
<1>5. Known(NumberOf(c), received[s] + 1) /\ PnOf(s, c) = pn
  <2> DEFINE number == SubSeq(H, PN_OFFSET + 1, h)
             last == received[s]
             e == last + 1
             k == PnLen(first)
  <2>1. NumberOf(c) = number
    <3> HIDE DEF c, H, h
    <3> QED BY <1>4 DEF NumberOf
  <2>2. pn \in Nat /\ last \in Nat /\ last <= pn /\ Within(pn - last, k)
    BY ProtectionConstants DEF Numbers
  <2>3. k \in 1..4
    BY LengthBounds
  <2> HIDE DEF last, k
  <2>4. Within(pn - e - 1, k) /\ Within(e - pn, k)
    BY <2>2, <2>3, WindowReached
  <2>5. e \in Nat
    BY <2>2
  <2> HIDE DEF e
  <2>6. Known(number, e) /\ FromBeBytes(number, e) = pn
    BY <2>4, <2>5, NumberReadBack DEF k
  <2> QED BY <2>1, <2>6 DEF PnOf, e, last
<1>6. S.payload = payload /\ S = Under(K, pn, H, S.payload)
  BY DEF SealOf, Under
<1> DEFINE rest == RestOf(c)
<1> HIDE DEF S, H, K
<1>7. DecryptPayload(K, pn, H, rest) = <<payload>>
  <2> HIDE DEF rest
  <2>1. rest = Sealed(S) /\ rest # <<>> /\ rest[1].sealed = <<S>>
    BY <1>4 DEF rest
  <2>2. rest[1].sealed # <<>> /\ rest[1].sealed[1] = S
    BY <2>1
  <2> QED BY <1>6, <2>1, <2>2 DEF DecryptPayload, Open
<1> HIDE DEF rest, c
<1>8. OpenedOf(s, c) = <<payload>>
  BY <1>1, <1>4, <1>5, <1>7 DEF OpenedOf, rest
<1>9. MadeOf(s, c).pn = pn /\ MadeOf(s, c).payload = <<payload>>
  BY <1>5, <1>8 DEF MadeOf, Seen
<1> QED BY <1>3, <1>5, <1>8, <1>9 DEF K

\* The first m cells of a packet sent, each where it was put, whatever its byte is now.
InPlace(K, first, pn, payload, bytes, m) ==
    LET c == Clear(K, first, pn, payload)
    IN  /\ m <= PacketLen(first, payload) /\ m >= PN_OFFSET + 4 /\ OfCells(bytes, m)
        /\ \A i \in 1..m : bytes[i].sealed = c[i].sealed /\ bytes[i].at = c[i].at

\* Whatever a receiver opens is, cell by cell, what its peer sealed, for the cells say
\* where they were put, and then the masked bytes are those that were sent.
LEMMA OnlySealedOpens ==
    ASSUME NEW s \in Sides, NEW from \in Sides,
           NEW first \in FirstBytes, NEW pn, NEW payload \in Payloads,
           NEW bytes, NEW m \in Nat, InPlace(Key(from), first, pn, payload, bytes, m),
           MadeOf(s, Unmasked(s, bytes)).payload # <<>>
    PROVE  /\ s # from /\ bytes = SentBytes(Key(from), first, pn, payload)
           /\ MadeOf(s, Unmasked(s, bytes)).payload = <<payload>>
<1> DEFINE K == Key(from)
           c == Clear(K, first, pn, payload)
           S == SealOf(K, first, pn, payload)
           H == Header(first, pn)
           h == HeaderLen(first)
           n == PacketLen(first, payload)
           p == Unmasked(s, bytes)
           rest == RestOf(p)
           split == SplitOf(p)
           R == rest[1].sealed[1]
<1>0. /\ m >= PN_OFFSET + 4 /\ m <= n /\ OfCells(bytes, m)
      /\ \A i \in 1..m : bytes[i].sealed = c[i].sealed /\ bytes[i].at = c[i].at
  BY DEF InPlace
<1>1. /\ n \in Nat /\ n - h \in Nat /\ OfCells(c, n)
      /\ \A i \in 1..h : c[i] = Plain(H[i])
      /\ \A i \in 1..(n - h) : c[h + i] = [byte |-> {}, sealed |-> <<S>>, at |-> i]
      /\ Sealed(S) = [i \in 1..(n - h) |-> [byte |-> {}, sealed |-> <<S>>, at |-> i]]
  <2>1. LaidOut(K, first, pn, payload)
    BY ClearCells
  <2> QED BY <2>1 DEF LaidOut
<1>2. h \in 3..6 /\ H = [i \in 1..h |-> H[i]]
  BY HeaderCells
<1>3. /\ EncryptHeader(PeerKeys(s).hp, PN_OFFSET, p) = bytes /\ OfCells(p, m)
      /\ \A i \in 1..m : p[i].sealed = bytes[i].sealed /\ p[i].at = bytes[i].at
  <2>1. PN_OFFSET \in Nat \ {0}
    BY DEF PN_OFFSET
  <2>2. MasksBack(PeerKeys(s).hp, PN_OFFSET, m, bytes)
    BY <1>0, <2>1, UnmaskedOnce
  <2> QED BY <2>2 DEF Unmasked, MasksBack
<1>4. S.key = K.key /\ S.header = H /\ S.payload = payload
  BY DEF SealOf, Under
<1>5. MadeOf(s, p).payload # <<>>
  OBVIOUS
<1>6. \A i \in 1..m : p[i].sealed = c[i].sealed /\ p[i].at = c[i].at
  <2> HIDE DEF c, p
  <2> QED BY <1>0, <1>3
<1> HIDE DEF K, c, S, H, h, n, p
<1>7. PICK x : /\ MadeOf(s, p).payload = DecryptPayload(PeerKeys(s), x, HeaderOf(p), rest)
               /\ DecryptPayload(PeerKeys(s), x, HeaderOf(p), rest) # <<>>
  <2>1. MadeOf(s, p).payload = OpenedOf(s, p)
    BY DEF MadeOf, Seen
  <2>2. Known(NumberOf(p), received[s] + 1)
    BY <1>5, <2>1 DEF OpenedOf
  <2>3. OpenedOf(s, p) = DecryptPayload(PeerKeys(s), PnOf(s, p), HeaderOf(p), rest)
    BY <2>2 DEF OpenedOf
  <2> QED BY <1>5, <2>1, <2>3
<1>8. /\ rest # <<>> /\ rest[1].sealed # <<>>
      /\ rest = Sealed(R) /\ R = Under(PeerKeys(s), x, HeaderOf(p), R.payload)
      /\ MadeOf(s, p).payload = <<R.payload>>
  <2> HIDE DEF rest
  <2> QED BY <1>7 DEF DecryptPayload, Open
<1>9. R.key = PeerKeys(s).key /\ R.header = HeaderOf(p)
  <2>1. /\ Under(PeerKeys(s), x, HeaderOf(p), R.payload).key = PeerKeys(s).key
        /\ Under(PeerKeys(s), x, HeaderOf(p), R.payload).header = HeaderOf(p)
    BY DEF Under
  <2> QED BY <1>8, <2>1
<1>10. split \in 3..6 /\ split \in Nat /\ split <= m
  <2>1. PN_OFFSET = 2 /\ PnLen(p[1].byte) \in 1..4
    BY LengthBounds DEF PN_OFFSET
  <2> QED BY <1>0, <2>1 DEF SplitOf
<1>11. p \in Seq({p[i] : i \in 1..m}) /\ Len(p) = m
  BY <1>3, SeqOfCells DEF OfCells
<1>12. /\ rest \in Seq({p[i] : i \in 1..m}) /\ Len(rest) = m - split
       /\ \A i \in 1..(m - split) : rest[i] = p[split + i]
  <2> DEFINE B == {p[i] : i \in 1..m}
  <2>1. p \in Seq(B)
    BY <1>11
  <2> HIDE DEF B, split
  <2>2. LET r == SubSeq(p, split + 1, Len(p))
        IN  r \in Seq(B) /\ Len(r) = Len(p) - split
            /\ \A i \in 1..(Len(p) - split) : r[i] = p[split + i]
    BY <1>10, <1>11, <2>1, Ending
  <2>3. rest = SubSeq(p, split + 1, Len(p))
    BY DEF RestOf, split
  <2> HIDE DEF rest
  <2> QED BY <1>11, <2>2, <2>3 DEF B
<1> HIDE DEF rest, split
<1>13. m > split /\ split + 1 \in 1..m /\ rest[1] = p[split + 1]
  <2>1. Len(rest) # 0
    BY <1>8, <1>12
  <2> QED BY <1>10, <1>12, <2>1
<1>14. rest[1].sealed = c[split + 1].sealed /\ rest[1].at = c[split + 1].at
  BY <1>6, <1>13
<1>15. split + 1 > h
  <2> SUFFICES ASSUME split + 1 <= h PROVE FALSE
    BY <1>2, <1>10
  <2>1. split + 1 \in 1..h
    BY <1>2, <1>10
  <2>2. c[split + 1] = [byte |-> H[split + 1], sealed |-> <<>>, at |-> 0]
    BY <1>1, <2>1 DEF Plain
  <2>3. c[split + 1].sealed = <<>>
    BY <2>2
  <2> QED BY <1>8, <1>14, <2>3
<1> DEFINE j == split + 1 - h
<1>16. j \in 1..(n - h) /\ h + j = split + 1
  BY <1>0, <1>1, <1>2, <1>10, <1>13, <1>15
<1>17. rest[1].sealed = <<S>> /\ rest[1].at = j
  <2>1. c[h + j] = [byte |-> {}, sealed |-> <<S>>, at |-> j]
    BY <1>1, <1>16
  <2> HIDE DEF j
  <2>2. c[h + j].sealed = <<S>> /\ c[h + j].at = j
    BY <2>1
  <2> QED BY <1>14, <1>16, <2>2
<1>18. R = S
  BY <1>17
<1>19. split = h
  <2>1. rest[1] = [byte |-> {}, sealed |-> <<S>>, at |-> 1]
    <3>1. 1 \in 1..(n - h)
      BY <1>1, <1>16
    <3> QED BY <1>1, <1>8, <1>18, <3>1
  <2>2. rest[1].at = 1
    BY <2>1
  <2> QED BY <1>2, <1>10, <1>17, <2>2
<1>20. s # from /\ PeerKeys(s) = K
  <2>1. PICK t \in Sides : t # s
    BY DEF Sides
  <2>2. PeerKeys(s) = Key(t)
    BY <2>1, RemoteIsPeers
  <2>3. Key(t).key = Key(from).key
    BY <1>4, <1>9, <1>18, <2>2 DEF K
  <2>4. t = from
    BY <2>3, KeysByDirection
  <2> QED BY <2>1, <2>2, <2>4 DEF K
<1>21. m = n
  <2>1. rest = [i \in 1..(n - h) |-> [byte |-> {}, sealed |-> <<S>>, at |-> i]]
    BY <1>1, <1>8, <1>18
  <2>2. Len(rest) = n - h
    <3>1. DOMAIN rest = 1..(n - h)
      BY <2>1
    <3>2. DOMAIN rest = 1..Len(rest) /\ Len(rest) \in Nat
      BY <1>12
    <3> QED BY <1>1, <3>1, <3>2
  <2> QED BY <1>1, <1>2, <1>12, <1>19, <2>2
<1>22. ASSUME NEW i \in 1..n PROVE p[i] = c[i]
  <2>1. CASE i \in 1..h
    <3>1. c[i] = [byte |-> H[i], sealed |-> <<>>, at |-> 0]
      BY <1>1, <2>1 DEF Plain
    <3>2. p[i].sealed = <<>> /\ p[i].at = 0
      <4>1. c[i].sealed = <<>> /\ c[i].at = 0
        BY <3>1
      <4> QED BY <1>6, <1>21, <4>1
    <3>3. p[i].byte = H[i]
      <4>1. HeaderOf(p) = H
        BY <1>4, <1>9, <1>18
      <4>2. HeaderOf(p)[i] = p[i].byte
        BY <1>19, <2>1 DEF HeaderOf, split
      <4> QED BY <4>1, <4>2
    <3>4. p[i] = [byte |-> p[i].byte, sealed |-> p[i].sealed, at |-> p[i].at]
      BY <1>3, <1>21 DEF OfCells, IsCell
    <3> QED BY <3>1, <3>2, <3>3, <3>4
  <2>2. CASE ~(i \in 1..h)
    <3> DEFINE k == i - h
    <3>1. k \in 1..(n - h) /\ h + k = i
      BY <1>1, <1>2, <2>2
    <3> HIDE DEF k
    <3>2. rest[k] = p[i] /\ rest[k] = [byte |-> {}, sealed |-> <<S>>, at |-> k]
      BY <1>1, <1>8, <1>12, <1>18, <1>19, <1>21, <3>1
    <3>3. c[i] = [byte |-> {}, sealed |-> <<S>>, at |-> k]
      BY <1>1, <3>1
    <3> QED BY <3>2, <3>3
  <2> QED BY <2>1, <2>2
<1>23. p = c
  BY <1>1, <1>3, <1>21, <1>22 DEF OfCells
<1>24. bytes = SentBytes(K, first, pn, payload)
  BY <1>3, <1>20, <1>23 DEF SentBytes, c
<1>25. MadeOf(s, p).payload = <<payload>>
  BY <1>4, <1>8, <1>18
<1> QED BY <1>20, <1>24, <1>25 DEF K, p

-----------------------------------------------------------------------------
(* The packet under way is as it was sent, or one thing of it has changed. *)

Damaged(sent, bytes) ==
    \/ \E n \in (PN_OFFSET + 4)..(Len(sent) - 1) : bytes = SubSeq(sent, 1, n)
    \/ \E i \in {1, PN_OFFSET + 1}, b \in {0, 2} :
          bytes = [sent EXCEPT ![i] = With(sent[i], Xor(sent[i].byte, {b}))]
    \/ bytes = [sent EXCEPT ![Len(sent)] = With(sent[Len(sent)], {0})]

SentOf(p) == SentBytes(Key(p.from), p.first, p.pn, p.payload)

OneUnderWay ==
    /\ wire = <<wire[1]>> /\ wire[1].from \in Sides
    /\ wire[1].first \in FirstBytes /\ wire[1].pn \in Numbers
    /\ wire[1].payload \in Payloads
    /\ PacketLen(wire[1].first, wire[1].payload) >= PN_OFFSET + 4 + SAMPLE
    /\ whole => wire[1].bytes = SentOf(wire[1])
    /\ ~whole => Damaged(SentOf(wire[1]), wire[1].bytes)

UnderWay == IF wire = <<>> THEN whole /\ seen = Unseen ELSE OneUnderWay

OneByte(x, w, n, i, b) ==
    /\ OfCells(x, n) /\ x[i].byte = b
    /\ \A k \in 1..n : x[k].sealed = w[k].sealed /\ x[k].at = w[k].at

LEMMA OneCellChanged ==
    ASSUME NEW w, NEW n \in Nat, OfCells(w, n), NEW i \in 1..n, NEW b,
           NEW x, x = [w EXCEPT ![i] = With(w[i], b)]
    PROVE  OneByte(x, w, n, i, b)
<1> DEFINE c == With(w[i], b)
<1>1. c = [byte |-> b, sealed |-> w[i].sealed, at |-> w[i].at]
  BY DEF With
<1>2. IsCell(c) /\ c.byte = b /\ c.sealed = w[i].sealed /\ c.at = w[i].at
  BY <1>1 DEF IsCell
<1>3. DOMAIN w = 1..n /\ w = [k \in 1..n |-> w[k]] /\ \A k \in 1..n : IsCell(w[k])
  BY DEF OfCells
<1> HIDE DEF c
<1>4. x = [k \in 1..n |-> x[k]] /\ x[i] = c /\ \A k \in 1..n : k # i => x[k] = w[k]
  BY <1>3 DEF c
<1>5. \A k \in 1..n : IsCell(x[k])
  BY <1>2, <1>3, <1>4
<1>6. ASSUME NEW k \in 1..n PROVE x[k].sealed = w[k].sealed /\ x[k].at = w[k].at
  <2>1. CASE k = i
    BY <1>2, <1>4, <2>1
  <2>2. CASE k # i
    BY <1>4, <2>2
  <2> QED BY <2>1, <2>2
<1> QED BY <1>2, <1>4, <1>5, <1>6 DEF OfCells, OneByte

LEMMA CutShort ==
    ASSUME NEW w, NEW n \in Nat, OfCells(w, n), NEW k \in 1..(n - 1)
    PROVE  LET x == SubSeq(w, 1, k)
           IN  /\ OfCells(x, k) /\ x # w /\ \A i \in 1..k : x[i] = w[i]
<1> DEFINE B == {w[i] : i \in 1..n}
           x == SubSeq(w, 1, k)
<1>1. w \in Seq(B) /\ Len(w) = n
  BY SeqOfCells DEF OfCells
<1> HIDE DEF B
<1>2. k \in Nat /\ k < n /\ 1..k \subseteq 1..n
  OBVIOUS
<1>3. x \in Seq(B) /\ Len(x) = k /\ \A i \in 1..k : x[i] = w[i]
  BY <1>1, <1>2
<1> HIDE DEF x
<1>4. x = [i \in 1..k |-> x[i]]
  BY <1>3
<1>5. x # w
  BY <1>1, <1>2, <1>3
<1>6. \A i \in 1..k : IsCell(x[i])
  BY <1>2, <1>3 DEF OfCells
<1> QED BY <1>3, <1>4, <1>5, <1>6 DEF OfCells, x

LEMMA DamagedDiffers ==
    ASSUME NEW K, NEW first \in FirstBytes, NEW pn, NEW payload \in Payloads,
           PacketLen(first, payload) > PN_OFFSET + 4,
           PacketLen(first, payload) > HeaderLen(first),
           NEW bytes, Damaged(SentBytes(K, first, pn, payload), bytes)
    PROVE  /\ bytes # SentBytes(K, first, pn, payload)
           /\ \E m \in Nat : InPlace(K, first, pn, payload, bytes, m)
<1> DEFINE w == SentBytes(K, first, pn, payload)
           c == Clear(K, first, pn, payload)
           S == SealOf(K, first, pn, payload)
           n == PacketLen(first, payload)
           h == HeaderLen(first)
<1>1. /\ n \in Nat /\ n - h \in Nat
      /\ \A i \in 1..(n - h) : c[h + i] = [byte |-> {}, sealed |-> <<S>>, at |-> i]
  <2>1. LaidOut(K, first, pn, payload)
    BY ClearCells
  <2> QED BY <2>1 DEF LaidOut
<1>2. h \in 3..6 /\ PN_OFFSET = 2 /\ n > 6 /\ n > h
  BY HeaderCells DEF PN_OFFSET
<1>3. /\ OfCells(w, n)
      /\ \A i \in 1..n : /\ w[i].sealed = c[i].sealed
                         /\ w[i].at = c[i].at
                         /\ i > PN_OFFSET + 4 => w[i] = c[i]
  <2>1. n >= PN_OFFSET + 4
    BY <1>1, <1>2
  <2> QED BY <2>1, SentCells DEF SentLikeClear
<1>4. Len(w) = n /\ Damaged(w, bytes)
  <2> HIDE DEF w, n
  <2>1. w = [i \in 1..n |-> w[i]]
    BY <1>3 DEF OfCells
  <2>2. Len(w) = n
    BY <1>1, <2>1, SeqOfCells
  <2> QED BY <2>2 DEF w
<1> HIDE DEF w, n, S, h, c
<1>5. ASSUME NEW k \in (PN_OFFSET + 4)..(Len(w) - 1), bytes = SubSeq(w, 1, k)
      PROVE  bytes # w /\ \E m \in Nat : InPlace(K, first, pn, payload, bytes, m)
  <2>1. k \in 1..(n - 1) /\ k \in Nat /\ k <= n /\ k >= PN_OFFSET + 4 /\ 1..k \subseteq 1..n
    BY <1>1, <1>2, <1>4
  <2>2. OfCells(bytes, k) /\ bytes # w /\ \A i \in 1..k : bytes[i] = w[i]
    BY <1>1, <1>3, <1>5, <2>1, CutShort
  <2>3. InPlace(K, first, pn, payload, bytes, k)
    BY <1>3, <2>1, <2>2 DEF InPlace, c, n
  <2> QED BY <2>1, <2>2, <2>3
<1>6. ASSUME NEW i \in 1..n, NEW b, b # w[i].byte, bytes = [w EXCEPT ![i] = With(w[i], b)]
      PROVE  bytes # w /\ \E m \in Nat : InPlace(K, first, pn, payload, bytes, m)
  <2>1. /\ OfCells(bytes, n) /\ bytes[i].byte = b
        /\ \A k \in 1..n : bytes[k].sealed = w[k].sealed /\ bytes[k].at = w[k].at
    <3>1. OneByte(bytes, w, n, i, b)
      BY <1>1, <1>3, <1>6, OneCellChanged
    <3> QED BY <3>1 DEF OneByte
  <2>2. InPlace(K, first, pn, payload, bytes, n)
    BY <1>1, <1>2, <1>3, <2>1 DEF InPlace, c, n
  <2> QED BY <1>1, <1>6, <2>1, <2>2
<1>7. ASSUME NEW b, NEW x PROVE Xor(x, {b}) # x
  <2>1. b \in Xor(x, {b}) <=> ~(b \in x)
    BY DEF Xor
  <2> QED BY <2>1
<1>8. w[n].byte # {0} /\ n \in 1..n
  <2>1. n - h \in 1..(n - h) /\ h + (n - h) = n /\ n \in 1..n /\ n > PN_OFFSET + 4
    BY <1>1, <1>2
  <2>2. w[n] = [byte |-> {}, sealed |-> <<S>>, at |-> n - h]
    BY <1>1, <1>3, <2>1
  <2>3. w[n].byte = {}
    BY <2>2
  <2> QED BY <2>1, <2>3
<1>9. CASE \E k \in (PN_OFFSET + 4)..(Len(w) - 1) : bytes = SubSeq(w, 1, k)
  BY <1>5, <1>9 DEF w
<1>10. CASE \E i \in {1, PN_OFFSET + 1}, b \in {0, 2} :
               bytes = [w EXCEPT ![i] = With(w[i], Xor(w[i].byte, {b}))]
  <2>1. PICK i \in {1, PN_OFFSET + 1}, b \in {0, 2} :
               bytes = [w EXCEPT ![i] = With(w[i], Xor(w[i].byte, {b}))]
    BY <1>10
  <2>2. i \in 1..n
    BY <1>1, <1>2
  <2>3. bytes # w /\ \E m \in Nat : InPlace(K, first, pn, payload, bytes, m)
    BY <1>6, <1>7, <2>1, <2>2
  <2> QED BY <2>3 DEF w
<1>11. CASE bytes = [w EXCEPT ![Len(w)] = With(w[Len(w)], {0})]
  <2>1. bytes # w /\ \E m \in Nat : InPlace(K, first, pn, payload, bytes, m)
    BY <1>4, <1>6, <1>8, <1>11
  <2> QED BY <2>1 DEF w
<1> QED BY <1>4, <1>9, <1>10, <1>11 DEF Damaged

LEMMA SendPutsUnderWay ==
    ASSUME UnderWay, UsedInOrder,
           NEW s \in Sides, NEW f \in FirstBytes, NEW p \in Payloads, Send(s, f, p)
    PROVE  UnderWay' /\ seen' = Unseen /\ wire' # <<>>
<1> DEFINE x == Packet(s, f, next_pn[s], p, SentBytes(Key(s), f, next_pn[s], p))
<1>1. /\ wire = <<>> /\ wire' = <<x>> /\ next_pn[s] < MaxPackets
      /\ whole' = whole /\ seen' = seen /\ dst_cid' = dst_cid
      /\ PnLen(f) + Len(p) + TAG >= 4 + SAMPLE
  BY DEF Send, SentBytes, Clear, Key
<1>2. whole' /\ seen' = Unseen
  BY <1>1 DEF UnderWay
<1>3. next_pn[s] \in Numbers
  BY DEF UsedInOrder
<1>4. PacketLen(f, p) >= PN_OFFSET + 4 + SAMPLE
  <2>1. Len(p) \in Nat /\ TAG \in Nat /\ SAMPLE \in Nat
    <3>1. p \in Seq(Nat)
      BY ProtectionConstants
    <3> QED BY <3>1, ProtectionConstants
  <2> QED BY <1>1, <2>1, LengthBounds DEF PacketLen, HeaderLen, PN_OFFSET
<1>5. /\ x.from = s /\ x.first = f /\ x.pn = next_pn[s] /\ x.payload = p
      /\ x.bytes = SentBytes(Key(s), f, next_pn[s], p)
  BY DEF Packet
<1>6. Key(s)' = Key(s)
  BY <1>1 DEF Key
<1> HIDE DEF x
<1>7. wire'[1] = x /\ wire' = <<wire'[1]>> /\ wire' # <<>>
  BY <1>1
<1>8. SentOf(wire[1])' = SentBytes(Key(s), f, next_pn[s], p)
  BY <1>5, <1>6, <1>7 DEF SentOf
<1>9. OneUnderWay'
  BY <1>2, <1>3, <1>4, <1>5, <1>7, <1>8 DEF OneUnderWay
<1> QED BY <1>2, <1>7, <1>9 DEF UnderWay

LEMMA DamageKeepsUnderWay ==
    ASSUME UnderWay, Damage
    PROVE  UnderWay' /\ ~whole' /\ seen' = Unseen
<1> DEFINE w == wire[1].bytes
<1>1. /\ wire # <<>> /\ whole /\ whole' = FALSE /\ seen' = Unseen /\ dst_cid' = dst_cid
      /\ OneUnderWay
  BY DEF Damage, UnderWay
<1>2. w = SentOf(wire[1])
  BY <1>1 DEF OneUnderWay
<1>3. PICK bytes : Becomes(bytes) /\ Damaged(w, bytes)
  <2>1. \/ \E n \in (PN_OFFSET + 4)..(Len(w) - 1) : Becomes(SubSeq(w, 1, n))
        \/ \E i \in {1, PN_OFFSET + 1}, b \in {0, 2} :
              Becomes([w EXCEPT ![i] = With(w[i], Xor(w[i].byte, {b}))])
        \/ Becomes([w EXCEPT ![Len(w)] = With(w[Len(w)], {0})])
    BY DEF Damage
  <2> HIDE DEF w
  <2> QED BY <2>1, Zenon DEF Damaged
<1>4. /\ wire' = <<wire'[1]>> /\ wire' # <<>> /\ wire'[1].bytes = bytes
      /\ wire'[1].from = wire[1].from /\ wire'[1].first = wire[1].first
      /\ wire'[1].pn = wire[1].pn /\ wire'[1].payload = wire[1].payload
  BY <1>3 DEF Becomes, Packet
<1>5. SentOf(wire[1])' = SentOf(wire[1])
  BY <1>1, <1>4 DEF SentOf, Key
<1>6. Damaged(SentOf(wire[1]), bytes)
  BY <1>2, <1>3
<1> HIDE DEF w
<1>7. OneUnderWay'
  BY <1>1, <1>4, <1>5, <1>6 DEF OneUnderWay
<1> QED BY <1>1, <1>4, <1>7 DEF UnderWay

LEMMA StartsUnderWay == Init => UnderWay
BY DEF Init, UnderWay

LEMMA KeptUnderWay == ASSUME UnderWay, UsedInOrder, [Next]_vars PROVE UnderWay'
<1>1. CASE \E s \in Sides, f \in FirstBytes, p \in Payloads : Send(s, f, p)
  BY <1>1, SendPutsUnderWay
<1>2. CASE \E s \in Sides : Receive(s)
  <2>1. wire' = wire /\ whole' = whole /\ dst_cid' = dst_cid /\ wire # <<>>
    BY <1>2 DEF Receive
  <2> QED BY <2>1 DEF UnderWay, OneUnderWay, SentOf, Key
<1>3. CASE Damage
  BY <1>3, DamageKeepsUnderWay
<1>4. CASE Gone
  BY <1>4 DEF Gone, UnderWay
<1>5. CASE UNCHANGED vars
  BY <1>5 DEF vars, UnderWay, OneUnderWay, SentOf, Key
<1> QED BY <1>1, <1>2, <1>3, <1>4, <1>5 DEF Next

LEMMA LongEnough ==
    ASSUME OneUnderWay
    PROVE  LET n == PacketLen(wire[1].first, wire[1].payload)
           IN  n > PN_OFFSET + 4 /\ n > HeaderLen(wire[1].first) /\ n \in Nat
<1> DEFINE f == wire[1].first
           n == PacketLen(f, wire[1].payload)
<1>1. f \in FirstBytes /\ wire[1].payload \in Payloads /\ n >= PN_OFFSET + 4 + SAMPLE
  BY DEF OneUnderWay
<1>2. HeaderLen(f) \in 3..6 /\ PN_OFFSET = 2 /\ SAMPLE \in Nat \ {0}
  BY <1>1, HeaderCells, ProtectionConstants DEF PN_OFFSET
<1>3. LaidOut(Key("Client"), f, 0, wire[1].payload)
  BY <1>1, ClearCells
<1>4. n \in Nat
  BY <1>3 DEF LaidOut
<1> HIDE DEF f, n
<1>5. n > PN_OFFSET + 4 /\ n > HeaderLen(f)
  BY <1>1, <1>2, <1>4
<1> QED BY <1>4, <1>5 DEF f, n

\* A receiver who opens what is under way is the peer, and it is as it was sent.
LEMMA OpenedIsSent ==
    ASSUME UnderWay, NEW s \in Sides, Receive(s), seen'.payload # <<>>
    PROVE  whole /\ s # wire[1].from /\ seen'.payload = <<wire[1].payload>>
<1> DEFINE p == wire[1]
           K == Key(p.from)
           n == PacketLen(p.first, p.payload)
           made == MadeOf(s, Unmasked(s, p.bytes))
<1>1. OneUnderWay /\ seen' = made
  <2>1. wire # <<>>
    BY DEF Receive
  <2> QED BY <2>1, ReceiveMakes DEF UnderWay
<1>2. /\ p.from \in Sides /\ p.first \in FirstBytes /\ p.payload \in Payloads
      /\ whole => p.bytes = SentOf(p)
      /\ ~whole => Damaged(SentOf(p), p.bytes)
      /\ n > PN_OFFSET + 4 /\ n > HeaderLen(p.first) /\ n \in Nat
  BY <1>1, LongEnough DEF OneUnderWay
<1> HIDE DEF p
<1>3. SentOf(p) = SentBytes(K, p.first, p.pn, p.payload)
  BY DEF SentOf
<1>4. ~whole => p.bytes # SentOf(p)
                /\ \E m \in Nat : InPlace(K, p.first, p.pn, p.payload, p.bytes, m)
  <2> HIDE DEF K
  <2> QED BY <1>2, <1>3, DamagedDiffers
<1>5. whole => InPlace(K, p.first, p.pn, p.payload, p.bytes, n)
  <2> SUFFICES ASSUME whole PROVE InPlace(K, p.first, p.pn, p.payload, p.bytes, n)
    OBVIOUS
  <2> DEFINE c == Clear(K, p.first, p.pn, p.payload)
             w == SentBytes(K, p.first, p.pn, p.payload)
  <2>1. n >= PN_OFFSET + 4
    BY <1>2 DEF PN_OFFSET
  <2>2. OfCells(w, n) /\ \A i \in 1..n : w[i].sealed = c[i].sealed /\ w[i].at = c[i].at
    <3>1. p.first \in FirstBytes /\ p.payload \in Payloads
          /\ PacketLen(p.first, p.payload) >= PN_OFFSET + 4
      BY <1>2, <2>1
    <3> HIDE DEF K
    <3>2. SentLikeClear(K, p.first, p.pn, p.payload)
      BY <3>1, SentCells
    <3> QED BY <3>2 DEF SentLikeClear
  <2>3. w = p.bytes
    BY <1>2, <1>3
  <2> HIDE DEF w, c, n, K
  <2> QED BY <1>2, <2>1, <2>2, <2>3 DEF InPlace, c, n
<1>6. PICK m \in Nat : InPlace(K, p.first, p.pn, p.payload, p.bytes, m)
  BY <1>2, <1>4, <1>5
<1>7. made.payload # <<>>
  BY <1>1
<1> HIDE DEF n, made
<1>8. /\ s # p.from /\ p.bytes = SentBytes(K, p.first, p.pn, p.payload)
      /\ made.payload = <<p.payload>>
  <2> DEFINE from == p.from  first == p.first  pn == p.pn  payload == p.payload
             bytes == p.bytes
  <2>1. /\ from \in Sides /\ first \in FirstBytes /\ payload \in Payloads
        /\ InPlace(Key(from), first, pn, payload, bytes, m)
        /\ MadeOf(s, Unmasked(s, bytes)).payload # <<>>
    BY <1>2, <1>6, <1>7 DEF made
  <2> HIDE DEF from, first, pn, payload, bytes
  <2>2. /\ s # from /\ bytes = SentBytes(Key(from), first, pn, payload)
        /\ MadeOf(s, Unmasked(s, bytes)).payload = <<payload>>
    BY <2>1, OnlySealedOpens
  <2> QED BY <2>2 DEF made, from, first, pn, payload, bytes
<1> QED BY <1>1, <1>3, <1>4, <1>8 DEF p

\* Nothing but what the peer sent, unchanged, is ever opened: not a packet that lost its
\* end or had a bit of its header or a byte of its payload changed, and not one's own
\* (packet_key.rs:56, keys.rs:26).
THEOREM OnlyPeersPacketsOpen == Spec => []OnlyThePeersOpens
<1>1. Init => OnlyThePeersOpens
  BY DEF Init, OnlyThePeersOpens, Unseen, Seen
<1>2. ASSUME UnderWay, UsedInOrder, OnlyThePeersOpens, [Next]_vars PROVE OnlyThePeersOpens'
  <2>1. CASE \E s \in Sides, f \in FirstBytes, p \in Payloads : Send(s, f, p)
    <3>1. seen' = Unseen
      BY <1>2, <2>1, SendPutsUnderWay
    <3> QED BY <3>1 DEF OnlyThePeersOpens, Unseen, Seen
  <2>2. ASSUME NEW s \in Sides, Receive(s) PROVE OnlyThePeersOpens'
    <3>1. wire' = wire /\ whole' = whole /\ seen'.by = s
      BY <2>2, ReceiveMakes DEF Receive
    <3>2. seen'.payload # <<>> => whole /\ s # wire[1].from /\ seen'.payload = <<wire[1].payload>>
      BY <1>2, <2>2, OpenedIsSent
    <3> QED BY <3>1, <3>2 DEF OnlyThePeersOpens
  <2>3. CASE Damage \/ Gone
    <3>1. seen' = Unseen
      BY <2>3 DEF Damage, Gone
    <3> QED BY <3>1 DEF OnlyThePeersOpens, Unseen, Seen
  <2>4. CASE UNCHANGED vars
    BY <1>2, <2>4 DEF vars, OnlyThePeersOpens
  <2> QED BY <1>2, <2>1, <2>2, <2>3, <2>4 DEF Next
<1> QED BY <1>1, <1>2, StartsUnderWay, KeptUnderWay, UsedStarts, UsedKept, PTL DEF Spec

-----------------------------------------------------------------------------
(* What a side has received is behind what the other seals next, and       *)
(* within half a window of what is under way.                              *)

Counted ==
    /\ received \in [Sides -> Nat]
    /\ \A s \in Sides : received[Peer(s)] <= next_pn[s]
    /\ wire # <<>> =>
           LET p    == wire[1]
               last == received[Peer(p.from)]
           IN  last <= p.pn /\ p.pn <= next_pn[p.from] /\ Within(p.pn - last, PnLen(p.first))

LEMMA PeersOfPeers ==
    ASSUME NEW s \in Sides
    PROVE  /\ Peer(s) \in Sides /\ Peer(s) # s /\ Peer(Peer(s)) = s
           /\ \A t \in Sides : t # s => t = Peer(s)
BY DEF Peer, Sides

LEMMA StartsCounted == Init => Counted
<1> SUFFICES ASSUME Init PROVE Counted
  OBVIOUS
<1> DEFINE last == IF FirstPn = 0 THEN 0 ELSE FirstPn - 1
<1>1. last \in Nat /\ last <= FirstPn
  BY ProtectionConstants
<1>2. \A s \in Sides : received[s] = last /\ next_pn[s] = FirstPn
  BY DEF Init
<1>3. received = [s \in Sides |-> last] /\ wire = <<>>
  BY DEF Init
<1> HIDE DEF last
<1> QED BY <1>1, <1>2, <1>3, PeersOfPeers DEF Counted

\* A whole packet opens for the peer and for nobody else, with its own number.
LEMMA PeerReceives ==
    ASSUME UnderWay, Counted, NEW s \in Sides, Receive(s), whole, s # wire[1].from
    PROVE  LET p == Unmasked(s, wire[1].bytes)
           IN  /\ seen'.pn = wire[1].pn /\ seen'.payload = <<wire[1].payload>>
               /\ PnOf(s, p) = wire[1].pn /\ OpenedOf(s, p) # <<>>
<1> DEFINE p == wire[1]
<1>1. OneUnderWay /\ wire # <<>>
  BY DEF Receive, UnderWay
<1>2. /\ p.from \in Sides /\ p.first \in FirstBytes /\ p.pn \in Numbers
      /\ p.payload \in Payloads
      /\ PacketLen(p.first, p.payload) >= PN_OFFSET + 4 + SAMPLE
      /\ p.bytes = SentBytes(Key(p.from), p.first, p.pn, p.payload)
  BY <1>1 DEF OneUnderWay, SentOf
<1>3. s = Peer(p.from)
  BY <1>2, PeersOfPeers
<1>4. received[s] \in Nat /\ received[s] <= p.pn /\ Within(p.pn - received[s], PnLen(p.first))
  BY <1>1, <1>3 DEF Counted
<1>5. seen' = MadeOf(s, Unmasked(s, p.bytes))
  BY ReceiveMakes
<1>6. s # p.from
  OBVIOUS
<1> HIDE DEF p
<1>7. LET u == Unmasked(s, p.bytes)
      IN  /\ MadeOf(s, u).pn = p.pn /\ MadeOf(s, u).payload = <<p.payload>>
          /\ PnOf(s, u) = p.pn /\ OpenedOf(s, u) # <<>>
  BY <1>2, <1>4, <1>6, PeerOpens
<1> QED BY <1>5, <1>7 DEF p

LEMMA KeptCounted == ASSUME UnderWay, UsedInOrder, Counted, [Next]_vars PROVE Counted'
<1>1. ASSUME NEW s \in Sides, NEW f \in FirstBytes, NEW p \in Payloads, Send(s, f, p)
      PROVE  Counted'
  <2> DEFINE last == received[Peer(s)]
  <2>1. /\ received' = received /\ next_pn' = [next_pn EXCEPT ![s] = @ + 1]
        /\ wire'[1].from = s /\ wire'[1].pn = next_pn[s] /\ wire'[1].first = f
        /\ Within(next_pn[s] - last, PnLen(f))
    BY <1>1 DEF Send, Packet
  <2>2. \A t \in Sides : next_pn[t] \in Nat /\ received[t] \in Nat
    BY DEF UsedInOrder, Counted
  <2>3. ASSUME NEW t \in Sides PROVE next_pn'[t] \in Nat /\ next_pn[t] <= next_pn'[t]
    <3>1. next_pn'[t] = IF t = s THEN next_pn[t] + 1 ELSE next_pn[t]
      BY <2>1 DEF UsedInOrder
    <3> QED BY <2>2, <3>1
  <2>4. ASSUME NEW t \in Sides PROVE received'[Peer(t)] <= next_pn'[t]
    <3>1. received[Peer(t)] <= next_pn[t] /\ received[Peer(t)] \in Nat
      BY <2>2, PeersOfPeers DEF Counted
    <3> QED BY <2>1, <2>2, <2>3, <3>1
  <2>5. last <= next_pn[s]
    BY DEF Counted
  <2>6. received' \in [Sides -> Nat]
    BY <2>1 DEF Counted
  <2> QED BY <2>1, <2>3, <2>4, <2>5, <2>6 DEF Counted
<1>2. ASSUME NEW s \in Sides, Receive(s) PROVE Counted'
  <2> DEFINE p == Unmasked(s, wire[1].bytes)
  <2>1. /\ next_pn' = next_pn /\ wire' = wire /\ wire # <<>>
        /\ \/ received' = received
           \/ /\ OpenedOf(s, p) # <<>>
              /\ received' = [received EXCEPT ![s] = PnOf(s, p)]
        /\ seen'.payload = OpenedOf(s, p)
    <3>1. next_pn' = next_pn /\ wire' = wire /\ wire # <<>>
      BY <1>2 DEF Receive
    <3> QED BY <1>2, <3>1, ReceiveMakes
  <2> HIDE DEF p
  <2>2. CASE received' = received
    BY <2>1, <2>2 DEF Counted
  <2>3. CASE OpenedOf(s, p) # <<>> /\ received' = [received EXCEPT ![s] = PnOf(s, p)]
    <3>1. whole /\ s # wire[1].from
      BY <1>2, <2>1, <2>3, OpenedIsSent
    <3>2. PnOf(s, p) = wire[1].pn
      BY <1>2, <3>1, PeerReceives DEF p
    <3>3. wire[1].from \in Sides /\ wire[1].pn \in Nat
      BY <2>1, ProtectionConstants DEF UnderWay, OneUnderWay, Numbers
    <3>4. s = Peer(wire[1].from)
      BY <3>1, <3>3, PeersOfPeers
    <3>5. /\ received' \in [Sides -> Nat] /\ received'[s] = wire[1].pn
          /\ \A t \in Sides : t # s => received'[t] = received[t]
      BY <2>3, <3>2, <3>3 DEF Counted
    <3>6. wire[1].pn <= next_pn[wire[1].from]
      BY <2>1 DEF Counted
    <3>7. Within(wire[1].pn - wire[1].pn, PnLen(wire[1].first))
      BY <3>3, LengthBounds, WithinNone
    <3>8. ASSUME NEW t \in Sides PROVE received'[Peer(t)] <= next_pn'[t]
      <4>1. CASE Peer(t) = s
        BY <2>1, <3>3, <3>4, <3>5, <3>6, <4>1, PeersOfPeers
      <4>2. CASE Peer(t) # s
        BY <2>1, <3>5, <4>2, PeersOfPeers DEF Counted
      <4> QED BY <4>1, <4>2
    <3> QED BY <2>1, <3>3, <3>4, <3>5, <3>6, <3>7, <3>8 DEF Counted
  <2> QED BY <2>1, <2>2, <2>3
<1>3. CASE Damage
  <2>1. /\ received' = received /\ next_pn' = next_pn /\ wire # <<>>
        /\ \E b : wire' = <<Packet(wire[1].from, wire[1].first, wire[1].pn, wire[1].payload, b)>>
    BY <1>3 DEF Damage, Becomes
  <2>2. /\ wire'[1].from = wire[1].from /\ wire'[1].pn = wire[1].pn
        /\ wire'[1].first = wire[1].first
    BY <2>1 DEF Packet
  <2> QED BY <2>1, <2>2 DEF Counted
<1>4. CASE Gone
  BY <1>4 DEF Gone, Counted
<1>5. CASE UNCHANGED vars
  BY <1>5 DEF vars, Counted
<1> QED BY <1>1, <1>2, <1>3, <1>4, <1>5 DEF Next

\* What one side seals the other opens, with the number and the payload it was sealed
\* with, whatever the mask, however long the packet number is in the packet and however
\* many packets there are: a number sent in as few bytes as quinn allows is read back
\* (header_key.rs:18, 26).
THEOREM PeersPacketsOpen == Spec => []WholePacketOpens
<1>1. Init => WholePacketOpens
  BY DEF Init, WholePacketOpens
<1>2. ASSUME UnderWay, UsedInOrder, Counted, WholePacketOpens, [Next]_vars
      PROVE  WholePacketOpens'
  <2>1. CASE seen' = Unseen
    <3>1. ~("nobody" \in Sides)
      BY DEF Sides
    <3>2. seen'.by = "nobody"
      BY <2>1 DEF Unseen, Seen
    <3> QED BY <3>1, <3>2 DEF WholePacketOpens
  <2>2. ASSUME NEW s \in Sides, Receive(s) PROVE WholePacketOpens'
    <3>1. wire' = wire /\ whole' = whole /\ seen'.by = s
      BY <2>2, ReceiveMakes DEF Receive
    <3>2. whole /\ s # wire[1].from =>
              seen'.pn = wire[1].pn /\ seen'.payload = <<wire[1].payload>>
      BY <1>2, <2>2, PeerReceives
    <3> QED BY <3>1, <3>2 DEF WholePacketOpens
  <2>3. CASE \E s \in Sides, f \in FirstBytes, p \in Payloads : Send(s, f, p)
    BY <1>2, <2>1, <2>3, SendPutsUnderWay
  <2>4. CASE Damage \/ Gone
    BY <2>1, <2>4 DEF Damage, Gone
  <2>5. CASE UNCHANGED vars
    BY <1>2, <2>5 DEF vars, WholePacketOpens
  <2> QED BY <1>2, <2>2, <2>3, <2>4, <2>5 DEF Next
<1> QED BY <1>1, <1>2, StartsUnderWay, KeptUnderWay, UsedStarts, UsedKept, StartsCounted,
           KeptCounted, PTL DEF Spec
=============================================================================
