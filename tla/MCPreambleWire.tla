---------------------------- MODULE MCPreambleWire ----------------------------
(* Bytes of four values, words and epochs of two bytes: lengths up to 15, so that an *)
(* altered length can point past the end of a datagram, to it, or inside.  Datagrams *)
(* of 15 bytes have room for entries of 10 bytes in all.                             *)
EXTENDS PreambleWire

MCMagic == <<2, 1>>

\* Entries of 4, 5, 6, 10 and 11 bytes: pairs that fit a datagram to the byte and
\* pairs one byte too long, one that fills a datagram, one that fits none.
MCEntries == [epoch : {1}, bytes : {<<>>, <<2>>}]
             \cup [epoch : {5}, bytes : {<<0, 2>>, [i \in 1..6 |-> 0], [i \in 1..7 |-> 1]}]
MCWindows == UNION {[1..n -> MCEntries] : n \in 0..3}
=============================================================================
