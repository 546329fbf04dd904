--------------------------------- MODULE Bytes ---------------------------------
(***************************************************************************)
(* Numbers as bytes, the most significant first: to_be_bytes and           *)
(* from_be_bytes of Rust, as transcript.rs and control.rs use them.        *)
(***************************************************************************)
EXTENDS Naturals, Sequences

CONSTANTS
    BASE,          \* values of a byte (256)
    EPOCH          \* bytes of an epoch (8)

ASSUME ByteConstants == BASE \in Nat \ {0} /\ EPOCH \in Nat \ {0}

Byte == 0..(BASE - 1)

\* n and what is left of it as its last bytes are taken off, w times.
Shifts(n, w) == LET s[k \in 0..w] == IF k = 0 THEN n ELSE s[k - 1] \div BASE IN s

FitsIn(n, w) == Shifts(n, w)[w] = 0
BigEndian(n, w) == [i \in 1..w |-> Shifts(n, w)[w - i] % BASE]

\* The value of the first k bytes of s.
Values(s) == LET v[k \in 0..Len(s)] == IF k = 0 THEN 0 ELSE v[k - 1] * BASE + s[k] IN v
Value(s) == Values(s)[Len(s)]
=============================================================================
