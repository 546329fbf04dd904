-------------------------- MODULE MCPacketProtection --------------------------
(* A payload is told by its first element, from which the mask is made: every mask *)
(* of the first byte, each with masks of the packet number.                        *)
EXTENDS PacketProtection

Bits(n) == {b \in 0..7 : (n \div 2^b) % 2 = 1}

MCPayloads == {<<n, 0, 0>> : n \in {0, 1, 2, 3, 26, 192, 255}} \cup {<<7>>}

\* Sampled from a sealed payload the mask depends on it; from anything else it is 85.
MCMask(hp, sample) ==
    LET n == IF sample[1].sealed = <<>> THEN 85 ELSE sample[1].sealed[1].payload[1]
        k == IF hp[1][2] = "client in" THEN 0 ELSE 37
    IN  [i \in 1..5 |-> Bits((n + i * k) % 256)]

MCIv(secret) == [i \in 1..5 |-> IF secret[2] = "client in" THEN {0} ELSE {1, i}]
=============================================================================
