------------------------------ MODULE KeyUpdate ------------------------------
(***************************************************************************)
(* Rekeying of an established connection: run_alice's commit, preamble and *)
(* force_key_update (testbed main.rs:535-544), MlsSession::next_1rtt_keys  *)
(* (session.rs:161-168), and quinn-proto's key update, which asks for the  *)
(* keys after the next update at the moment it makes the next one current. *)
(* Either side also makes one update by itself, the first, once it has     *)
(* sent as many packets as quinn drew when the connection began; from then *)
(* on packet_key.rs:71 bounds the number, and there is no other.           *)
(* Epochs count from the one the handshake pinned, so that the two sides   *)
(* start with the same current and next keys (Handshake shows that).       *)
(*                                                                         *)
(* Alice's datagrams hold her whole window: to apply one is to reach the   *)
(* epoch it was sent at.  Packets may be lost and reordered.               *)
(***************************************************************************)
EXTENDS Integers, Sequences

CONSTANTS
    MaxEpoch,     \* bound on the commits created in this connection
    MaxPackets,   \* bound on the packets each side sends
    KeyPhaseSize  \* the least number of packets after which quinn updates by itself:
                  \* it draws one of 10 to 999

ASSUME KeyUpdateConstants ==
    MaxEpoch \in Nat /\ MaxPackets \in Nat /\ KeyPhaseSize \in Nat

Sides      == {"Client", "Server"}
Peer(s)    == IF s = "Client" THEN "Server" ELSE "Client"
Directions == {"c2s", "s2c"}
Outgoing(s) == IF s = "Client" THEN "c2s" ELSE "s2c"

\* A secret is told by its epoch and its generation, the context it is exported
\* under; a pair of keys has one secret for each direction.
Secret(e, n) == [epoch |-> e, generation |-> n]
Pair(c2s, s2c) == [d \in Directions |-> IF d = "c2s" THEN c2s ELSE s2c]
NoPair    == Pair(Secret(-1, 0), Secret(-1, 0))
Unacked   == MaxPackets + 1      \* end_packet of an update nobody answered yet

VARIABLES
    group,       \* MLS epoch of each side's group
    preambles,   \* epochs up to which the datagrams under way replay
    generation,  \* key_update_generation
    current, next, prev,   \* pairs of each side; prev is NoPair once discarded
    phases,      \* history: every pair a side has exported, in the order of its phases
    end_packet,  \* first packet of the peer in the phase after prev
    phase,       \* key phase bit
    sent,        \* packets sent
    packets,     \* packets under way
    updating,    \* first export and packet of the update a side is in the middle of
    rekeying,    \* has Alice sent a preamble she has not yet rekeyed for?
    orderly      \* so far Alice has committed only when the last update was over, what
                 \* was sent has arrived in order, with nothing lost, and neither side
                 \* has updated by itself

keyVars == <<generation, current, next, prev, phases, end_packet, phase>>
vars == <<group, preambles, keyVars, sent, packets, updating, rekeying, orderly>>

NoUpdate == [pn |-> 0, c2s |-> Secret(-1, 0)]

Init ==
    /\ group = [s \in Sides |-> 0]
    /\ preambles = {}
    /\ generation = [s \in Sides |-> 1]
    /\ current = [s \in Sides |-> Pair(Secret(0, 0), Secret(0, 0))]
    /\ next = [s \in Sides |-> Pair(Secret(0, 1), Secret(0, 1))]
    /\ prev = [s \in Sides |-> NoPair]
    /\ phases = [s \in Sides |-> <<Pair(Secret(0, 0), Secret(0, 0)), Pair(Secret(0, 1), Secret(0, 1))>>]
    /\ end_packet = [s \in Sides |-> 0]
    /\ phase = [s \in Sides |-> 0]
    /\ sent = [s \in Sides |-> 0]
    /\ packets = {}
    /\ updating = [s \in Sides |-> NoUpdate]
    /\ rekeying = FALSE
    /\ orderly = TRUE

\* update_keys: `new`, from next_1rtt_keys, takes the place of the next keys, they
\* that of the current ones, which are kept for packets sent before.
UpdateKeys(s, new, end) ==
    /\ generation' = [generation EXCEPT ![s] = @ + 1]
    /\ current' = [current EXCEPT ![s] = next[s]]
    /\ next' = [next EXCEPT ![s] = new]
    /\ prev' = [prev EXCEPT ![s] = current[s]]
    /\ phases' = [phases EXCEPT ![s] = Append(@, new)]
    /\ end_packet' = [end_packet EXCEPT ![s] = end]
    /\ phase' = [phase EXCEPT ![s] = 1 - @]

\* next_1rtt_keys counts, then exports under the count.
\* Slip: the count is left out.
SecretUncounted(s) == Secret(group[s], 0)
NextSecret(s) == Secret(group[s], generation[s] + 1)

-----------------------------------------------------------------------------
\* run_alice: a commit, and the window as a preamble.
Commit ==
    /\ ~rekeying
    /\ group["Client"] < MaxEpoch
    /\ group' = [group EXCEPT !["Client"] = @ + 1]
    /\ preambles' = preambles \cup {group["Client"] + 1}
    /\ rekeying' = TRUE
    /\ orderly' = (orderly /\ prev["Client"] = NoPair)
    /\ UNCHANGED <<keyVars, sent, packets, updating>>

\* force_key_update, redundant while the keys before the last one are kept.  It has
\* the connection's lock, and Alice alone moves her group, so that it is one step.
\* Slips: never redundant; before the commit instead of after it.
ForceAlways ==
    /\ rekeying /\ updating["Client"] = NoUpdate
    /\ UpdateKeys("Client", Pair(NextSecret("Client"), NextSecret("Client")), Unacked)
    /\ rekeying' = FALSE
    /\ UNCHANGED <<group, preambles, sent, packets, updating, orderly>>
ForceBeforeCommit ==
    /\ rekeying /\ updating["Client"] = NoUpdate
    /\ LET old == [NextSecret("Client") EXCEPT !.epoch = @ - 1]
       IN  prev["Client"] = NoPair /\ UpdateKeys("Client", Pair(old, old), Unacked)
    /\ rekeying' = FALSE
    /\ UNCHANGED <<group, preambles, sent, packets, updating, orderly>>
ForceKeyUpdate ==
    /\ rekeying /\ updating["Client"] = NoUpdate
    /\ IF prev["Client"] = NoPair
       THEN UpdateKeys("Client", Pair(NextSecret("Client"), NextSecret("Client")), Unacked)
       ELSE UNCHANGED keyVars
    /\ rekeying' = FALSE
    /\ UNCHANGED <<group, preambles, sent, packets, updating, orderly>>

\* Bob's sink applies a datagram's window, if he does not have it.
Apply(e) ==
    /\ e \in preambles
    /\ preambles' = preambles \ {e}
    /\ group' = [group EXCEPT !["Server"] = IF @ < e THEN e ELSE @]
    /\ orderly' = (/\ orderly
                   /\ \A f \in preambles : e <= f
                   /\ \A p \in packets : p.to = "Server" => p.epoch >= e)
    /\ UNCHANGED <<keyVars, sent, packets, updating, rekeying>>

Lose ==
    /\ \/ \E e \in preambles : preambles' = preambles \ {e} /\ UNCHANGED packets
       \/ \E p \in packets : packets' = packets \ {p} /\ UNCHANGED preambles
    /\ orderly' = FALSE
    /\ UNCHANGED <<group, keyVars, sent, updating, rekeying>>

\* Data or an acknowledgment under the current keys.
Send(s) ==
    /\ sent[s] < MaxPackets
    /\ updating[s] = NoUpdate
    /\ sent' = [sent EXCEPT ![s] = @ + 1]
    /\ packets' = packets \cup
         {[to |-> Peer(s), pn |-> sent[s] + 1, phase |-> phase[s],
           secret |-> current[s][Outgoing(s)], epoch |-> group[s]]}
    /\ UNCHANGED <<group, preambles, keyVars, updating, rekeying, orderly>>

InOrder(p) ==
    /\ \A q \in packets : q.to = p.to => p.pn <= q.pn
    /\ p.to = "Server" => \A e \in preambles : p.epoch < e

\* The keys decrypt_packet_body tries: in the other phase, the previous ones for a
\* packet from before the peer's update, else the next ones.
FromBefore(s, p) == prev[s] # NoPair /\ p.pn < end_packet[s]
StartsUpdate(s, p) == p.phase # phase[s] /\ ~FromBefore(s, p)
KeysFor(s, p) ==
    IF p.phase = phase[s] THEN current[s]
    ELSE IF FromBefore(s, p) THEN prev[s] ELSE next[s]

\* A packet in the new phase answers this side's update; one the keys do not open is
\* dropped; one that opens under the next keys makes this side update as well, which
\* takes it two exports, each under the group's lock by itself.
Receive(s, p) ==
    /\ p \in packets /\ p.to = s
    /\ updating[s] = NoUpdate
    /\ packets' = packets \ {p}
    /\ orderly' = (orderly /\ InOrder(p))
    /\ LET opens == KeysFor(s, p)[Outgoing(Peer(s))] = p.secret
       IN  /\ updating' = IF opens /\ StartsUpdate(s, p)
                          THEN [updating EXCEPT ![s] = [pn |-> p.pn, c2s |-> NextSecret(s)]]
                          ELSE updating
           /\ end_packet' = IF opens /\ p.phase = phase[s] /\ end_packet[s] = Unacked
                            THEN [end_packet EXCEPT ![s] = p.pn] ELSE end_packet
    /\ UNCHANGED <<group, preambles, generation, current, next, prev, phases, phase, sent,
                   rekeying>>

\* quinn's own update, when the next packet is built: it falls to the task that
\* drives the connection, so that the group may move between its two exports.
RoutineUpdate(s) ==
    /\ generation[s] = 1 /\ sent[s] >= KeyPhaseSize
    /\ updating[s] = NoUpdate /\ prev[s] = NoPair
    /\ updating' = [updating EXCEPT ![s] = [pn |-> Unacked, c2s |-> NextSecret(s)]]
    /\ orderly' = FALSE
    /\ UNCHANGED <<group, preambles, keyVars, sent, packets, rekeying>>

FinishUpdate(s) ==
    /\ updating[s] # NoUpdate
    /\ UpdateKeys(s, Pair(updating[s].c2s, NextSecret(s)), updating[s].pn)
    /\ updating' = [updating EXCEPT ![s] = NoUpdate]
    /\ UNCHANGED <<group, preambles, sent, packets, rekeying, orderly>>

\* The key discard timer, set once the peer has answered.
Discard(s) ==
    /\ prev[s] # NoPair
    /\ end_packet[s] # Unacked
    /\ prev' = [prev EXCEPT ![s] = NoPair]
    /\ UNCHANGED <<group, preambles, generation, current, next, phases, end_packet, phase,
                   sent, packets, updating, rekeying, orderly>>

Next ==
    \/ Commit \/ ForceKeyUpdate
    \/ \E e \in 1..MaxEpoch : Apply(e)
    \/ Lose
    \/ \E s \in Sides :
          \/ Send(s) \/ RoutineUpdate(s) \/ FinishUpdate(s) \/ Discard(s)
          \/ \E p \in packets : Receive(s, p)

Spec == Init /\ [][Next]_vars

-----------------------------------------------------------------------------
Generations(s) == {k \in {prev[s], current[s], next[s]} : k # NoPair}

SecretType == [epoch : -1..MaxEpoch, generation : 0..(MaxEpoch + 2)]
PairType   == [Directions -> SecretType]

\* Types; the keys prepared ahead are those of the generation last counted, the
\* current ones those before, and the phase bit goes by it (session.rs:162-166).
TypeOK ==
    /\ group \in [Sides -> 0..MaxEpoch] /\ group["Server"] <= group["Client"]
    /\ preambles \subseteq 1..MaxEpoch
    /\ current \in [Sides -> PairType] /\ next \in [Sides -> PairType]
    /\ prev \in [Sides -> PairType]
    /\ end_packet \in [Sides -> 0..Unacked]
    /\ sent \in [Sides -> 0..MaxPackets]
    /\ orderly \in BOOLEAN
    /\ \A s \in Sides : /\ phase[s] = (generation[s] + 1) % 2
                        /\ \A d \in Directions : /\ next[s][d].generation = generation[s]
                                                 /\ current[s][d].generation = generation[s] - 1

\* Neither side is two updates ahead of the other, whoever began them: one phase bit
\* is enough to tell whose keys a packet needs.
UpdatesInStep ==
    generation["Client"] - generation["Server"] \in {-1, 0, 1}

\* The first update always carries, whichever side makes it: its keys were prepared when
\* the connection was made, so that no late or lost preamble can touch them.
FirstUpdateCarries ==
    /\ generation = [s \in Sides |-> 2] => current["Client"] = current["Server"]
    /\ \A s \in Sides :
          generation[s] = 2 /\ generation[Peer(s)] = 1 => current[s] = next[Peer(s)]

\* Of all the pairs a side ever exports, no two phases share a secret in either
\* direction, although its group may be at one epoch for several of them: the context
\* tells them apart (session.rs:162-165).
PhasesAreFresh ==
    \A s \in Sides : \A i, j \in DOMAIN phases[s] :
        i # j => \A d \in Directions : phases[s][i][d] # phases[s][j][d]

\* Once the two sides have derived different keys for some generation, no further
\* commit, preamble or update brings them together: only a new connection does.
Split ==
    \E j \in Generations("Client"), k \in Generations("Server"), d \in Directions :
        j[d].generation = k[d].generation /\ j[d] # k[d]
SplitIsFinal == [][Split => Split']_vars

\* What tests/loopback.rs:218 says, of the sequence the test runs: after a rekey both
\* sides are in sync, as long as each commit waited for the last update to be over,
\* nothing was lost or overtaken, and the connection is too young for quinn's own
\* update.  Both have updated as often, and Bob has applied all there is: then their
\* keys are the same.
InSyncAfterRekey ==
    (/\ orderly
     /\ generation["Client"] = generation["Server"] /\ ~rekeying
     /\ \A s \in Sides : updating[s] = NoUpdate
     /\ group["Client"] = group["Server"])
    => current["Client"] = current["Server"] /\ next["Client"] = next["Server"]
=============================================================================
